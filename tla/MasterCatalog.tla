---------------------------- MODULE MasterCatalog ----------------------------
(***************************************************************************)
(* The named objects that a master keeps in etcd beside spaces: users,     *)
(* roles, aliases, databases and settings, and the requests of its HTTP    *)
(* interface that create, change and delete them.                          *)
(*                                                                         *)
(* A caller makes one request.  Its steps are those between which other    *)
(* requests can change etcd: the reads of BasicAuthMiddleware, the reads   *)
(* of the handler, the lock, the transaction, the release of the lock, the *)
(* calls to servers.  Most requests read what they change BEFORE they take *)
(* the lock and do not read it again: lapsed notes the objects written by  *)
(* a request whose reads another one had outdated.                         *)
(*                                                                         *)
(* Locks exclude until /clean_lock removes them (DistLock is about them).  *)
(* Spaces come and go as they like (SpaceMeta is about them).              *)
(***************************************************************************)
EXTENDS Naturals, Sequences, FiniteSets, FiniteSetsExt, Functions, TLC

CONSTANTS
    Callers,
    Hosts,          \* partition servers: memory limits and engine settings go to them
    Scenes          \* the cases; a behaviour is about one of them

VARIABLES
    scene,  \* the case: the requests, what is there at first and what may happen
    kv,       \* etcd: a value for every key that exists
    spaces,   \* <<database id, space name>>
    lastId,   \* DBIdSequence
    locks,    \* <<key, caller>>
    call,     \* the requests under way
    answer,   \* what each caller was told
    pushed,   \* the memory limit that each server has
    engine,   \* the engine settings that each server has
    faults,   \* failures that may still happen
    ref,      \* etcd, had every request been one step
    lapsed,   \* keys written after an outdated or failed read
    seen      \* what was so in some state during each request

catalogVars == <<scene, kv, spaces, lastId, locks, call, answer, pushed, engine, faults, ref, lapsed, seen>>

Has(k) == k \in DOMAIN kv

UserKey(n) == <<"user", n>>
RoleKey(n) == <<"role", n>>
AliasKey(n) == <<"alias", n>>
DBKeyName(n) == <<"dbname", n>>
DBKeyId(i) == <<"dbid", i>>
DBKeyBody(i) == <<"dbbody", i>>
ConfigKey(n) == <<"config", n>>

Bodies == {k \in DOMAIN kv : k[1] = "dbbody"}

\* RoleMap: these roles are in the program and not in etcd
All(level, resources) == [x \in resources |-> level]
Edits == All("WriteRead", {"ResourceDocument", "ResourceIndex"})
Privileges(r) ==
    CASE r = "root" -> All("WriteRead", {"ResourceAll"})
      [] r = "defaultClusterAdmin" ->
            All("WriteRead", {"ResourceCluster", "ResourceServer", "ResourcePartition", "ResourceDB", "ResourceSpace",
                              "ResourceAlias", "ResourceConfig", "ResourceUser", "ResourceRole"}) @@ Edits
      [] r = "defaultSpaceAdmin" -> ("ResourceSpace" :> "WriteRead") @@ ("ResourceAlias" :> "ReadOnly") @@ Edits
      [] r = "defaultDocumentAdmin" -> Edits
      [] r = "defaultReadDBSpaceEditDocument" ->
            All("ReadOnly", {"ResourceCluster", "ResourceDB", "ResourceSpace", "ResourceAlias"}) @@ Edits
      [] r = "defaultReadSpaceEditDocument" -> All("ReadOnly", {"ResourceSpace", "ResourceAlias"}) @@ Edits
Builtin == {"root", "defaultClusterAdmin", "defaultSpaceAdmin", "defaultDocumentAdmin",
            "defaultReadDBSpaceEditDocument", "defaultReadSpaceEditDocument"}

----------------------------------------------------------------------------
(* The handlers: what a request carries.                                   *)

Request(op, name, val, by) == [op |-> op, name |-> name, val |-> val, by |-> by]

\* a request without credentials
NoOne == [name |-> "", pw |-> ""]

createUser(n, pw, role, by) == Request("createUser", n, [pw |-> pw, role |-> role], by)
deleteUser(n, by) == Request("deleteUser", n, "", by)
updateUser(n, val, by) == Request(IF "role" \in DOMAIN val THEN "userRole" ELSE "userPass", n, val, by)
createRole(n, privileges, by) == Request("createRole", n, privileges, by)
deleteRole(n, by) == Request("deleteRole", n, "", by)
changeRolePrivilege(n, operator, privileges, by) == Request(operator, n, privileges, by)
createAlias(n, db, space, by) == Request("createAlias", n, [db |-> db, space |-> space], by)
modifyAlias(n, db, space, by) == Request("modifyAlias", n, [db |-> db, space |-> space], by)
deleteAlias(n, by) == Request("deleteAlias", n, "", by)
createDB(n, by) == Request("createDB", n, "", by)
deleteDB(n, by) == Request("deleteDB", n, "", by)
modifyDB(n, method, ip, by) == Request(method, n, ip, by)
modifySpaceConfig(db, space, cfg, by) == Request("spaceConfig", space, [db |-> db, space |-> space, cfg |-> cfg], by)
modifyRequestLimitCfg(cfg, by) == Request("limit", "request_limit_config", cfg, by)
modifyMemoryLimitCfg(cfg, by) == Request("memory", "memory_limit_config", cfg, by)
modifySlowSearchIsolationCfg(cfg) == Request("slow", "slow_search_isolation", cfg, NoOne)
getUser(n, by) == Request("getUser", n, "", by)
getRole(n, by) == Request("getRole", n, "none", by)
getAlias(n, by) == Request("getAlias", n, "none", by)
getDB(n, by) == Request("getDB", n, "", by)
cleanLock(by) == Request("cleanLock", "", "", by)

\* a master that starts makes sure that there is a root user
startMaster(pw) == Request("start", "root", [pw |-> pw, role |-> "root"], NoOne)

\* ExportToClusterHandler: the routes that BasicAuthMiddleware does not guard
Open == {"slow", "start"}

\* ParseResources
ResourceOf(op) ==
    CASE op \in {"createUser", "deleteUser", "userRole", "userPass", "getUser"} -> "ResourceUser"
      [] op \in {"createRole", "deleteRole", "Grant", "Revoke", "getRole"} -> "ResourceRole"
      [] op \in {"createAlias", "modifyAlias", "deleteAlias", "getAlias"} -> "ResourceAlias"
      [] op \in {"createDB", "deleteDB", "addIP", "removeIP", "getDB"} -> "ResourceDB"
      [] op \in {"spaceConfig", "limit", "memory"} -> "ResourceConfig"
      [] OTHER -> "ResourceAll"

PrivilegeOf(op) == IF op \in {"getUser", "getRole", "getAlias", "getDB"} THEN "ReadOnly" ELSE "WriteOnly"

\* HasPermissionForResources returns nil for root, for a level that suffices,
\* and at its end also for one that does not: only a resource that the role
\* does not list is refused.
Suffices(level, op) == level \in {PrivilegeOf(op), "WriteRead"}
FallsThrough(level, op) == ~Suffices(level, op)
HasPermission(role, privileges, op) ==
    \/ role = "root"
    \/ /\ ResourceOf(op) \in DOMAIN privileges
       /\ LET level == privileges[ResourceOf(op)] IN Suffices(level, op) \/ FallsThrough(level, op)

R(c) == scene.req[c]

\* number.IsNum: a database may be named by its id
Numbers == ("1" :> 1)
ById(r) == r.op \in {"deleteDB", "addIP", "removeIP", "getDB"} /\ r.name \in DOMAIN Numbers

Target(r) ==
    CASE r.op \in {"createUser", "deleteUser", "userRole", "userPass", "getUser", "start"} -> UserKey(r.name)
      [] r.op \in {"createRole", "deleteRole", "Grant", "Revoke", "getRole"} -> RoleKey(r.name)
      [] r.op \in {"createAlias", "modifyAlias", "deleteAlias", "getAlias"} -> AliasKey(r.name)
      [] r.op \in {"createDB", "deleteDB", "addIP", "removeIP", "getDB"} -> DBKeyName(r.name)
      [] OTHER -> ConfigKey(r.name)

\* the first step of a handler
First(r) ==
    CASE r.op = "createUser" -> "role"
      [] r.op = "createRole" -> "lock"
      [] r.op = "deleteRole" /\ r.name \in Builtin -> "lock"
      [] r.op \in {"createAlias", "modifyAlias", "spaceConfig"} -> "db"
      [] r.op = "createDB" -> IF scene.limited THEN "scan" ELSE "newid"
      [] r.op \in {"deleteDB", "addIP", "removeIP", "getDB"} -> IF ById(r) THEN "dbbody" ELSE "dbname"
      [] r.op = "slow" -> "write"
      [] r.op = "cleanLock" -> "clean"
      [] OTHER -> "target"

\* The object of r is there; the role of its credentials; the roles that name
\* the resource of r.
NothingSeen == [there |-> {}, held |-> {}, allow |-> {}]

Object(r) == IF ById(r) THEN DBKeyBody(Numbers[r.name]) ELSE Target(r)

Observed(before, store, r) ==
    [there |-> before.there \cup {Object(r) \in DOMAIN store},
     held  |-> before.held \cup {store[k].role : k \in {k \in DOMAIN store : k = UserKey(r.by.name) /\ store[k].pw = r.by.pw}},
     allow |-> before.allow \cup {n \in Builtin : n = "root" \/ ResourceOf(r.op) \in DOMAIN Privileges(n)}
               \cup {k[2] : k \in {k \in DOMAIN store : k[1] = "role" /\ ResourceOf(r.op) \in DOMAIN store[k]}}]

Fresh == [pc |-> "auth", cred |-> <<>>, old |-> <<>>, id |-> 0, reads |-> {}, stale |-> FALSE,
          result |-> "none", todo |-> {}, wrote |-> FALSE, failed |-> FALSE]

CatalogInit ==
    /\ \E i \in DOMAIN Scenes : scene = Scenes[i]
    /\ kv = scene.kv /\ ref = scene.kv
    /\ spaces = scene.spaces
    /\ lastId = scene.lastId
    /\ locks = {}
    /\ call = [c \in Callers |-> [Fresh EXCEPT !.pc = IF R(c).op \in Open THEN First(R(c)) ELSE "auth",
                                               !.id = IF ById(R(c)) THEN Numbers[R(c).name] ELSE 0]]
    /\ answer = [c \in Callers |-> "none"]
    /\ pushed = [h \in Hosts |-> scene.memory]
    /\ engine = [h \in Hosts |-> scene.engine]
    /\ faults = scene.faults
    /\ lapsed = {}
    /\ seen = [c \in Callers |-> Observed(NothingSeen, scene.kv, R(c))]

----------------------------------------------------------------------------
(* Steps of a request.                                                     *)

At(c, pc) == call[c].pc = pc

\* The request ends; a caller who was told of a timeout is told no more.
Reply(c, a) ==
    /\ call' = [call EXCEPT ![c].pc = "done"]
    /\ answer' = [answer EXCEPT ![c] = IF @ = "none" THEN a ELSE @]

Go(c, to) == call' = [call EXCEPT ![c] = to] /\ UNCHANGED answer

Goto(c, pc) == Go(c, [call[c] EXCEPT !.pc = pc])

\* a step that only reads etcd
Reading == UNCHANGED <<scene, kv, spaces, lastId, locks, pushed, engine, faults, ref, lapsed, seen>>

\* c wrote the keys K: who had read one of them holds an outdated value
Outdate(c, K, to) ==
    call' = [d \in Callers |-> IF d = c THEN to ELSE [call[d] EXCEPT !.stale = @ \/ call[d].reads \cap K # {}]]

RoleExists(n) == n \in Builtin \/ Has(RoleKey(n))
RoleSet(n) == IF n \in Builtin THEN Privileges(n) ELSE kv[RoleKey(n)]

\* QueryUserWithPassword reads the user, then its role; the role is read once more.
BasicAuthUser(c) ==
    /\ At(c, "auth")
    /\ LET u == UserKey(R(c).by.name) IN
       \/ ~Has(u) /\ Reply(c, "unauth")
       \/ Has(u) /\ Go(c, [call[c] EXCEPT !.pc = "authRole", !.cred = <<kv[u]>>])
    /\ Reading

BasicAuthPassword(c) ==
    /\ At(c, "authRole")
    /\ IF RoleExists(call[c].cred[1].role) /\ call[c].cred[1].pw = R(c).by.pw
       THEN Goto(c, "authAgain")
       ELSE Reply(c, "unauth")
    /\ Reading

\* slip: the role is not asked what it allows
BasicAuthNoRole(c) == At(c, "authAgain") /\ Goto(c, First(R(c))) /\ Reading

BasicAuthRole(c) ==
    /\ At(c, "authAgain")
    /\ LET n == call[c].cred[1].role IN
       IF RoleExists(n) /\ HasPermission(n, RoleSet(n), R(c).op)
       THEN Goto(c, First(R(c)))
       ELSE Reply(c, "unauth")
    /\ Reading

\* QueryRole of the role that a user is given
QueryRole(c) ==
    /\ At(c, "role")
    /\ IF RoleExists(R(c).val.role) THEN Goto(c, "lock") ELSE Reply(c, "norole")
    /\ Reading

DefaultLimit == [on |-> TRUE, read |-> 100, write |-> 50]
DefaultMemory == [on |-> TRUE, router |-> 80, ps |-> 80]

Default(op) ==
    CASE op = "limit" -> DefaultLimit [] op = "memory" -> DefaultMemory [] OTHER -> <<>>

\* UpdateUser: root sets the password of others, everybody else proves the old one
PasswordRefused(r, old) ==
    \/ r.val.pw = old.pw
    \/ ~(r.by.name = "root" /\ r.name # "root") /\ r.val.old # old.pw

\* the Get of the object, before the lock
QueryTarget(c) ==
    LET r == R(c)
        k == Target(r)
        read == [call[c] EXCEPT !.old = <<IF Has(k) THEN kv[k] ELSE Default(r.op)>>, !.reads = @ \cup {k}]
    IN
    /\ At(c, "target")
    /\ Reading
    /\ \/ r.op = "deleteUser" /\ r.name = "root" /\ Reply(c, "bad")
       \/ r.op \in {"limit", "memory", "spaceConfig"} /\ Go(c, [read EXCEPT !.pc = "write"])
       \/ r.op = "start" /\ IF Has(k) THEN Reply(c, "ok") ELSE Goto(c, "lock")
       \/ r.op = "getRole" /\ Reply(c, IF RoleExists(r.name) THEN "ok" ELSE "absent")
       \/ r.op = "getAlias" /\ Reply(c, IF Has(k) THEN "ok" ELSE "absent")
       \/ r.op \in {"deleteUser", "deleteRole", "deleteAlias", "userRole", "userPass", "Grant", "Revoke", "modifyAlias", "getUser"}
          /\ ~(r.op = "deleteUser" /\ r.name = "root")
          /\ IF ~Has(k) THEN Reply(c, "absent")
             ELSE CASE r.op = "userRole" -> Go(c, [read EXCEPT !.pc = "role"])
                    [] r.op = "userPass" /\ PasswordRefused(r, kv[k]) -> Reply(c, "bad")
                    [] r.op = "getUser" -> Go(c, [read EXCEPT !.pc = "getRole"])
                    [] OTHER -> Go(c, [read EXCEPT !.pc = "lock"])

\* QueryUser with checkRole, for GET /users
QueryUser(c) ==
    /\ At(c, "getRole")
    /\ Reply(c, IF RoleExists(call[c].old[1].role) THEN "ok" ELSE "norole")
    /\ Reading

\* QueryDBName2ID and QuerySpaceByName, for aliases and settings of a space
QueryDBName2ID(c) ==
    /\ At(c, "db")
    /\ LET k == DBKeyName(R(c).val.db) IN
       IF Has(k) THEN Go(c, [call[c] EXCEPT !.pc = "space", !.id = kv[k]]) ELSE Reply(c, "nodb")
    /\ Reading

QuerySpaceByName(c) ==
    /\ At(c, "space")
    /\ IF <<call[c].id, R(c).val.space>> \notin spaces THEN Reply(c, "nospace")
       ELSE CASE R(c).op = "createAlias" -> Goto(c, "lock")
              [] R(c).op = "modifyAlias" -> Goto(c, "target")
              [] OTHER -> Go(c, [call[c] EXCEPT !.pc = "push", !.todo = Hosts, !.reads = @ \cup {<<"engine", R(c).name>>}])
    /\ Reading

\* LimitedDBNum: the bodies are counted before anything is locked
LimitedDBNum(c) ==
    /\ At(c, "scan")
    /\ IF Bodies # {} THEN Reply(c, "bad")
       ELSE Go(c, [call[c] EXCEPT !.pc = "newid", !.reads = {<<"dbs", "all">>}])
    /\ Reading

NewIDGenerate(c) ==
    /\ At(c, "newid")
    /\ lastId' = lastId + 1
    /\ Go(c, [call[c] EXCEPT !.pc = "lock", !.id = lastId + 1])
    /\ UNCHANGED <<scene, kv, spaces, locks, pushed, engine, faults, ref, lapsed, seen>>

\* QueryDB: the name gives the id, the id the body
QueryDBId(c) ==
    /\ At(c, "dbname")
    /\ LET k == Target(R(c)) IN
       IF Has(k) THEN Go(c, [call[c] EXCEPT !.pc = "dbbody", !.id = kv[k], !.reads = {k}]) ELSE Reply(c, "absent")
    /\ Reading

QueryDBBody(c) ==
    /\ At(c, "dbbody")
    /\ LET k == DBKeyBody(call[c].id)
           read == [call[c] EXCEPT !.old = <<kv[k]>>, !.reads = @ \cup {k}]
       IN CASE ~Has(k) -> Reply(c, "absent")
            [] R(c).op = "getDB" -> Reply(c, "ok")
            [] R(c).op = "deleteDB" -> Go(c, [read EXCEPT !.pc = "lock"])
            [] OTHER -> Go(c, [read EXCEPT !.pc = "write"])
    /\ Reading

LockFor(c) ==
    /\ At(c, "lock")
    /\ \A l \in locks : l[1] # Target(R(c))
    /\ locks' = locks \cup {<<Target(R(c)), c>>}
    /\ Goto(c, IF R(c).op = "deleteDB" THEN "empty" ELSE "txn")
    /\ UNCHANGED <<scene, kv, spaces, lastId, pushed, engine, faults, ref, lapsed, seen>>

\* the lock is released when the method returns a
Return(c, a) == [call[c] EXCEPT !.pc = "unlock", !.result = a]

\* DeleteDB looks for spaces under its lock; creations of spaces take another one
QuerySpaces(c) ==
    /\ At(c, "empty")
    /\ IF \E s \in spaces : s[1] = call[c].id THEN Go(c, Return(c, "notempty")) ELSE Goto(c, "txn")
    /\ Reading

----------------------------------------------------------------------------
(* The transactions: what is put, what is deleted, or why not.             *)

Put(s, k, v) == [j \in DOMAIN s \cup {k} |-> IF j = k THEN v ELSE s[j]]
Drop(s, K) == [j \in DOMAIN s \ K |-> s[j]]

Refused(a) == [result |-> a, put |-> <<>>, del |-> {}]
Puts(f) == [result |-> "ok", put |-> f, del |-> {}]
Dels(K) == [result |-> "ok", put |-> <<>>, del |-> K]

CreateUser(r) == IF Has(UserKey(r.name)) THEN Refused("exist") ELSE Puts(UserKey(r.name) :> r.val)

DeleteUser(r) == Dels({UserKey(r.name)})

\* the half that is not in the request is the one that was read
UpdateUser(r, old) ==
    Puts(UserKey(r.name) :> IF r.op = "userRole" THEN [pw |-> old.pw, role |-> r.val.role]
                                                 ELSE [pw |-> r.val.pw, role |-> old.role])

CreateRole(r) == IF Has(RoleKey(r.name)) THEN Refused("exist") ELSE Puts(RoleKey(r.name) :> r.val)

DeleteRole(r) == Dels({RoleKey(r.name)})

ChangeRolePrivilege(r, old) ==
    Puts(RoleKey(r.name) :> IF r.op = "Grant" THEN r.val @@ old ELSE Drop(old, DOMAIN r.val))

CreateAlias(r) == IF Has(AliasKey(r.name)) THEN Refused("exist") ELSE Puts(AliasKey(r.name) :> r.val)

DeleteAlias(r) == Dels({AliasKey(r.name)})

UpdateAlias(r) == Puts(AliasKey(r.name) :> r.val)

CreateDB(r, id) ==
    IF Has(DBKeyName(r.name)) \/ Has(DBKeyId(id)) THEN Refused("exist")
    ELSE Puts((DBKeyName(r.name) :> id) @@ (DBKeyId(id) :> r.name) @@ (DBKeyBody(id) :> [name |-> r.name, ps |-> {}]))

\* slip: the name is not deleted
DeleteDBKeepName(id, old) == Dels({DBKeyId(id), DBKeyBody(id)})

DeleteDB(id, old) == Dels({DBKeyName(old.name), DBKeyId(id), DBKeyBody(id)})

UpdateDBIpList(r, id, old) ==
    Puts(DBKeyBody(id) :> [old EXCEPT !.ps = IF r.op = "addIP" THEN @ \cup {r.val} ELSE @ \ {r.val}])

\* a limit that is zero, or comes with "disabled", keeps its value
ModifyRequestLimitCfg(r, old) ==
    Puts(Target(r) :> [on    |-> r.val.on,
                       read  |-> IF r.val.on /\ r.val.read > 0 THEN r.val.read ELSE old.read,
                       write |-> IF r.val.on /\ r.val.write > 0 THEN r.val.write ELSE old.write])

ModifyMemoryLimitCfg(r, old) ==
    Puts(Target(r) :> [on     |-> r.val.on,
                       router |-> IF r.val.on /\ r.val.router > 0 THEN r.val.router ELSE old.router,
                       ps     |-> IF r.val.on /\ r.val.ps > 0 THEN r.val.ps ELSE old.ps])

UpdateSpaceConfig(r, old) == Puts(Target(r) :> (r.val.cfg @@ old))

ModifySlowSearchIsolationCfg(r) == Puts(Target(r) :> r.val)

Effect(c) ==
    LET r == R(c) old == call[c].old[1] id == call[c].id IN
    CASE r.op \in {"createUser", "start"} -> CreateUser(r)
      [] r.op = "deleteUser" -> DeleteUser(r)
      [] r.op \in {"userRole", "userPass"} -> UpdateUser(r, old)
      [] r.op = "createRole" -> CreateRole(r)
      [] r.op = "deleteRole" -> DeleteRole(r)
      [] r.op \in {"Grant", "Revoke"} -> ChangeRolePrivilege(r, old)
      [] r.op = "createAlias" -> CreateAlias(r)
      [] r.op = "deleteAlias" -> DeleteAlias(r)
      [] r.op = "modifyAlias" -> UpdateAlias(r)
      [] r.op = "createDB" -> CreateDB(r, id)
      [] r.op = "deleteDB" -> DeleteDB(id, old)
      [] r.op \in {"addIP", "removeIP"} -> UpdateDBIpList(r, id, old)
      [] r.op = "limit" -> ModifyRequestLimitCfg(r, old)
      [] r.op = "memory" -> ModifyMemoryLimitCfg(r, old)
      [] r.op = "spaceConfig" -> UpdateSpaceConfig(r, old)
      [] r.op = "slow" -> ModifySlowSearchIsolationCfg(r)

\* What r means, done to s at once: the reference for Effect.
Meaning(s, r, id) ==
    LET k == IF ById(r) /\ Object(r) \in DOMAIN s THEN DBKeyName(s[Object(r)].name) ELSE Target(r) IN
    CASE r.op \in {"createUser", "start", "createRole", "createAlias"} -> IF k \in DOMAIN s THEN s ELSE Put(s, k, r.val)
      [] r.op \in {"deleteUser", "deleteRole", "deleteAlias"} -> Drop(s, {k})
      [] r.op = "slow" -> Put(s, k, r.val)
      [] r.op = "createDB" -> IF k \in DOMAIN s THEN s
                              ELSE Put(Put(Put(s, k, id), DBKeyId(id), r.name), DBKeyBody(id), [name |-> r.name, ps |-> {}])
      [] r.op \in {"limit", "memory", "spaceConfig"} ->
            LET was == IF k \in DOMAIN s THEN s[k] ELSE Default(r.op)
                given == IF r.op = "spaceConfig" THEN r.val.cfg ELSE r.val
            IN Put(s, k, [f \in DOMAIN was \cup DOMAIN given |->
                            IF f = "on" \/ (f \in DOMAIN given /\ (r.op = "spaceConfig" \/ (given.on /\ given[f] > 0)))
                            THEN given[f] ELSE was[f]])
      [] k \notin DOMAIN s -> s
      [] r.op = "deleteDB" -> Drop(s, {k, DBKeyId(s[k]), DBKeyBody(s[k])})
      [] r.op = "addIP" -> Put(s, DBKeyBody(s[k]), [s[DBKeyBody(s[k])] EXCEPT !.ps = @ \cup {r.val}])
      [] r.op = "removeIP" -> Put(s, DBKeyBody(s[k]), [s[DBKeyBody(s[k])] EXCEPT !.ps = @ \ {r.val}])
      [] r.op = "userRole" -> Put(s, k, [s[k] EXCEPT !.role = r.val.role])
      [] r.op = "userPass" -> Put(s, k, [s[k] EXCEPT !.pw = r.val.pw])
      [] r.op = "Grant" -> Put(s, k, [x \in DOMAIN s[k] \cup DOMAIN r.val |-> IF x \in DOMAIN r.val THEN r.val[x] ELSE s[k][x]])
      [] r.op = "Revoke" -> Put(s, k, Drop(s[k], DOMAIN r.val))
      [] r.op = "modifyAlias" -> Put(s, k, r.val)

\* etcd applies the writes e of c, which then is at `to`
Applied(c, e, to) ==
    LET K == DOMAIN e.put \cup e.del \cup (IF R(c).op = "createDB" THEN {<<"dbs", "all">>} ELSE {})
        changed == {k \in DOMAIN ref \cap DOMAIN ref' : ref[k] # ref'[k]}
    IN
    /\ UNCHANGED <<scene, spaces, lastId, locks, pushed, engine>>
    /\ Outdate(c, K, [to EXCEPT !.wrote = TRUE])
    /\ kv' = e.put @@ Drop(kv, e.del)
    /\ seen' = [d \in Callers |-> IF call[d].pc = "done" THEN seen[d] ELSE Observed(seen[d], kv', R(d))]
    /\ ref' = Meaning(ref, R(c), call[c].id)
    /\ lapsed' = IF call[c].stale \/ K \cap lapsed # {}
                 THEN lapsed \cup K \cup (DOMAIN ref \ DOMAIN ref') \cup changed
                 ELSE lapsed

Commit(c, to) == Applied(c, Effect(c), to)

\* UpdateUser, ChangeRolePrivilege and UpdateAlias return nil whatever the transaction did
Silent == {"userRole", "userPass", "Grant", "Revoke", "modifyAlias"}

STM(c) ==
    /\ At(c, "txn")
    /\ UNCHANGED <<answer, faults>>
    /\ LET a == Effect(c).result IN
       \/ a = "ok" /\ Commit(c, Return(c, "ok"))
       \/ a # "ok" /\ call' = [call EXCEPT ![c] = Return(c, a)]
                   /\ UNCHANGED <<scene, kv, spaces, lastId, locks, pushed, engine, ref, lapsed, seen>>

\* the connection to etcd is lost before or after the transaction is applied
STMFails(c) ==
    /\ At(c, "txn") /\ faults > 0
    /\ faults' = faults - 1
    /\ UNCHANGED answer
    /\ LET to == [Return(c, IF R(c).op \in Silent THEN "ok" ELSE "error") EXCEPT !.failed = TRUE] IN
       \/ Effect(c).result = "ok" /\ Commit(c, to)
       \/ call' = [call EXCEPT ![c] = to] /\ UNCHANGED <<scene, kv, spaces, lastId, locks, pushed, engine, ref, lapsed, seen>>

Memory == <<"pushed", "memory">>
Engine(r) == <<"pushed", r.name>>

\* Update and Put, without a lock
Write(c) ==
    /\ At(c, "write")
    /\ UNCHANGED faults
    /\ IF R(c).op = "memory"
       THEN UNCHANGED answer
            /\ Commit(c, [call[c] EXCEPT !.pc = "push", !.old = <<Effect(c).put[Target(R(c))]>>, !.todo = Hosts])
       ELSE Commit(c, [call[c] EXCEPT !.pc = "done"])
            /\ answer' = [answer EXCEPT ![c] = IF @ = "none" THEN "ok" ELSE @]

WriteFails(c) ==
    /\ At(c, "write") /\ faults > 0
    /\ faults' = faults - 1
    /\ answer' = [answer EXCEPT ![c] = IF @ = "none" THEN "error" ELSE @]
    /\ LET to == [call[c] EXCEPT !.pc = "done", !.failed = TRUE] IN
       \/ Commit(c, to)
       \/ /\ call' = [call EXCEPT ![c] = to]
          /\ UNCHANGED <<scene, kv, spaces, lastId, locks, pushed, engine, ref, lapsed, seen>>

\* UpdateMemoryLimitCfg and UpdateEngineCfg: a call that fails is only logged
Push(c) ==
    LET r == R(c)
        K == {<<"engine", r.name>>}
    IN
    /\ At(c, "push")
    /\ \E h \in call[c].todo :
        /\ \/ /\ UNCHANGED faults
              /\ lapsed' = IF r.op = "memory" /\ call[c].stale THEN lapsed \cup {Memory} ELSE lapsed
              /\ pushed' = IF r.op = "memory" THEN [pushed EXCEPT ![h] = call[c].old[1]] ELSE pushed
              /\ engine' = IF r.op = "memory" THEN engine ELSE [engine EXCEPT ![h] = r.val.cfg @@ @]
           \/ /\ faults > 0 /\ faults' = faults - 1
              /\ lapsed' = lapsed \cup {IF r.op = "memory" THEN Memory ELSE Engine(r)}
              /\ UNCHANGED <<pushed, engine>>
        /\ Outdate(c, IF r.op = "memory" THEN {} ELSE K, [call[c] EXCEPT !.todo = @ \ {h}])
    /\ UNCHANGED <<scene, kv, spaces, lastId, locks, answer, ref, seen>>

\* ModifyMemoryLimitCfg: the servers cannot be listed after the limit is written
QueryServersFails(c) ==
    /\ At(c, "push") /\ R(c).op = "memory" /\ call[c].todo = Hosts
    /\ faults > 0 /\ faults' = faults - 1
    /\ lapsed' = lapsed \cup {Memory}
    /\ Reply(c, "error")
    /\ UNCHANGED <<scene, kv, spaces, lastId, locks, pushed, engine, ref, seen>>

Pushed(c) ==
    /\ At(c, "push") /\ call[c].todo = {}
    /\ IF R(c).op = "memory" THEN Reply(c, "ok") ELSE Goto(c, "target")
    /\ Reading

\* A master that could not create the root user looks whether another one did.
Over(c, a) == IF R(c).op = "start" /\ a # "ok" THEN Goto(c, "check") ELSE Reply(c, a)

Unlock(c) ==
    /\ At(c, "unlock")
    /\ \/ locks' = locks \ {<<Target(R(c)), c>>} /\ UNCHANGED faults
       \/ faults > 0 /\ faults' = faults - 1 /\ UNCHANGED locks
    /\ Over(c, call[c].result)
    /\ UNCHANGED <<scene, kv, spaces, lastId, pushed, engine, ref, lapsed, seen>>

StartCheck(c) ==
    /\ At(c, "check")
    /\ Reply(c, IF Has(UserKey("root")) THEN "ok" ELSE "panic")
    /\ Reading

\* /clean_lock deletes the lock keys that it finds, one after the other
CleanScan(c) ==
    /\ At(c, "clean")
    /\ Go(c, [call[c] EXCEPT !.pc = "cleaning", !.todo = locks])
    /\ Reading

CleanDelete(c) ==
    /\ At(c, "cleaning")
    /\ \/ call[c].todo = {} /\ Reply(c, "ok") /\ UNCHANGED locks
       \/ \E l \in call[c].todo :
            /\ locks' = locks \ {l}
            /\ IF l \in locks THEN Go(c, [call[c] EXCEPT !.todo = @ \ {l}]) ELSE Reply(c, "error")
    /\ UNCHANGED <<scene, kv, spaces, lastId, pushed, engine, faults, ref, lapsed, seen>>

\* TimeoutMiddleware answers; the handler, which was not given the deadline, goes on
Timeout(c) ==
    /\ scene.timeout /\ R(c).op # "start"
    /\ answer[c] = "none" /\ ~At(c, "done")
    /\ answer' = [answer EXCEPT ![c] = "timeout"]
    /\ UNCHANGED <<scene, kv, spaces, lastId, locks, call, pushed, engine, faults, ref, lapsed, seen>>

\* A read fails, or the lock cannot be had.
Fault(c) ==
    /\ faults > 0 /\ faults' = faults - 1
    /\ UNCHANGED <<scene, kv, spaces, lastId, locks, pushed, engine, ref, lapsed, seen>>
    /\ \/ \E pc \in {"auth", "authRole", "authAgain"} : At(c, pc) /\ Reply(c, "unauth")
       \/ At(c, "target") /\ CASE R(c).op = "start" -> Goto(c, "lock")
                               [] R(c).op = "spaceConfig" ->
                                     Go(c, [call[c] EXCEPT !.pc = "write", !.old = <<<<>>>>, !.stale = TRUE])
                               [] OTHER -> Reply(c, "error")
       \/ At(c, "empty") /\ Go(c, Return(c, "error"))
       \/ At(c, "check") /\ call' = [call EXCEPT ![c].pc = "done", ![c].failed = TRUE] /\ answer' = [answer EXCEPT ![c] = "panic"]
       \/ At(c, "lock") /\ Over(c, "error")
       \/ \E pc \in {"role", "getRole", "db", "space", "scan", "newid", "dbname", "dbbody", "clean", "cleaning"} :
             At(c, pc) /\ Reply(c, "error")

\* slip: the key of a lock has no lease
LockNoLease(l) == l \in locks /\ locks = {} /\ UNCHANGED catalogVars

\* The lease of a lock that was not released runs out.
LockExpires(l) ==
    /\ l \in locks /\ ~(call[l[2]].pc \in {"empty", "txn", "unlock"})
    /\ locks' = locks \ {l}
    /\ UNCHANGED <<scene, kv, spaces, lastId, call, answer, pushed, engine, faults, ref, lapsed, seen>>

\* Other requests create and drop spaces.
SpaceChange ==
    /\ \E s \in scene.moving : spaces' = IF s \in spaces THEN spaces \ {s} ELSE spaces \cup {s}
    /\ UNCHANGED <<scene, kv, lastId, locks, call, answer, pushed, engine, faults, ref, lapsed, seen>>

Step(c) ==
    \/ BasicAuthUser(c) \/ BasicAuthPassword(c) \/ BasicAuthRole(c)
    \/ QueryRole(c) \/ QueryTarget(c) \/ QueryUser(c)
    \/ QueryDBName2ID(c) \/ QuerySpaceByName(c)
    \/ LimitedDBNum(c) \/ NewIDGenerate(c) \/ QueryDBId(c) \/ QueryDBBody(c)
    \/ LockFor(c) \/ QuerySpaces(c) \/ STM(c) \/ STMFails(c) \/ Unlock(c)
    \/ Write(c) \/ WriteFails(c) \/ Push(c) \/ QueryServersFails(c) \/ Pushed(c)
    \/ StartCheck(c) \/ CleanScan(c) \/ CleanDelete(c)

CatalogNext ==
    \/ \E c \in Callers : Step(c) \/ Timeout(c) \/ Fault(c)
    \/ \E l \in locks : LockExpires(l)
    \/ SpaceChange

----------------------------------------------------------------------------
(* What the requests promise.                                              *)

Creates == {"createUser", "createRole", "createAlias", "createDB"}
Deletes == {"deleteUser", "deleteRole", "deleteAlias", "deleteDB"}
Gets == {"getUser", "getRole", "getAlias", "getDB"}
Changes == {"userRole", "userPass", "Grant", "Revoke", "modifyAlias", "addIP", "removeIP"}

\* Every answer was true in some state during the request, however the
\* requests interleave and whatever fails: a creation that succeeded found
\* nothing under its name and wrote; "exists" and "does not exist" were so at
\* some moment; a deletion that succeeded found the object and left nothing; a
\* change or a read found its object.  A change was made only with the
\* credentials of a user whose role names the resource of the request; which
\* level the role gives it makes no difference (HasPermissionForResources).  A
\* master that started found or made the root user, and only failures of etcd
\* stop it.
AnswersJustified ==
    \A c \in Callers :
        LET r == R(c) was == seen[c].there IN
        /\ answer[c] = "ok" /\ r.op \in Creates => was = BOOLEAN /\ call[c].wrote
        /\ answer[c] = "ok" /\ r.op \in Deletes /\ ~(r.op = "deleteRole" /\ r.name \in Builtin) => was = BOOLEAN
        /\ answer[c] = "ok" /\ r.op \in Changes => TRUE \in was /\ (call[c].wrote \/ call[c].failed)
        /\ answer[c] = "ok" /\ r.op \in Gets => TRUE \in was \/ r.name \in Builtin
        /\ answer[c] = "exist" => TRUE \in was
        /\ answer[c] = "absent" => FALSE \in was
        /\ call[c].wrote /\ r.op \notin Open => seen[c].held \cap seen[c].allow # {}
        /\ r.op = "start" /\ answer[c] = "ok" => Has(UserKey("root"))
        /\ answer[c] = "panic" => faults < scene.faults

\* A database that is found by its name is there with its id and its body, in
\* every state: the three keys are written in one transaction, and no change or
\* deletion that acts on an outdated read takes one away from under the name.
\* A body or an id that no name leads to, and a second database where
\* LimitedDBNum allows one, come only of such an outdated read.
DBsWhole ==
    /\ \A k \in DOMAIN kv : k[1] = "dbname" =>
          /\ Has(DBKeyId(kv[k])) /\ kv[DBKeyId(kv[k])] = k[2]
          /\ Has(DBKeyBody(kv[k])) /\ kv[DBKeyBody(kv[k])].name = k[2]
    /\ \A k \in DOMAIN kv : k[1] = "dbbody" /\ ~(k \in lapsed \/ DBKeyName(kv[k].name) \in lapsed) =>
          Has(DBKeyName(kv[k].name)) /\ kv[DBKeyName(kv[k].name)] = k[2]
    /\ scene.limited /\ <<"dbs", "all">> \notin lapsed /\ Cardinality({k \in DOMAIN scene.kv : k[1] = "dbbody"}) <= 1
          => Cardinality(Bodies) <= 1

\* A key holds what the requests that wrote it mean, each done at once, unless
\* one of them acted on an outdated or failed read: requests that do not
\* overlap never undo each other (a grant keeps the earlier grants, a new role
\* keeps the password, a setting keeps the settings it does not name).  Once all
\* are answered the servers have the memory limit and the engine settings that
\* etcd has, unless a call to one failed or two changes overlapped.
Serial ==
    /\ \A k \in (DOMAIN kv \cup DOMAIN ref) \ lapsed : k \in DOMAIN kv \cap DOMAIN ref /\ kv[k] = ref[k]
    /\ (\A c \in Callers : At(c, "done")) =>
        \A h \in Hosts, c \in Callers :
            /\ R(c).op = "memory" /\ call[c].wrote /\ lapsed \cap {Memory, Target(R(c))} = {} /\ faults = scene.faults
                 => pushed[h] = kv[Target(R(c))]
            /\ R(c).op = "spaceConfig" /\ call[c].wrote /\ lapsed \cap {Engine(R(c)), Target(R(c))} = {} /\ faults = scene.faults
                 => \A f \in DOMAIN R(c).val.cfg : engine[h][f] = kv[Target(R(c))][f]

\* What etcd holds is what requests that run one after the other would leave
\* there, and a database is whole, except where a request acted on an outdated read
\* (DBsWhole, Serial).
CatalogSound == DBsWhole /\ Serial

\* Every request is answered, also when others hold the locks it needs, a lock
\* is not released or etcd fails, and no lock is left.
AllServed == (\A c \in Callers : answer[c] # "none" /\ At(c, "done")) /\ locks = {}
=============================================================================
