---------------------------- MODULE BackupTasks ----------------------------
(***************************************************************************)
(* How the master runs backups and restores of spaces                      *)
(* (master/services/backup_service.go): the requests, the tasks they leave *)
(* with the BackupMonitor, the goroutines that send them to the partition  *)
(* servers, the monitor that polls the servers, the checker that settles   *)
(* versions, and the goroutines that wait for a partition to move.  What a *)
(* server does for a task is in BackupFiles; here it completes or fails.   *)
(*                                                                         *)
(* A task is <<r, p>>: the request r and a partition.  The tasks of all    *)
(* the requests for a space are under one key, the space.  The servers know *)
(* a task by its BackupID, which is a new one unless the client gives it.   *)
(* The version of a backup is the minute it started in.                    *)
(***************************************************************************)
EXTENDS Naturals, Sequences, FiniteSets, SequencesExt

CONSTANTS
    Hosts,       \* partition servers
    Spaces,
    PartsOf,     \* the partitions of each space
    Replicas,    \* the servers of each partition, in order
    Orders,     \* what is asked: sequences of [kind, space, ver, id]
    Versions,    \* minutes, which name the versions
    MaxLosses,   \* bound on the failures: servers, RPCs, queries, tasks
    MaxWaits     \* bound on the goroutines that wait for one task

ASSUME BackupTasksAssumption ==
    /\ \A s \in Orders : \A r \in DOMAIN s :
         /\ s[r].kind \in {"backup", "restore"}
         /\ s[r].space \in Spaces
         /\ s[r].ver \in Versions
         /\ s[r].id \in Nat
    /\ MaxLosses \in Nat /\ MaxWaits \in Nat

VARIABLES
    order,      \* the requests of this behaviour
    req,         \* the requests, each in its handler
    task,        \* PartitionBackupOrRestoreTask
    monitored,       \* BackupMonitor.tasks
    processing,  \* BackupMonitor.ProcessingVersion
    cache,       \* BackupManager.versionCache
    mapping,     \* BackupMonitor.restoreVersionMapping
    monitor,     \* the goroutine of runningTasksMonitor
    checker,     \* the goroutine of versionChecker
    ps,          \* the tasks known to the partition servers
    inited,      \* servers whose backup manager exists
    late,        \* <<n, t>>: t may be on its way to n since before that
    up,          \* servers that are up
    leader,      \* leader of each partition
    exists,      \* spaces that exist
    losses,
    \* history
    done,        \* <<n, i, p>>: server n has completed the task of BackupID i and p
    mixed,       \* spaces with a request let in while another was not over
    torn,        \* an update of ProcessingVersion was lost
    replaced,    \* a backup manager was replaced, with the tasks it had
    lossy        \* something failed other than a task on its server

master == <<task, monitored, processing, cache, mapping>>
goroutines == <<monitor, checker>>
servers == <<ps, inited, late, up, leader>>
history == <<done, mixed, torn, replaced, lossy>>
taskVars == <<order, req, master, goroutines, servers, exists,
                   losses, history>>

Requests == DOMAIN order

AllParts == UNION {PartsOf[s] : s \in Spaces}

SpaceOf(r) == order[r].space

\* SpaceSnapshot: the BackupID of a request
IdOf(r) == order[r].id

TasksOf(r) == {r} \X PartsOf[SpaceOf(r)]

AllTasks == UNION {TasksOf(r) : r \in Requests}

\* getTaskKey: the tasks of a server by BackupID and partition
Keys == {<<IdOf(t[1]), t[2]>> : t \in AllTasks}

NoTask == [status |-> "none", node |-> 0, addr |-> 0, send |-> FALSE, sentTo |-> 0,
           resend |-> 0, waits |-> 0]

MonitorIdle == [pc |-> "idle", todo |-> <<>>, left |-> {}, found |-> {}]

TasksInit ==
    /\ order \in Orders
    /\ req = [r \in Requests |-> [pc |-> "idle", seen |-> <<>>]]
    /\ task = [t \in AllTasks |-> NoTask]
    /\ monitored = [s \in Spaces |-> {}]
    /\ processing = <<>>
    /\ cache = [v \in Versions |-> "none"]
    /\ mapping = [s \in Spaces |-> 0]
    /\ monitor = MonitorIdle
    /\ checker = [pc |-> "idle", found |-> <<>>, seen |-> <<>>]
    /\ ps = [x \in {<<n, k[1], k[2]>> : n \in Hosts, k \in Keys} |-> "none"]
    /\ inited = {}
    /\ late = {}
    /\ up = Hosts
    /\ leader = [p \in AllParts |-> Replicas[p][1]]
    \* a space that is restored does not exist
    /\ exists = {s \in Spaces : \A r \in Requests : ~(order[r].kind = "restore" /\ SpaceOf(r) = s)}
    /\ losses = 0
    /\ done = {}
    /\ mixed = {}
    /\ torn = FALSE
    /\ replaced = FALSE
    /\ lossy = FALSE

Loses == losses < MaxLosses /\ losses' = losses + 1 /\ lossy' = TRUE

\* bm.mu is not held by the checker, between reading and writing the versions
Unlocked == checker.pc # "write"

At(r, kind, pc) == order[r].kind = kind /\ req[r].pc = pc

\* isNodeHealthy: the master knows the server and it answers PartitionInfos
Healthy(n) == n \in up

----------------------------------------------------------------------------
(* Requests                                                                *)

\* a slip: a second backup of a space is let in beside the first
NoTasksUnchecked(s) == TRUE

\* createSnapshot: an earlier backup or restore of the space is not done
NoTasks(s) == monitored[s] = {}

\* another request for the space is between its check and its tasks, or the
\* monitor has still to look at a version of it
Overlaps(r) ==
    \E q \in Requests \ {r} :
      /\ SpaceOf(q) = SpaceOf(r)
      /\ req[q].pc \in {"version", "append", "add"} \/ q \in ToSet(monitor.todo)

Mixed(r) == mixed' = IF Overlaps(r) THEN mixed \cup {SpaceOf(r)} ELSE mixed

\* createSnapshot up to generateVersionID; the tasks are looked at under a
\* read lock that is released at once
CreateSnapshot(r) ==
    /\ At(r, "backup", "idle")
    /\ Unlocked
    /\ req' = IF NoTasks(SpaceOf(r))
              THEN [req EXCEPT ![r].pc = "version"]
              ELSE [req EXCEPT ![r].pc = "refused"]
    /\ Mixed(r)
    /\ UNCHANGED <<order, master, goroutines, servers, exists, losses, done, torn, replaced, lossy>>

\* backupSchema finds no space, or backupSchema or resolvePartitions fails
CreateFails(r) ==
    /\ At(r, "backup", "version")
    /\ IF SpaceOf(r) \in exists THEN Loses ELSE UNCHANGED <<losses, lossy>>
    /\ req' = [req EXCEPT ![r].pc = "refused"]
    /\ UNCHANGED <<order, master, goroutines, servers, exists,
                   done, mixed, torn, replaced>>

\* resolvePartitions picks the leader; its address stays empty when the query
\* of the server fails
NewTask(t, found) ==
    [NoTask EXCEPT !.status = "inited", !.node = leader[t[2]],
                   !.addr = IF found THEN leader[t[2]] ELSE 0]

NewTasks(r) ==
    \/ /\ task' = [t \in DOMAIN task |-> IF t \in TasksOf(r) THEN NewTask(t, TRUE) ELSE task[t]]
       /\ UNCHANGED <<losses, lossy>>
    \/ /\ Loses
       /\ \E u \in TasksOf(r) :
            task' = [t \in DOMAIN task |-> IF t \in TasksOf(r) THEN NewTask(t, t # u) ELSE task[t]]

\* backupSchema, resolvePartitions, CreateVersion and the first half of
\* addVersionTask: the tasks are made, and ProcessingVersion is read without
\* the lock
ReadProcessing(r) ==
    /\ At(r, "backup", "version")
    /\ SpaceOf(r) \in exists
    /\ NewTasks(r)
    /\ req' = [req EXCEPT ![r].pc = "append", ![r].seen = processing]
    /\ UNCHANGED <<order, monitored, processing, cache, mapping, goroutines, servers,
                   exists, done, mixed, torn, replaced>>

\* and written back
AppendProcessing(r) ==
    /\ At(r, "backup", "append")
    /\ processing' = Append(req[r].seen, r)
    /\ torn' = (torn \/ processing # req[r].seen)
    /\ req' = [req EXCEPT ![r].pc = "add", ![r].seen = <<>>]
    /\ UNCHANGED <<order, task, monitored, cache, mapping, goroutines, servers, exists,
                   losses, done, mixed, replaced, lossy>>

\* restoreSchema: the space must not exist, and is created with as many
\* partitions as the version has directories
RestoreSchema(s) == s \notin exists /\ exists' = exists \cup {s}

\* or it fails, before or after the creation, and leaves what it has made
SchemaFails(s) ==
    IF s \in exists
    THEN UNCHANGED <<exists, losses, lossy>>
    ELSE Loses /\ exists' \in {exists, exists \cup {s}}

\* restoreSnapshot; addRestoreTasks makes the tasks
RestoreSnapshot(r) ==
    /\ At(r, "restore", "idle")
    /\ \/ /\ RestoreSchema(SpaceOf(r))
          /\ req' = [req EXCEPT ![r].pc = "add"]
          /\ NewTasks(r)
       \/ /\ SchemaFails(SpaceOf(r))
          /\ req' = [req EXCEPT ![r].pc = "refused"]
          /\ UNCHANGED task
    /\ Mixed(r)
    /\ UNCHANGED <<order, monitored, processing, cache, mapping, goroutines, servers,
                   done, torn, replaced>>

\* addTasks, and the end of addRestoreTasks, under the lock; dispatchTasks
\* then starts a goroutine for each task
AddTasks(r) ==
    LET s == SpaceOf(r) IN
    /\ req[r].pc = "add"
    /\ Unlocked
    /\ monitored' = [monitored EXCEPT ![s] = @ \cup TasksOf(r)]
    /\ mapping' = IF order[r].kind = "restore"
                  THEN [mapping EXCEPT ![s] = order[r].ver] ELSE mapping
    /\ task' = [t \in DOMAIN task |->
                  IF t \in TasksOf(r) THEN [task[t] EXCEPT !.send = TRUE] ELSE task[t]]
    /\ req' = [req EXCEPT ![r].pc = "sent"]
    /\ UNCHANGED <<order, processing, cache, goroutines, servers, exists,
                   losses, history>>

----------------------------------------------------------------------------
(* Sending a task                                                          *)

Kind(t) == order[t[1]].kind

\* what the handler of a server does with a task it is sent: one that is
\* running already is refused
Accepts(n, t) == n \in up /\ ps[<<n, IdOf(t[1]), t[2]>>] # "running"

\* server n starts t.  The first request makes the backup manager of a
\* server; one that arrives with it may make another, and the tasks of the
\* first are not known any more.
Start(n, t) ==
    /\ \E fresh \in {FALSE, <<n, t>> \in late} :
         /\ ps' = [x \in DOMAIN ps |->
                     IF x = <<n, IdOf(t[1]), t[2]>> THEN "running"
                     ELSE IF fresh /\ x[1] = n THEN "none" ELSE ps[x]]
         /\ replaced' = (replaced \/ fresh)
    /\ inited' = inited \cup {n}
    /\ late' = (late \ {<<n, t>>})
                 \cup {x \in ({n} \ inited) \X (DOMAIN task \ {t}) :
                        task[x[2]].send /\ n \in ToSet(Replicas[x[2][2]])}

\* this goroutine of the task is over
Sent(t, again) ==
    IF again THEN [task[t] EXCEPT !.resend = @ - 1] ELSE [task[t] EXCEPT !.send = FALSE, !.sentTo = 0]

\* processBackupTask, of dispatchTasks or again after a migration.  The
\* request goes to the leader; a server that cannot be queried is skipped
\* and the task stays running.
ProcessBackup(t, again) ==
    /\ IF again THEN task[t].resend > 0 ELSE task[t].send /\ Kind(t) = "backup"
    /\ LET n == leader[t[2]] IN
       \/ /\ ~Healthy(task[t].node)
          /\ task[t].waits < MaxWaits
          /\ task' = [task EXCEPT ![t] = [Sent(t, again) EXCEPT
                        !.status = "running", !.waits = @ + 1]]
          /\ UNCHANGED <<ps, inited, late, replaced, losses, lossy>>
       \/ /\ Healthy(task[t].node) /\ Accepts(n, t)
          /\ task' = [task EXCEPT ![t] = [Sent(t, again) EXCEPT
                        !.status = "running", !.node = n, !.addr = n]]
          /\ Start(n, t)
          /\ UNCHANGED <<losses, lossy>>
       \/ /\ Healthy(task[t].node)
          /\ IF Accepts(n, t) THEN Loses ELSE UNCHANGED <<losses, lossy>>
          /\ task' = [task EXCEPT ![t] = [Sent(t, again) EXCEPT !.status = "failed"]]
          /\ UNCHANGED <<ps, inited, late, replaced>>
       \/ /\ Healthy(task[t].node)
          /\ IF n \in up THEN Loses ELSE UNCHANGED <<losses, lossy>>
          /\ task' = [task EXCEPT ![t] = [Sent(t, again) EXCEPT !.status = "running"]]
          /\ UNCHANGED <<ps, inited, late, replaced>>
    /\ UNCHANGED <<order, req, monitored, processing, cache, mapping, goroutines, up, leader,
                   exists, done, mixed, torn>>

\* processRestoreTask, from one replica to the next: the request goes to the
\* replicas in turn, up to the first that fails, and the task names the one
\* it goes to before the call.  It is polled all the while.
ProcessRestore(t) ==
    /\ task[t].send /\ Kind(t) = "restore"
    /\ LET rs == Replicas[t[2]]
           i == task[t].sentTo + 1
           goesOn == IF i = Len(rs) THEN Sent(t, FALSE) ELSE [task[t] EXCEPT !.sentTo = i]
       IN
       \/ /\ Accepts(rs[i], t)
          /\ task' = [task EXCEPT ![t] = [goesOn EXCEPT
                        !.status = "running", !.node = rs[i], !.addr = rs[i]]]
          /\ Start(rs[i], t)
          /\ UNCHANGED <<losses, lossy>>
       \/ \* the replica cannot be queried and is skipped
          /\ IF rs[i] \in up THEN Loses ELSE UNCHANGED <<losses, lossy>>
          /\ task' = [task EXCEPT ![t] = [goesOn EXCEPT !.status = "running"]]
          /\ UNCHANGED <<ps, inited, late, replaced>>
       \/ \* the request fails
          /\ IF Accepts(rs[i], t) THEN Loses ELSE UNCHANGED <<losses, lossy>>
          /\ task' = [task EXCEPT ![t] = [Sent(t, FALSE) EXCEPT
                        !.status = "failed", !.node = rs[i], !.addr = rs[i]]]
          /\ UNCHANGED <<ps, inited, late, replaced>>
       \/ \* the partition, or its only replica while it has no leader,
          \* cannot be queried
          /\ i = 1 /\ Loses
          /\ task' = [task EXCEPT ![t] = [Sent(t, FALSE) EXCEPT !.status = "failed"]]
          /\ UNCHANGED <<ps, inited, late, replaced>>
    /\ UNCHANGED <<order, req, monitored, processing, cache, mapping, goroutines, up, leader,
                   exists, done, mixed, torn>>

\* waitForPartitionMigration: the new leader is up, and the task is sent again
Migrated(t) ==
    /\ task[t].waits > 0
    /\ leader[t[2]] # task[t].node /\ Healthy(leader[t[2]])
    /\ task' = [task EXCEPT ![t].node = leader[t[2]], ![t].waits = @ - 1, ![t].resend = @ + 1]
    /\ UNCHANGED <<order, req, monitored, processing, cache, mapping, goroutines, servers,
                   exists, losses, history>>

\* or it waited ten minutes
WaitTimeout(t) ==
    /\ task[t].waits > 0
    /\ task' = [task EXCEPT ![t].status = "failed", ![t].waits = @ - 1]
    /\ UNCHANGED <<order, req, monitored, processing, cache, mapping, goroutines, servers,
                   exists, losses, history>>

----------------------------------------------------------------------------
(* runningTasksMonitor                                                     *)

\* checkProcessingVersion ranges over the versions it found at the start (the
\* list is shared with appends and removals only until it is reallocated)
MonitorStart ==
    /\ monitor.pc = "idle"
    /\ processing # <<>> \/ \E s \in Spaces : monitored[s] # {}
    /\ monitor' = [monitor EXCEPT !.pc = "poll", !.todo = processing]
    /\ UNCHANGED <<order, req, master, checker, servers, exists,
                   losses, history>>

\* the tasks of the space of the next version, read without the lock
MonitorVersion ==
    /\ monitor.pc = "poll" /\ monitor.todo # <<>>
    /\ monitor' = LET ts == monitored[SpaceOf(Head(monitor.todo))] IN
                  IF ts = {} THEN [monitor EXCEPT !.todo = Tail(@)]
                  ELSE [monitor EXCEPT !.pc = "task", !.left = ts]
    /\ UNCHANGED <<order, req, master, checker, servers, exists,
                   losses, history>>

\* a slip: the status of a server is asked without the BackupID
StatusRespAny(n, r, p) ==
    IF \E k \in Keys : k[2] = p /\ ps[<<n, k[1], p>>] = "completed" THEN "completed" ELSE "running"

\* GetBackupStatus: a task the server does not know has status 0, running
StatusResp(n, r, p) ==
    IF ps[<<n, IdOf(r), p>>] = "none" THEN "running" ELSE ps[<<n, IdOf(r), p>>]

\* the server answers: it is up and its backup manager exists
Answers(n) == n \in up /\ n \in inited

Asked(t) == IF task[t].addr = 0 THEN task[t].node ELSE task[t].addr

\* checkProcessingVersion for one task: it is asked for with the BackupID of
\* the version; a running task of a server that does not look healthy is
\* given to a goroutine that waits for its migration
PollTask(t) ==
    LET n == Asked(t)
        st == StatusResp(n, Head(monitor.todo), t[2])
    IN
    /\ monitor.pc = "task" /\ t \in monitor.left
    /\ \/ /\ Answers(n)
          /\ st = "running" => Healthy(task[t].node) \/ task[t].waits = MaxWaits
          /\ task' = [task EXCEPT ![t].status = st, ![t].addr = n]
          /\ UNCHANGED <<losses, lossy>>
       \/ /\ Answers(n) /\ st = "running"
          /\ task[t].waits < MaxWaits
          /\ IF Healthy(task[t].node) THEN Loses ELSE UNCHANGED <<losses, lossy>>
          /\ task' = [task EXCEPT ![t].status = st, ![t].addr = n, ![t].waits = @ + 1]
       \/ /\ IF Answers(n) THEN Loses ELSE UNCHANGED <<losses, lossy>>
          /\ task' \in {task, [task EXCEPT ![t].addr = n]}
    /\ monitor' = IF monitor.left = {t}
                  THEN [monitor EXCEPT !.pc = "poll", !.todo = Tail(@), !.left = {}]
                  ELSE [monitor EXCEPT !.left = @ \ {t}]
    /\ UNCHANGED <<order, req, monitored, processing, cache, mapping, checker, servers, exists,
                   done, mixed, torn, replaced>>

RestoreTasks(s) == {t \in monitored[s] : Kind(t) = "restore"}

\* checkRestoreTasks: no task that was asked for is running or has failed; a
\* task whose server did not answer counts as completed
RestoreOver(s, known) ==
    /\ RestoreTasks(s) # {}
    /\ \A t \in RestoreTasks(s) \cap known : StatusResp(Asked(t), t[1], t[2]) = "completed"

\* checkRestoreTasks up to the reports; a restore is asked for with its own
\* BackupID
CheckRestoreTasks ==
    /\ monitor.pc = "poll" /\ monitor.todo = <<>>
    /\ Unlocked
    /\ LET all == UNION {RestoreTasks(s) : s \in Spaces} IN
       \E known \in SUBSET {t \in all : Answers(Asked(t))} :
         /\ IF \A t \in all : Answers(Asked(t)) => t \in known
            THEN UNCHANGED losses
            ELSE losses < MaxLosses /\ losses' = losses + 1
         /\ lossy' = (lossy \/ known # all)
         /\ task' = [t \in DOMAIN task |->
                       IF t \in known
                       THEN [task[t] EXCEPT !.status = StatusResp(Asked(t), t[1], t[2]),
                                            !.addr = Asked(t)]
                       ELSE task[t]]
         /\ LET over == {x \in Spaces \X all :
                          x[2] \in RestoreTasks(x[1]) /\ RestoreOver(x[1], known)}
            IN monitor' = IF over = {} THEN MonitorIdle
                          ELSE [monitor EXCEPT !.pc = "report",
                                               !.found = {<<x[1], order[x[2][1]].ver>> :
                                                            x \in over}]
    /\ UNCHANGED <<order, req, monitored, processing, cache, mapping, checker, servers, exists,
                   done, mixed, torn, replaced>>

\* updateVersionStatus with the versions of the restores that are over
ReportRestores ==
    /\ monitor.pc = "report"
    /\ cache' = [v \in DOMAIN cache |->
                   IF \E x \in monitor.found : x[2] = v THEN "completed" ELSE cache[v]]
    /\ monitor' = [monitor EXCEPT !.pc = "clean"]
    /\ UNCHANGED <<order, req, task, monitored, processing, mapping, checker, servers, exists,
                   losses, history>>

\* under the lock: the tasks of a space are dropped if all are restores
CleanRestores ==
    LET over(s) == /\ \E x \in monitor.found : x[1] = s
                   /\ monitored[s] # {} /\ monitored[s] = RestoreTasks(s)
    IN
    /\ monitor.pc = "clean"
    /\ Unlocked
    /\ monitored' = [s \in Spaces |-> IF over(s) THEN {} ELSE monitored[s]]
    /\ mapping' = [s \in Spaces |->
                     IF over(s) THEN (CHOOSE x \in monitor.found : x[1] = s)[2] ELSE mapping[s]]
    /\ monitor' = MonitorIdle
    /\ UNCHANGED <<order, req, task, processing, cache, checker, servers, exists,
                   losses, history>>

----------------------------------------------------------------------------
(* versionChecker                                                          *)

\* a slip: a version with a failed task is never settled
VerdictWaits(ts) == IF \A t \in ts : task[t].status = "completed" THEN "completed" ELSE "none"

\* the verdict of checkVersionStatus on the tasks of a space
Verdict(ts) ==
    CASE \A t \in ts : task[t].status = "completed" -> "completed"
      [] /\ \E t \in ts : task[t].status = "failed"
         /\ \A t \in ts : task[t].status \notin {"running", "inited"} -> "failed"
      [] OTHER -> "none"

\* checkVersionStatus, first under the lock: the versions that are settled
CheckVersionStatus ==
    LET settled(i) == /\ monitored[SpaceOf(processing[i])] # {}
                      /\ Verdict(monitored[SpaceOf(processing[i])]) # "none"
        found == SelectSeq([i \in DOMAIN processing |-> i], settled)
    IN
    /\ checker.pc = "idle" /\ found # <<>>
    /\ checker' = [checker EXCEPT
         !.pc = "report",
         !.found = [k \in DOMAIN found |->
                      [idx |-> found[k],
                       ver |-> order[processing[found[k]]].ver,
                       status |-> Verdict(monitored[SpaceOf(processing[found[k]])])]]]
    /\ UNCHANGED <<order, req, master, monitor, servers, exists,
                   losses, history>>

\* updateVersionStatus, in order
ReportVersions ==
    LET last(v) == Max({0} \cup {k \in DOMAIN checker.found : checker.found[k].ver = v}) IN
    /\ checker.pc = "report"
    /\ cache' = [v \in DOMAIN cache |->
                   IF last(v) = 0 THEN cache[v] ELSE checker.found[last(v)].status]
    /\ checker' = [checker EXCEPT !.pc = "remove"]
    /\ UNCHANGED <<order, req, task, monitored, processing, mapping, monitor, servers, exists,
                   losses, history>>

\* the versions that stay; they are removed from the last to the first
Kept(p, found) ==
    FoldRight(LAMBDA x, q : RemoveAt(q, x.idx), found, p)

\* under the lock again, the versions are taken from ProcessingVersion by
\* their index, with all the tasks of their spaces; the list is read ...
ReadRemoved ==
    /\ checker.pc = "remove"
    /\ monitored' = [s \in Spaces |->
                   IF \E k \in DOMAIN checker.found : SpaceOf(processing[checker.found[k].idx]) = s
                   THEN {} ELSE monitored[s]]
    /\ checker' = [checker EXCEPT !.pc = "write", !.seen = processing]
    /\ UNCHANGED <<order, req, task, processing, cache, mapping, monitor, servers, exists,
                   losses, history>>

\* ... and written
WriteRemoved ==
    /\ checker.pc = "write"
    /\ processing' = Kept(checker.seen, checker.found)
    /\ torn' = (torn \/ processing # checker.seen)
    /\ checker' = [pc |-> "idle", found |-> <<>>, seen |-> <<>>]
    /\ UNCHANGED <<order, req, task, monitored, cache, mapping, monitor, servers, exists,
                   losses, done, mixed, replaced, lossy>>

----------------------------------------------------------------------------
(* Partition servers                                                       *)

\* a server ends a task
PsCompletes(n, i, p) ==
    /\ ps[<<n, i, p>>] = "running"
    /\ ps' = [ps EXCEPT ![<<n, i, p>>] = "completed"]
    /\ done' = done \cup {<<n, i, p>>}
    /\ UNCHANGED <<order, req, master, goroutines, inited, late, up, leader, exists, losses,
                   mixed, torn, replaced, lossy>>

\* or fails, a restore also after it was completed: the engine is reloaded
\* after the status is set
PsFails(n, i, p) ==
    /\ \/ ps[<<n, i, p>>] = "running"
       \/ ps[<<n, i, p>>] = "completed" /\ \E r \in Requests : IdOf(r) = i /\ order[r].kind = "restore"
    /\ losses < MaxLosses /\ losses' = losses + 1
    /\ ps' = [ps EXCEPT ![<<n, i, p>>] = "failed"]
    /\ UNCHANGED <<order, req, master, goroutines, inited, late, up, leader, exists, history>>

\* a server stops and forgets its tasks and its backup manager; one that has
\* nothing to do with the requests may as well stay up
PsStops(n) ==
    /\ n \in up
    /\ \E r \in Requests : \E p \in PartsOf[SpaceOf(r)] : n \in ToSet(Replicas[p])
    /\ Loses
    /\ up' = up \ {n}
    /\ inited' = inited \ {n}
    /\ late' = {x \in late : x[1] # n}
    /\ ps' = [x \in DOMAIN ps |-> IF x[1] = n THEN "none" ELSE ps[x]]
    /\ UNCHANGED <<order, req, master, goroutines, leader, exists,
                   done, mixed, torn, replaced>>

PsStarts(n) ==
    /\ n \notin up
    /\ up' = up \cup {n}
    /\ UNCHANGED <<order, req, master, goroutines, ps, inited, late, leader, exists, losses,
                   history>>

\* another replica becomes the leader
LeaderMoves(p, n) ==
    /\ \E r \in Requests : p \in PartsOf[SpaceOf(r)]
    /\ leader[p] \notin up /\ n \in ToSet(Replicas[p]) \cap up
    /\ leader' = [leader EXCEPT ![p] = n]
    /\ UNCHANGED <<order, req, master, goroutines, ps, inited, late, up, exists, losses,
                   history>>

----------------------------------------------------------------------------
RequestStep(r) ==
    \/ CreateSnapshot(r) \/ CreateFails(r) \/ ReadProcessing(r) \/ AppendProcessing(r)
    \/ RestoreSnapshot(r) \/ AddTasks(r)

SendStep(t) ==
    \/ \E again \in BOOLEAN : ProcessBackup(t, again)
    \/ ProcessRestore(t) \/ Migrated(t) \/ WaitTimeout(t)

MonitorStep ==
    \/ MonitorStart \/ MonitorVersion
    \/ \E t \in DOMAIN task : PollTask(t)
    \/ CheckRestoreTasks \/ ReportRestores \/ CleanRestores

CheckerStep == CheckVersionStatus \/ ReportVersions \/ ReadRemoved \/ WriteRemoved

ServerStep(n) ==
    \/ \E k \in Keys : PsCompletes(n, k[1], k[2]) \/ PsFails(n, k[1], k[2])
    \/ PsStops(n) \/ PsStarts(n)
    \/ \E p \in AllParts : LeaderMoves(p, n)

TasksNext ==
    \/ \E r \in Requests : RequestStep(r)
    \/ \E t \in DOMAIN task : SendStep(t)
    \/ MonitorStep
    \/ CheckerStep
    \/ \E n \in Hosts : ServerStep(n)

TasksSpec == TasksInit /\ [][TasksNext]_taskVars

\* Goroutines run, both tickers tick, and the servers work on their tasks.
Working ==
    \/ \E r \in Requests : RequestStep(r)
    \/ \E t \in DOMAIN task : SendStep(t)
    \/ \E n \in Hosts, k \in Keys : PsCompletes(n, k[1], k[2]) \/ PsFails(n, k[1], k[2])

TasksFairSpec ==
    /\ TasksSpec
    /\ WF_taskVars(Working)
    /\ WF_taskVars(MonitorStep)
    /\ WF_taskVars(CheckerStep)

----------------------------------------------------------------------------
(* What is reported                                                        *)

\* BackupService.GetBackupProgress
BackupProgress(s, v) ==
    IF cache[v] # "none" THEN cache[v] ELSE IF monitored[s] # {} THEN "running" ELSE "none"

\* BackupService.GetRestoreProgress: the version of a restore task, or the
\* last version restored, is looked up; only then the tasks are counted
RestoreVersion(s) ==
    IF RestoreTasks(s) # {} THEN order[(CHOOSE t \in RestoreTasks(s) : TRUE)[1]].ver
    ELSE mapping[s]

TaskProgress(s) ==
    LET status == {task[t].status : t \in RestoreTasks(s)} IN
    CASE status = {} -> "not_found"
      [] status = {"completed"} -> "completed"
      [] "failed" \in status /\ "running" \notin status -> "failed"
      [] OTHER -> "running"

RestoreProgress(s) ==
    LET v == RestoreVersion(s) IN
    IF v # 0 /\ cache[v] # "none" THEN cache[v] ELSE TaskProgress(s)

\* no other request has the version of r: versions are named by minutes, and
\* backups and restores of all spaces share one cache of versions
Alone(r) == \A q \in Requests \ {r} : order[q].ver # order[r].ver

\* the client did not give r the BackupID of another request for the space: a
\* server answers with the task of the other until it starts that of r
OwnId(r) == \A q \in Requests \ {r} : SpaceOf(q) = SpaceOf(r) => IdOf(q) # IdOf(r)

\* The request has a version and a BackupID of its own, was not let in beside
\* another one for the same space, and no update of ProcessingVersion was
\* lost (it is appended to without the lock).
Orderly(r) == Alone(r) /\ OwnId(r) /\ SpaceOf(r) \notin mixed /\ ~torn

\* A backup that is reported as completed is complete: some server has
\* completed the task of each of the partitions.  This holds whatever stops,
\* moves, is sent twice or times out on the way.
CompletedIsBackedUp ==
    \A r \in Requests :
      /\ order[r].kind = "backup" /\ req[r].pc = "sent" /\ Orderly(r)
      /\ BackupProgress(SpaceOf(r), order[r].ver) = "completed"
      => \A p \in PartsOf[SpaceOf(r)] : \E n \in Hosts : <<n, IdOf(r), p>> \in done

\* A restore that is reported as completed is complete on some replica of each
\* partition, if every status was answered.  It need not be on all of them:
\* one replica is asked, the one the task was sent to last so far, and when
\* it is done the others may not even have been sent their task.
CompletedIsRestored ==
    \A r \in Requests :
      /\ order[r].kind = "restore" /\ req[r].pc = "sent" /\ Orderly(r) /\ ~lossy
      /\ RestoreProgress(SpaceOf(r)) = "completed"
      => \A p \in PartsOf[SpaceOf(r)] :
           \E n \in ToSet(Replicas[p]) : <<n, IdOf(r), p>> \in done

\* A version is reported before it is forgotten: a backup that was accepted
\* is among the versions in process until its status is in the cache.  The
\* checker removes by an index it found before it released the lock.
AcceptedIsTracked ==
    \A r \in Requests :
      order[r].kind = "backup" /\ req[r].pc \in {"add", "sent"} /\ ~torn
      => r \in ToSet(processing) \/ cache[order[r].ver] # "none"

\* If nothing but tasks on their servers failed, and no manager of a server was
\* replaced by one made at the same time, every accepted backup is settled, its
\* version reported and the space open to the next backup.
BackupsSettle ==
    <>[](\A r \in Requests :
           order[r].kind = "backup" /\ ~lossy /\ ~torn /\ ~replaced
             /\ SpaceOf(r) \notin mixed
           => /\ req[r].pc \in {"refused", "sent"}
              /\ req[r].pc = "sent" => cache[order[r].ver] # "none"
                                       /\ monitored[SpaceOf(r)] \cap TasksOf(r) = {})
=============================================================================
