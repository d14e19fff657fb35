---------------------------- MODULE BackupFiles ----------------------------
(***************************************************************************)
(* How the partition servers of a space write the files of its backups to  *)
(* S3, read them back, and delete the versions (ps/backup and the backup   *)
(* handlers of ps/handler_admin.go), with the deletion of a version's      *)
(* directory by the master (deleteBackupVersionDirect).                    *)
(*                                                                         *)
(* The master sends no backup type, so every backup is a full one: each    *)
(* file is uploaded below the directory of the version and the partition.  *)
(* A file is [dir, name, crc]; its contents are its CRC32.  The counts of  *)
(* a space are a function from CRC32 to the entry that AddReference makes; *)
(* every manager keeps a copy in memory, and they share one object in S3.  *)
(*                                                                         *)
(* The engine writes its two checkpoints to the directory backup of the    *)
(* partition, which all backups of the partition share: one that runs      *)
(* beside another finds there what the last of them left.                  *)
(*                                                                         *)
(* The backup manager of a server is made by the first request that finds  *)
(* none, without a lock: requests that arrive together make one each, of   *)
(* which the last is kept.  A manager is named by the request that made it.*)
(***************************************************************************)
EXTENDS Naturals, Sequences, FiniteSets, Functions

CONSTANTS
    Nodes,        \* partition servers
    Parts,        \* partitions of the space
    Scripts,      \* what is asked of the servers: sequences of
                  \* [kind, node, part, files], the files of the engine then
    MaxFaults     \* bound on the restarts of servers and the operations that fail

ASSUME BackupFilesAssumption ==
    /\ \A s \in Scripts : \A j \in DOMAIN s :
         /\ s[j].kind \in {"backup", "restore", "delete", "direct"}
         /\ s[j].node \in Nodes /\ s[j].part \in Parts
    /\ MaxFaults \in Nat

VARIABLES
    s3,        \* objects with data: path to contents
    meta,      \* partition_meta.json of a version and a partition
    saved,     \* file_refcount.json
    mgr,       \* Server.backupManager of each server, 0 for none
    counts,    \* RefCountManager.refCountMap of each manager
    loaded,    \* managers with a RefCountManager for the space
    stuck,     \* managers whose RefCountManager.mu is never released
    tasks,     \* taskStatus of each manager: key to job
    local,     \* data and bitmap of the partitions on each server
    shared,    \* the directory backup of the partitions on each server
    script,    \* the requests of this behaviour
    job,       \* each request, with the goroutine it starts
    latest,    \* the last version identifier given out
    asked,     \* versions whose deletion was asked for
    faults

s3vars == <<s3, meta, saved>>
nodevars == <<mgr, counts, loaded, stuck, tasks, local, shared>>
vars == <<s3, meta, saved, mgr, counts, loaded, stuck, tasks, local, shared, script,
          job, latest, asked, faults>>

Jobs == DOMAIN script

File == UNION {UNION {s[j].files : j \in DOMAIN s} : s \in Scripts}

Crc == {f.crc : f \in File}

NameOf(f) == <<f.dir, f.name>>

Name == {NameOf(f) : f \in File}

\* BuildBackupPath
PathOf(v, p, x) == <<v, p, x[1], x[2]>>

Empty == [x \in {} |-> x]

\* A job has the state of each of its files, by name, and their CRC32.  It is
\* mixed (history) if the checkpoints it reads are not the ones it asked for.
Idle == [pc |-> "idle", mgr |-> 0, ver |-> 0, id |-> 0, status |-> "none", dirs |-> <<>>,
         state |-> Empty, crc |-> Empty, copy |-> Empty, whole |-> FALSE, mixed |-> FALSE,
         todo |-> {}]

Init ==
    /\ script \in Scripts
    /\ s3 = Empty
    /\ meta = Empty
    /\ saved = Empty
    /\ mgr = [n \in Nodes |-> 0]
    /\ counts = [m \in Jobs |-> Empty]
    /\ loaded = {}
    /\ stuck = {}
    /\ tasks = [m \in Jobs |-> Empty]
    /\ local = [n \in Nodes |-> [p \in Parts |-> {}]]
    /\ shared = [n \in Nodes |-> [p \in Parts |-> Empty]]
    /\ job = [j \in Jobs |-> Idle]
    /\ latest = 0
    /\ asked = {}
    /\ faults = 0

\* an operation fails: S3 after its retries, the engine, or the file system
Fault == faults < MaxFaults /\ faults' = faults + 1

\* the next request
New(j, kind) ==
    /\ script[j].kind = kind /\ job[j].pc = "idle"
    /\ \A k \in 1 .. j - 1 : job[k].pc # "idle"

With(F, x, y) == [z \in DOMAIN F \cup {x} |-> IF z = x THEN y ELSE F[z]]

Without(F, X) == Restrict(F, DOMAIN F \ X)

----------------------------------------------------------------------------
(* The tasks of a server                                                   *)

Key(j) == <<job[j].id, script[j].part>>

\* StartPartitionBackup refuses a task that runs already
Running(m, key) == key \in DOMAIN tasks[m] /\ job[tasks[m][key]].status = "running"

\* IncrementBackupHandler looks for the manager; the task is checked with it,
\* or a manager is made first
Found(j, v, i) ==
    LET m == mgr[script[j].node] IN
    job' = [job EXCEPT ![j].ver = v, ![j].id = i, ![j].mgr = m,
                       ![j].pc = IF m = 0 THEN "init"
                                 ELSE IF Running(m, <<i, script[j].part>>)
                                 THEN "refused" ELSE "checked"]

\* generateVersionID: the minute, so that two backups may share an identifier
NewVersion == {latest, latest + 1} \ {0}

\* a backup has a new identifier, or the one of an earlier backup that is
\* sent again when the leader of the partition has moved
RequestBackup(j, v, i) ==
    /\ New(j, "backup")
    /\ \/ v \in NewVersion /\ i = j
       \/ \E k \in 1 .. j - 1 : /\ script[k].kind = "backup"
                               /\ script[k].part = script[j].part
                               /\ v = job[k].ver /\ i = job[k].id
    /\ latest' = IF v > latest THEN v ELSE latest
    /\ Found(j, v, i)
    /\ UNCHANGED <<s3vars, nodevars, script, asked, faults>>

\* a restore of a version there is
RequestRestore(j, v) ==
    /\ New(j, "restore")
    /\ v \in 1 .. latest
    /\ Found(j, v, j)
    /\ UNCHANGED <<s3vars, nodevars, script, latest, asked, faults>>

\* initBackupManagerFromRequest and SetBackupManager, whatever another
\* request has set meanwhile
InitManager(j) ==
    /\ job[j].pc = "init"
    /\ \/ /\ mgr' = [mgr EXCEPT ![script[j].node] = j]
          /\ job' = [job EXCEPT ![j].mgr = j, ![j].pc = "checked"]
          /\ UNCHANGED faults
       \/ /\ Fault
          /\ job' = [job EXCEPT ![j].pc = "refused"]
          /\ UNCHANGED mgr
    /\ UNCHANGED <<s3vars, counts, loaded, stuck, tasks, local, shared, script, latest, asked>>

\* registerTask and the start of the goroutine
Register(j) ==
    /\ job[j].pc = "checked"
    /\ tasks' = [tasks EXCEPT ![job[j].mgr] = With(@, Key(j), j)]
    /\ job' = [job EXCEPT ![j].pc = "start", ![j].status = "running"]
    /\ UNCHANGED <<s3vars, mgr, counts, loaded, stuck, local, shared, script, latest, asked, faults>>

\* markTaskFailed and markTaskCompleted, after which the goroutine ends
Ended(j, status) == [job EXCEPT ![j].pc = "ended", ![j].status = status]

----------------------------------------------------------------------------
(* The counts                                                              *)

LoadFromS3(m) ==
    \/ counts' = [counts EXCEPT ![m] = saved] /\ UNCHANGED faults
    \/ counts' = [counts EXCEPT ![m] = Empty] /\ Fault

\* getOrCreateRefCountManager: counts that cannot be loaded are replaced by
\* none
LoadCounts(m) ==
    IF m \in loaded
    THEN UNCHANGED <<counts, loaded, faults>>
    ELSE loaded' = loaded \cup {m} /\ LoadFromS3(m)

AddReference(C, crc, path, v) ==
    With(C, crc, IF crc \in DOMAIN C
                 THEN [C[crc] EXCEPT !.count = @ + 1, !.vers = @ \cup {v}]
                 ELSE [path |-> path, count |-> 1, vers |-> {v}])

\* what RemoveReference leaves in an entry
Released(e, v) == [e EXCEPT !.count = @ - 1, !.vers = @ \ {v}]

\* a slip: the file of the last but one reference goes
UnusedEarly(e) == e.count <= 1

Unused(e) == e.count <= 0

\* the files that RemoveVersionReferences goes through
FilesOf(C, v) == {crc \in DOMAIN C : v \in C[crc].vers}

----------------------------------------------------------------------------
(* A backup: startShardSnapshot and executeShardSnapshot.  The engine      *)
(* makes two checkpoints, of data and of bitmap; then data is walked and   *)
(* uploaded, and bitmap after it.  A goroutine for each file takes its     *)
(* CRC32, uploads it, counts it, and saves the counts: it copies them      *)
(* under the lock and uploads the copy afterwards.                         *)

DirOf(j) == shared[script[j].node][script[j].part]

\* the other backups of the partition on the same server
Beside(j) ==
    {k \in Jobs \ {j} : /\ script[k].kind = "backup"
                        /\ script[k].node = script[j].node /\ script[k].part = script[j].part}

\* j leaves D in the directory, where the backups that read it find it too
Leaves(j, D, J) ==
    /\ shared' = [shared EXCEPT ![script[j].node][script[j].part] = D]
    /\ job' = [k \in Jobs |-> IF k \in Beside(j) /\ J[k].pc \in {"bitmap", "files"}
                              THEN [J[k] EXCEPT !.mixed = TRUE] ELSE J[k]]

\* no partition, no engine, no configuration, or an engine that is closed
SnapshotFails(j) ==
    /\ job[j].pc = "start" /\ script[j].kind = "backup"
    /\ Fault
    /\ job' = Ended(j, "failed")
    /\ UNCHANGED <<s3vars, nodevars, script, latest, asked>>

\* StorageManager::Backup or RocksdbBitmapManager::Backup: what was there is
\* destroyed and a checkpoint made.  Engine::Backup answers OK when one of
\* them fails.
Checkpoint(j, dir, next) ==
    \/ /\ Leaves(j, With(DirOf(j), dir, {f \in script[j].files : f.dir = dir}),
                 [job EXCEPT ![j].pc = next, ![j].dirs = <<"data", "bitmap">>])
       /\ UNCHANGED faults
    \/ /\ Fault
       /\ \E D \in {DirOf(j), Without(DirOf(j), {dir})} :
            Leaves(j, D, [job EXCEPT ![j].pc = "files", ![j].dirs = <<"data", "bitmap">>,
                                     ![j].mixed = TRUE])

\* Engine::Backup refuses while it is under way
CheckpointData(j) ==
    /\ job[j].pc = "start" /\ script[j].kind = "backup"
    /\ IF \E k \in Beside(j) : job[k].pc = "bitmap"
       THEN job' = Ended(j, "failed") /\ UNCHANGED <<shared, faults>>
       ELSE Checkpoint(j, "data", "bitmap")
    /\ UNCHANGED <<s3vars, mgr, counts, loaded, stuck, tasks, local, script, latest, asked>>

CheckpointBitmap(j) ==
    /\ job[j].pc = "bitmap"
    /\ Checkpoint(j, "bitmap", "files")
    /\ UNCHANGED <<s3vars, mgr, counts, loaded, stuck, tasks, local, script, latest, asked>>

\* the goroutines of the files found so far are over
Settled(j) ==
    /\ job[j].pc = "files" /\ script[j].kind = "backup"
    /\ \A x \in DOMAIN job[j].state : job[j].state[x] \in {"done", "failed"}

\* the next directory as it is now; the lock file of the storage is left out
WalkDir(j) ==
    LET dir == Head(job[j].dirs) IN
    /\ Settled(j) /\ job[j].dirs # <<>>
    /\ \/ /\ dir \in DOMAIN DirOf(j)
          /\ LoadCounts(job[j].mgr)
          /\ job' = [job EXCEPT
               ![j].dirs = Tail(@),
               ![j].state = [x \in DOMAIN @ \cup {NameOf(f) : f \in DirOf(j)[dir]} |->
                               IF x \in DOMAIN @ THEN @[x] ELSE "crc"]]
       \/ /\ IF dir \in DOMAIN DirOf(j) THEN Fault ELSE UNCHANGED faults
          /\ job' = Ended(j, "failed")
          /\ UNCHANGED <<counts, loaded>>
    /\ UNCHANGED <<s3vars, mgr, stuck, tasks, local, shared, script, latest, asked>>

AtFile(j, x, st) ==
    /\ job[j].pc = "files" /\ script[j].kind = "backup"
    /\ x \in DOMAIN job[j].state
    /\ job[j].state[x] = st

\* the file under its name, in the directory as it is now
Opened(j, x) ==
    IF x[1] \in DOMAIN DirOf(j) THEN {f \in DirOf(j)[x[1]] : NameOf(f) = x} ELSE {}

\* calcFileCRC32; it is what partition_meta.json will list
TakeCrc(j, x) ==
    /\ AtFile(j, x, "crc")
    /\ job' = IF Opened(j, x) = {} THEN [job EXCEPT ![j].state[x] = "failed"]
              ELSE [job EXCEPT ![j].state[x] = "upload",
                               ![j].crc = With(@, x, (CHOOSE f \in Opened(j, x) : TRUE).crc)]
    /\ UNCHANGED <<s3vars, nodevars, script, latest, asked, faults>>

UploadError == "failed"

\* backupSstFilesInpath opens the file again
Upload(j, x) ==
    /\ AtFile(j, x, "upload")
    /\ \/ \E f \in Opened(j, x) :
            /\ s3' = With(s3, PathOf(job[j].ver, script[j].part, x), f.crc)
            /\ job' = [job EXCEPT ![j].state[x] = "count"]
            /\ UNCHANGED faults
       \/ /\ IF Opened(j, x) # {} THEN Fault ELSE UNCHANGED faults
          /\ job' = [job EXCEPT ![j].state[x] = UploadError]
          /\ UNCHANGED s3
    /\ UNCHANGED <<meta, saved, nodevars, script, latest, asked>>

\* AddReference up to the release of the lock
Count(j, x) ==
    /\ AtFile(j, x, "count")
    /\ job[j].mgr \notin stuck
    /\ counts' = [counts EXCEPT ![job[j].mgr] =
                    AddReference(@, job[j].crc[x], PathOf(job[j].ver, script[j].part, x), job[j].ver)]
    /\ job' = [job EXCEPT ![j].state[x] = "copy"]
    /\ UNCHANGED <<s3vars, mgr, loaded, stuck, tasks, local, shared, script, latest, asked,
                   faults>>

\* saveToS3Impl: the copy under the read lock
CopyCounts(j, x) ==
    /\ AtFile(j, x, "copy")
    /\ job[j].mgr \notin stuck
    /\ job' = [job EXCEPT ![j].state[x] = "save",
                          ![j].copy = With(@, x, counts[job[j].mgr])]
    /\ UNCHANGED <<s3vars, nodevars, script, latest, asked, faults>>

\* saveToS3Impl: the upload of the copy
SaveCounts(j, x) ==
    /\ AtFile(j, x, "save")
    /\ \/ /\ saved' = job[j].copy[x]
          /\ job' = [job EXCEPT ![j].state[x] = "done", ![j].copy = Without(@, {x})]
          /\ UNCHANGED faults
       \/ /\ Fault
          /\ job' = [job EXCEPT ![j].state[x] = "failed", ![j].copy = Without(@, {x})]
          /\ UNCHANGED saved
    /\ UNCHANGED <<s3, meta, nodevars, script, latest, asked>>

\* partition_meta.json; CompletedAt is set when all files went well
SavePartitionMeta(j, good, whole) ==
    meta' = With(meta, <<job[j].ver, script[j].part>>,
                 [files |-> {[dir |-> x[1], name |-> x[2], crc |-> job[j].crc[x]] : x \in good},
                  whole |-> whole])

\* the files that went well are saved; the backup goes on if all did
SaveMeta(j) ==
    LET good == {x \in DOMAIN job[j].state : job[j].state[x] = "done"}
        whole == good = DOMAIN job[j].state
    IN
    /\ Settled(j) /\ job[j].dirs = <<>>
    /\ \/ /\ SavePartitionMeta(j, good, whole)
          /\ job' = IF whole THEN [job EXCEPT ![j].pc = "clean"] ELSE Ended(j, "failed")
          /\ UNCHANGED faults
       \/ /\ Fault
          /\ job' = Ended(j, "failed")
          /\ UNCHANGED meta
    /\ UNCHANGED <<s3, saved, nodevars, script, latest, asked>>

\* the directory is removed, whoever else reads it; an error is only logged
RemoveBackupDir(j) ==
    /\ job[j].pc = "clean"
    /\ \/ Leaves(j, Empty, Ended(j, "completed")) /\ UNCHANGED faults
       \/ Fault /\ job' = Ended(j, "completed") /\ UNCHANGED shared
    /\ UNCHANGED <<s3vars, mgr, counts, loaded, stuck, tasks, local, script, latest, asked>>

----------------------------------------------------------------------------
(* A restore: startShardRestore and restoreShardSnapshot.  What Close and  *)
(* Load do to the engine is in GammaEngine.                                *)

\* no partition, no engine or no configuration
RestoreRefused(j) ==
    /\ job[j].pc = "start" /\ script[j].kind = "restore"
    /\ Fault
    /\ job' = Ended(j, "failed")
    /\ UNCHANGED <<s3vars, nodevars, script, latest, asked>>

\* from here on the engine is closed, and loaded again whatever happens;
\* the wait for the close may time out
CloseEngine(j) ==
    /\ job[j].pc = "start" /\ script[j].kind = "restore"
    /\ \/ job' = [job EXCEPT ![j].pc = "meta"] /\ UNCHANGED faults
       \/ Fault /\ job' = [job EXCEPT ![j].pc = "reload", ![j].status = "failed"]
    /\ UNCHANGED <<s3vars, nodevars, script, latest, asked>>

\* restoreShardSnapshot removes data and bitmap
CleanLocal(j) == local' = [local EXCEPT ![script[j].node][script[j].part] = {}]

\* after loadPartitionMeta
LoadMeta(j) ==
    LET key == <<job[j].ver, script[j].part>> IN
    /\ job[j].pc = "meta"
    /\ \/ /\ key \in DOMAIN meta
          /\ job' = [job EXCEPT
               ![j].pc = "files", ![j].whole = meta[key].whole,
               ![j].state = [x \in {NameOf(f) : f \in meta[key].files} |-> "download"],
               ![j].crc = [x \in {NameOf(f) : f \in meta[key].files} |->
                             (CHOOSE f \in meta[key].files : NameOf(f) = x).crc]]
          /\ CleanLocal(j)
          /\ UNCHANGED faults
       \/ /\ IF key \in DOMAIN meta THEN Fault ELSE UNCHANGED faults
          /\ job' = [job EXCEPT ![j].pc = "reload", ![j].status = "failed"]
          /\ UNCHANGED local
    /\ UNCHANGED <<s3vars, mgr, counts, loaded, stuck, tasks, shared, script, latest, asked>>

Verified(listed, crc) == crc = listed

\* one goroutine per file; a file that cannot be read, or is not the one
\* that was backed up, is an error, and what was downloaded stays
Download(j, x) ==
    LET path == PathOf(job[j].ver, script[j].part, x)
        Arrives(crc) ==
            local' = [local EXCEPT ![script[j].node][script[j].part] =
                        {g \in @ : NameOf(g) # x}
                          \cup {[dir |-> x[1], name |-> x[2], crc |-> crc]}]
    IN
    /\ job[j].pc = "files" /\ script[j].kind = "restore"
    /\ x \in DOMAIN job[j].state /\ job[j].state[x] = "download"
    /\ \/ /\ path \in DOMAIN s3
          /\ Arrives(s3[path])
          /\ job' = [job EXCEPT ![j].state[x] =
                        IF Verified(job[j].crc[x], s3[path]) THEN "done" ELSE "failed"]
          /\ UNCHANGED faults
       \/ /\ IF path \in DOMAIN s3 THEN Fault ELSE UNCHANGED faults
          /\ job' = [job EXCEPT ![j].state[x] = "failed"]
          /\ UNCHANGED local
    /\ UNCHANGED <<s3vars, mgr, counts, loaded, stuck, tasks, shared, script, latest, asked>>

\* the status is set before the engine is loaded
Downloaded(j) ==
    /\ job[j].pc = "files" /\ script[j].kind = "restore"
    /\ \A x \in DOMAIN job[j].state : job[j].state[x] \in {"done", "failed"}
    /\ job' = [job EXCEPT ![j].pc = "reload",
                          ![j].status = IF \A x \in DOMAIN job[j].state : job[j].state[x] = "done"
                                        THEN "completed" ELSE "failed"]
    /\ UNCHANGED <<s3vars, nodevars, script, latest, asked, faults>>

Reload(j) ==
    /\ job[j].pc = "reload"
    /\ \/ job' = [job EXCEPT ![j].pc = "ended"] /\ UNCHANGED faults
       \/ Fault /\ job' = Ended(j, "failed")
    /\ UNCHANGED <<s3vars, nodevars, script, latest, asked>>

----------------------------------------------------------------------------
(* The deletion of a version                                               *)

\* DeleteBackupHandler and DeleteBackupVersion, up to the list of files; a
\* server whose manager does not exist since its start returns an error
DeleteVersion(j, v) ==
    LET m == mgr[script[j].node] IN
    /\ New(j, "delete")
    /\ v \in 1 .. latest
    /\ asked' = asked \cup {v}
    /\ \/ /\ m = 0
          /\ job' = [job EXCEPT ![j].pc = "refused"]
          /\ UNCHANGED <<counts, loaded, faults>>
       \/ /\ m # 0
          /\ LoadCounts(m)
          /\ job' = [job EXCEPT ![j].pc = "list", ![j].ver = v, ![j].mgr = m]
    /\ UNCHANGED <<s3vars, mgr, stuck, tasks, local, shared, script, latest>>

\* RemoveVersionReferences collects the files under the lock
ListFiles(j) ==
    LET files == FilesOf(counts[job[j].mgr], job[j].ver) IN
    /\ job[j].pc = "list" /\ script[j].kind = "delete"
    /\ job[j].mgr \notin stuck
    /\ job' = [job EXCEPT ![j].todo = files,
                          ![j].pc = IF files = {}
                                    THEN "ended" ELSE "remove"]
    /\ UNCHANGED <<s3vars, nodevars, script, latest, asked, faults>>

\* deleteFileFromS3; an error is only logged
DeleteFile(path) ==
    \/ s3' = Without(s3, {path}) /\ UNCHANGED faults
    \/ Fault /\ UNCHANGED s3

\* RemoveReference holds the lock when it calls SaveToS3, which waits for it:
\* neither this goroutine nor any other one gets it again
RemoveReference(j, crc) ==
    LET m == job[j].mgr
        e == Released(counts[m][crc], job[j].ver)
    IN
    /\ job[j].pc = "remove" /\ script[j].kind = "delete"
    /\ crc \in job[j].todo
    /\ m \notin stuck
    /\ IF Unused(e)
       THEN /\ counts' = [counts EXCEPT ![m] = Without(@, {crc})]
            /\ DeleteFile(e.path)
       ELSE /\ counts' = [counts EXCEPT ![m] = With(@, crc, e)]
            /\ UNCHANGED <<s3, faults>>
    /\ stuck' = stuck \cup {m}
    /\ job' = [job EXCEPT ![j].pc = "stuck"]
    /\ UNCHANGED <<meta, saved, mgr, loaded, tasks, local, shared, script, latest, asked>>

\* deleteBackupVersionDirect on the master: deleteS3Directory lists what is
\* below the directory of the version
ListDirectory(j, v) ==
    LET found == {path \in DOMAIN s3 : path[1] = v} \cup {key \in DOMAIN meta : key[1] = v} IN
    /\ New(j, "direct")
    /\ found # {}
    /\ asked' = asked \cup {v}
    /\ job' = [job EXCEPT ![j].pc = "remove", ![j].todo = found]
    /\ UNCHANGED <<s3vars, nodevars, script, latest, faults>>

\* RemoveObjects; an object that cannot be removed is an error of the request
RemoveObject(j, x) ==
    /\ job[j].pc = "remove" /\ script[j].kind = "direct"
    /\ x \in job[j].todo
    /\ \/ s3' = Without(s3, {x}) /\ meta' = Without(meta, {x}) /\ UNCHANGED faults
       \/ Fault /\ UNCHANGED <<s3, meta>>
    /\ job' = [job EXCEPT ![j].todo = @ \ {x},
                          ![j].pc = IF job[j].todo = {x} THEN "ended" ELSE "remove"]
    /\ UNCHANGED <<saved, nodevars, script, latest, asked>>

----------------------------------------------------------------------------
\* a partition server stops and starts: what it had in memory is gone, and
\* so are the goroutines
Restart(n) ==
    /\ Fault
    /\ mgr' = [mgr EXCEPT ![n] = 0]
    /\ counts' = [m \in Jobs |-> IF script[m].node = n THEN Empty ELSE counts[m]]
    /\ loaded' = {m \in loaded : script[m].node # n}
    /\ stuck' = {m \in stuck : script[m].node # n}
    /\ tasks' = [m \in Jobs |-> IF script[m].node = n THEN Empty ELSE tasks[m]]
    /\ job' = [j \in Jobs |->
                 IF /\ script[j].node = n /\ script[j].kind \in {"backup", "restore", "delete"}
                    /\ job[j].pc \notin {"ended", "refused"}
                 THEN [job[j] EXCEPT !.pc = "gone", !.status = "none"] ELSE job[j]]
    /\ UNCHANGED <<s3vars, local, shared, script, latest, asked>>

\* a goroutine, once it runs
Step(j) ==
    \/ InitManager(j) \/ Register(j)
    \/ SnapshotFails(j) \/ CheckpointData(j) \/ CheckpointBitmap(j) \/ WalkDir(j)
    \/ \E x \in Name : TakeCrc(j, x) \/ Upload(j, x) \/ Count(j, x) \/ CopyCounts(j, x)
                        \/ SaveCounts(j, x)
    \/ SaveMeta(j) \/ RemoveBackupDir(j)
    \/ RestoreRefused(j) \/ CloseEngine(j) \/ LoadMeta(j)
    \/ \E x \in Name : Download(j, x)
    \/ Downloaded(j) \/ Reload(j)
    \/ ListFiles(j)
    \/ \E crc \in Crc : RemoveReference(j, crc)
    \/ \E x \in job[j].todo : RemoveObject(j, x)

Next ==
    \/ \E j \in Jobs : Step(j)
    \/ \E j \in Jobs, v \in 1 .. latest + 1, i \in Jobs : RequestBackup(j, v, i)
    \/ \E j \in Jobs, v \in 1 .. latest :
         RequestRestore(j, v) \/ DeleteVersion(j, v) \/ ListDirectory(j, v)
    \/ \E n \in Nodes : Restart(n)

Spec == Init /\ [][Next]_vars

\* some goroutine that can run does, and the operations of S3 end, if only
\* with an error after the retries of retryOperation
FairSpec == Spec /\ WF_vars(\E j \in Jobs : Step(j))

----------------------------------------------------------------------------
(* Properties                                                              *)

Job(k, v, p) == {j \in Jobs : script[j].kind = k /\ job[j].ver = v /\ script[j].part = p
                                /\ job[j].pc # "refused"}

\* Deleting a version never harms another one: as long as nobody asks for the
\* deletion of a version, every file that partition_meta.json lists is in S3
\* with the contents that were backed up, whatever was deleted, saved late or
\* lost in a restart.  Left out are a second backup of the partition under the
\* same version (identifiers have the granularity of a minute), which
\* overwrites the files of the first, and a backup that read the directory
\* while another one of the partition wrote to it or removed it.
KeptIntact ==
    \A key \in DOMAIN meta :
        /\ key[1] \notin asked
        /\ Cardinality(Job("backup", key[1], key[2])) <= 1
        /\ \A k \in Job("backup", key[1], key[2]) : ~job[k].mixed
        => \A f \in meta[key].files :
             LET path == PathOf(key[1], key[2], NameOf(f)) IN
             path \in DOMAIN s3 /\ s3[path] = f.crc

\* A restore that ends as completed has exactly the files that the list of the
\* version names, with their CRC32, even when the version is deleted or
\* overwritten while it runs.  Those are the files of the two checkpoints of
\* one backup, except for the list of a failed backup (CompletedAt is not
\* looked at) and for a backup whose directory another one shared, or whose
\* checkpoint failed without notice.
RestoredWhole ==
    \A j \in Jobs :
        script[j].kind = "restore" /\ job[j].status = "completed" =>
            LET listed == {[dir |-> x[1], name |-> x[2], crc |-> job[j].crc[x]] :
                             x \in DOMAIN job[j].crc}
            IN /\ local[script[j].node][script[j].part] = listed
               /\ job[j].whole =>
                    \E k \in Jobs : /\ script[k].kind = "backup" /\ job[k].ver = job[j].ver
                                    /\ script[k].part = script[j].part
                                    /\ job[k].mixed \/ script[k].files = listed

\* No copy of the counts, in memory, under way to S3 or in S3, counts fewer
\* references than it lists versions: what makes RemoveReference keep a file
\* that another version lists.
CountsCoverVersions ==
    LET Copies == {saved} \cup {counts[m] : m \in Jobs}
                    \cup UNION {{job[j].copy[f] : f \in DOMAIN job[j].copy} : j \in Jobs}
    IN \A C \in Copies : \A crc \in DOMAIN C : C[crc].count >= Cardinality(C[crc].vers)

\* Every task that a server accepts ends, completed or failed, unless the
\* server is restarted or a deletion has taken the lock of its counts for good:
\* no goroutine of startShardSnapshot or startShardRestore waits for ever.
TasksEnd ==
    <>[](\A j \in Jobs : \/ job[j].pc \in {"idle", "refused", "ended", "gone"}
                         \/ job[j].mgr \in stuck)

============================================================================
