---- MODULE IndexingThread ----
(***************************************************************************)
(* The life of an engine's indexing thread (engine.cc): who starts it, who *)
(* stops it, and the vector index objects that are created and deleted     *)
(* around it.                                                              *)
(*                                                                         *)
(* Callers: the applier, whose AddOrUpdate starts the thread when there    *)
(* are enough documents; an administrator's RebuildIndex; the maintenance  *)
(* worker that adds and removes vector indexes; the destructor.  They      *)
(* share indexing_state_ (an atomic), indexing_thread_ (a std::thread with *)
(* no lock of its own), a condition variable and the map of index objects  *)
(* (a read-write lock that training does not take).                        *)
(*                                                                         *)
(* What the C++ standard leaves undefined is recorded in ub and ends the   *)
(* behaviour.  lapses records the situations the code does not exclude and *)
(* in which it guarantees less.                                            *)
(***************************************************************************)
EXTENDS Integers, FiniteSets

CONSTANTS Fields,     \* vector fields
          Threshold,  \* training_threshold_
          MaxDocs,
          MaxRebuilds, MaxTasks, MaxFailures

Callers == {"applier", "admin", "maint", "dtor"}

VARIABLES st,       \* indexing_state_
          status,   \* index_status_
          th,       \* where the indexing thread is
          joinable, \* indexing_thread_ has a thread that is not joined
          idxs,     \* fields that have an index object in vector_indexes_
          params,   \* field_index_params_
          docs,     \* max_docid_ - delete_num_
          call,     \* what each caller is doing
          lapses, ub,
          rebuilds, tasks, failures

vars == <<st, status, th, joinable, idxs, params, docs, call, lapses, ub, rebuilds, tasks, failures>>

Free == [pc |-> "free"]
Busy(c) == call[c].pc # "free"

(* Goes on with step pc of the same call. *)
At(c, pc) == call' = [call EXCEPT ![c].pc = pc]
Return(c) == call' = [call EXCEPT ![c] = Free]
Job(c, pc, job, f) == call' = [call EXCEPT ![c] = [pc |-> pc, job |-> job, field |-> f, built |-> {}]]

Inside == {c \in Callers : call[c].pc \notin {"free", "end", "removed", "trigger", "closed"}}

(* Two callers start or stop the thread, or one while the other relies on  *)
(* having stopped it.                                                      *)
Overlap(c) == lapses' = IF Inside \ {c} # {} THEN lapses \cup {"overlap"} ELSE lapses

Init ==
  /\ st = "IDLE" /\ status = "UNINDEXED" /\ th = "none" /\ joinable = FALSE
  /\ params \in SUBSET Fields /\ idxs = params
  /\ docs = 0
  /\ call = [c \in Callers |-> Free]
  /\ lapses = {} /\ ub = {}
  /\ rebuilds = 0 /\ tasks = 0 /\ failures = 0

---------------------------------------------------------------------------
(* BuildIndex.                                                             *)

(* Mutant: the finished thread is not joined before a new one is made. *)
BuildCasUnjoined(c) ==
  /\ call[c].pc = "cas"
  /\ \/ st = "IDLE" /\ st' = "STARTING" /\ At(c, "make")
     \/ st # "IDLE" /\ UNCHANGED st /\ At(c, "end")
  /\ Overlap(c)
  /\ UNCHANGED <<status, th, joinable, idxs, params, docs, ub, rebuilds, tasks, failures>>

BuildCas(c) ==
  /\ call[c].pc = "cas"
  /\ \/ st = "IDLE" /\ st' = "STARTING" /\ At(c, "join")
     \/ st # "IDLE" /\ UNCHANGED st /\ At(c, "end")
  /\ Overlap(c)
  /\ UNCHANGED <<status, th, joinable, idxs, params, docs, ub, rebuilds, tasks, failures>>

(* joinable() and then join(): two callers may both get past the first. *)
Join(c, pc, joining, next) ==
  /\ call[c].pc = pc
  /\ At(c, IF joinable THEN joining ELSE next)
  /\ ub' = IF joinable /\ \E d \in Callers \ {c} : call[d].pc \in {"joining", "stopjoining"}
           THEN ub \cup {"joined twice"} ELSE ub
  /\ lapses' = IF pc = "stopjoin" /\ joinable /\ st \in {"STARTING", "RUNNING"}
               THEN lapses \cup {"starting"} ELSE lapses
  /\ UNCHANGED <<st, status, th, joinable, idxs, params, docs, rebuilds, tasks, failures>>

Joined(c, joining, next) ==
  /\ call[c].pc = joining /\ th = "done"
  /\ joinable' = FALSE /\ At(c, next)
  /\ UNCHANGED <<st, status, th, idxs, params, docs, lapses, ub, rebuilds, tasks, failures>>

MakeThread(c) ==
  /\ call[c].pc = "make"
  /\ ub' = IF joinable THEN ub \cup {"thread overwritten"} ELSE ub
  /\ joinable' = TRUE /\ th' = "start" /\ At(c, "end")
  /\ UNCHANGED <<st, status, idxs, params, docs, lapses, rebuilds, tasks, failures>>

---------------------------------------------------------------------------
(* StopIndexingThread.                                                     *)

StopCas(c) ==
  /\ call[c].pc = "stop"
  /\ \/ st = "RUNNING" /\ st' = "STOPPING" /\ At(c, "test")
     \/ st = "STARTING" /\ UNCHANGED st /\ At(c, IF c = "dtor" THEN "stopjoin" ELSE "sleep")
     \/ st \notin {"RUNNING", "STARTING"} /\ UNCHANGED st /\ At(c, "stopjoin")
  /\ Overlap(c)
  /\ UNCHANGED <<status, th, joinable, idxs, params, docs, ub, rebuilds, tasks, failures>>

(* 100 ms later the thread is expected to have started. *)
StopAgain(c) ==
  /\ call[c].pc = "sleep"
  /\ IF st = "RUNNING" THEN st' = "STOPPING" /\ At(c, "test")
                       ELSE UNCHANGED st /\ At(c, "stopjoin")
  /\ UNCHANGED <<status, th, joinable, idxs, params, docs, lapses, ub, rebuilds, tasks, failures>>

(* WaitForIndexingComplete: the predicate is read under indexing_mutex_,   *)
(* which the wait gives up as it goes to sleep.                            *)
WaitTest(c) ==
  /\ call[c].pc = "test" /\ \A d \in Callers : call[d].pc # "gap"
  /\ At(c, IF st = "IDLE" THEN "stopjoin" ELSE "gap")
  /\ UNCHANGED <<st, status, th, joinable, idxs, params, docs, lapses, ub, rebuilds, tasks, failures>>

WaitSleep(c) ==
  /\ call[c].pc = "gap" /\ At(c, "wait")
  /\ UNCHANGED <<st, status, th, joinable, idxs, params, docs, lapses, ub, rebuilds, tasks, failures>>

---------------------------------------------------------------------------
(* The thread: Indexing.                                                   *)

NotifyAll == call' = [c \in Callers |-> IF call[c].pc = "wait" THEN [call[c] EXCEPT !.pc = "test"] ELSE call[c]]

Start ==
  /\ th = "start"
  /\ IF st = "STARTING" THEN st' = "RUNNING" /\ th' = "train" ELSE st' = "IDLE" /\ th' = "shout"
  /\ UNCHANGED <<status, joinable, idxs, params, docs, call, lapses, ub, rebuilds, tasks, failures>>

(* A failed training leaves index_status_ as it is: if it was INDEXED, no  *)
(* upsert and no rebuild will start the thread again.                      *)
Train ==
  /\ th = "train"
  /\ \/ th' = "loop" /\ UNCHANGED <<st, lapses, failures>>
     \/ /\ failures < MaxFailures /\ failures' = failures + 1
        /\ st' = "IDLE" /\ th' = "shout"
        /\ lapses' = IF status = "INDEXED" THEN lapses \cup {"parked"} ELSE lapses
  /\ UNCHANGED <<status, joinable, idxs, params, docs, call, ub, rebuilds, tasks>>

(* The error paths notify without having held the mutex since the store:   *)
(* a waiter between its test and its sleep does not hear it.               *)
Shout ==
  /\ th = "shout" /\ th' = "done"
  /\ NotifyAll
  /\ lapses' = IF \E c \in Callers : call[c].pc = "gap" THEN lapses \cup {"unheard"} ELSE lapses
  /\ UNCHANGED <<st, status, joinable, idxs, params, docs, ub, rebuilds, tasks, failures>>

Loop ==
  /\ th = "loop"
  /\ IF st = "RUNNING" THEN status' = "INDEXED" /\ th' = "add" ELSE th' = "exit" /\ UNCHANGED status
  /\ UNCHANGED <<st, joinable, idxs, params, docs, call, lapses, ub, rebuilds, tasks, failures>>

(* AddRTVecsToIndex holds the read lock throughout.  After an error the    *)
(* loop only waits for the stop.                                           *)
AddRTVecs ==
  /\ th = "add"
  /\ \/ th' = "loop" /\ UNCHANGED failures
     \/ failures < MaxFailures /\ failures' = failures + 1 /\ th' = "error"
  /\ UNCHANGED <<st, status, joinable, idxs, params, docs, call, lapses, ub, rebuilds, tasks>>

ErrorLoop ==
  /\ th = "error" /\ st # "RUNNING" /\ th' = "exit"
  /\ UNCHANGED <<st, status, joinable, idxs, params, docs, call, lapses, ub, rebuilds, tasks, failures>>

Exit ==
  /\ th = "exit" /\ st' = "IDLE" /\ th' = "notify"
  /\ UNCHANGED <<status, joinable, idxs, params, docs, call, lapses, ub, rebuilds, tasks, failures>>

(* Mutant: the thread notifies without going through the mutex. *)
NotifyUnlocked ==
  /\ th = "notify"
  /\ NotifyAll /\ th' = "done"
  /\ UNCHANGED <<st, status, joinable, idxs, params, docs, lapses, ub, rebuilds, tasks, failures>>

Notify ==
  /\ th = "notify" /\ \A c \in Callers : call[c].pc # "gap"
  /\ NotifyAll /\ th' = "done"
  /\ UNCHANGED <<st, status, joinable, idxs, params, docs, lapses, ub, rebuilds, tasks, failures>>

---------------------------------------------------------------------------
(* The index objects.  A writer waits for AddRTVecsToIndex; training       *)
(* iterates over the same map without the lock.                            *)
Replace(fields) ==
  /\ th # "add"
  /\ idxs' = fields
  /\ ub' = IF th = "train" /\ idxs # {} THEN ub \cup {"deleted in training"} ELSE ub

(* A caller that has built objects from the configuration it read and has  *)
(* not published them yet.                                                 *)
Building == {c \in Callers : call[c].pc \in {"train", "reset"}}

---------------------------------------------------------------------------
(* AddOrUpdate of a new document: enough documents and no index yet start  *)
(* the thread.  MaxDocs stands for that many or more.  An update returns   *)
(* before it gets here and changes nothing of this.                        *)
Upsert ==
  /\ ~Busy("applier") /\ ~Busy("dtor")
  /\ docs' = IF docs < MaxDocs THEN docs + 1 ELSE docs
  /\ IF st = "IDLE" /\ status = "UNINDEXED" /\ docs' >= Threshold
     THEN Job("applier", "cas", "build", "") ELSE UNCHANGED call
  /\ UNCHANGED <<st, status, th, joinable, idxs, params, lapses, ub, rebuilds, tasks, failures>>

Delete ==
  /\ ~Busy("applier") /\ ~Busy("dtor") /\ docs > 0
  /\ docs' = docs - 1
  /\ UNCHANGED <<st, status, th, joinable, idxs, params, call, lapses, ub, rebuilds, tasks, failures>>

(* RebuildIndex: to describe the indexes, to build new ones beside the old *)
(* or to drop the old ones first.                                          *)
Rebuild(job) ==
  /\ ~Busy("admin") /\ ~Busy("dtor") /\ rebuilds < MaxRebuilds
  /\ st = "RUNNING" /\ status # "UNINDEXED"
  /\ rebuilds' = rebuilds + 1
  /\ Job("admin", "stop", job, "")
  /\ UNCHANGED <<st, status, th, joinable, idxs, params, docs, lapses, ub, tasks, failures>>

(* The maintenance worker takes an addition: AddVectorFieldIndex. *)
AddIndex(f) ==
  /\ ~Busy("maint") /\ ~Busy("dtor") /\ tasks < MaxTasks /\ f \notin idxs
  /\ tasks' = tasks + 1
  /\ Job("maint", "stop", "add", f)
  /\ UNCHANGED <<st, status, th, joinable, idxs, params, docs, lapses, ub, rebuilds, failures>>

(* ... or a removal: RemoveVectorIndex deletes the object first, and the   *)
(* thread is stopped when no object is left.                               *)
RemoveIndex(f) ==
  /\ ~Busy("maint") /\ ~Busy("dtor") /\ tasks < MaxTasks /\ f \in idxs
  /\ tasks' = tasks + 1
  /\ Replace(idxs \ {f}) /\ params' = params \ {f}
  /\ Job("maint", "removed", "remove", f)
  /\ lapses' = lapses \cup (IF th = "train" THEN {"training"} ELSE {})
                      \cup (IF Building # {} THEN {"overlap"} ELSE {})
  /\ UNCHANGED <<st, status, th, joinable, docs, rebuilds, failures>>

Removed ==
  /\ call["maint"].pc = "removed"
  /\ IF idxs = {} THEN At("maint", "stop") ELSE Return("maint")
  /\ UNCHANGED <<st, status, th, joinable, idxs, params, docs, lapses, ub, rebuilds, tasks, failures>>

(* ~Engine: the Go side has let the requests finish; the maintenance       *)
(* worker is joined first.                                                 *)
Close ==
  /\ \A c \in Callers : ~Busy(c)
  /\ Job("dtor", "stop", "close", "")
  /\ UNCHANGED <<st, status, th, joinable, idxs, params, docs, lapses, ub, rebuilds, tasks, failures>>

(* What follows the stop. *)
Stopped(c) ==
  /\ call[c].pc = "stopped"
  /\ \/ /\ call[c].job = "describe" /\ Return(c)
        /\ lapses' = lapses \cup {"parked"}
        /\ UNCHANGED <<status, idxs, params, ub>>
     \/ /\ call[c].job = "remove" /\ Return(c)
        /\ status' = "UNINDEXED"
        /\ UNCHANGED <<idxs, params, lapses, ub>>
     \/ /\ call[c].job = "close" /\ At(c, "closed")
        /\ UNCHANGED <<status, idxs, params, lapses, ub>>
     \/ /\ call[c].job \in {"add", "keep"} /\ At(c, "create")
        /\ params' = IF call[c].job = "add" THEN params \cup {call[c].field} ELSE params
        /\ lapses' = IF Building \ {c} # {} THEN lapses \cup {"overlap"} ELSE lapses
        /\ UNCHANGED <<status, idxs, ub>>
     \/ /\ call[c].job = "drop" /\ At(c, "trigger")
        /\ Replace(params)
        /\ status' = "UNINDEXED"
        /\ UNCHANGED <<params, lapses>>
  /\ UNCHANGED <<st, th, joinable, docs, rebuilds, tasks, failures>>

(* ReCreateVectorIndexes fails: RebuildIndex returns without an index.     *)
RecreateFails(c) ==
  /\ call[c].pc = "stopped" /\ call[c].job = "drop" /\ failures < MaxFailures
  /\ failures' = failures + 1
  /\ Replace({})
  /\ lapses' = lapses \cup {"destroyed"}
  /\ Return(c)
  /\ UNCHANGED <<st, status, th, joinable, params, docs, rebuilds, tasks>>

(* CreateVectorIndexes works on a copy of the configuration. *)
Create(c) ==
  /\ call[c].pc = "create"
  /\ call' = [call EXCEPT ![c].built = params, ![c].pc = "train"]
  /\ UNCHANGED <<st, status, th, joinable, idxs, params, docs, lapses, ub, rebuilds, tasks, failures>>

(* A failed creation: RebuildIndex destroys the indexes that are in use,   *)
(* AddVectorFieldIndex rolls its own changes back.                         *)
CreateFails(c) ==
  /\ call[c].pc = "create" /\ failures < MaxFailures
  /\ failures' = failures + 1
  /\ Return(c)
  /\ \/ /\ call[c].job = "keep"
        /\ Replace({}) /\ UNCHANGED params
        /\ lapses' = lapses \cup {"destroyed"}
     \/ /\ call[c].job = "add"
        /\ params' = params \ {call[c].field}
        /\ lapses' = lapses \cup {"parked"}
        /\ UNCHANGED <<idxs, ub>>
  /\ UNCHANGED <<st, status, th, joinable, docs, rebuilds, tasks>>

(* The new objects are trained before they replace the old ones. *)
TrainBuilt(c) ==
  /\ call[c].pc = "train"
  /\ \/ At(c, "reset") /\ UNCHANGED <<status, params, failures>>
     \/ /\ st = "IDLE" /\ docs > Threshold /\ failures < MaxFailures
        /\ failures' = failures + 1
        /\ status' = "UNINDEXED"
        /\ params' = IF call[c].job = "add" THEN params \ {call[c].field} ELSE params
        /\ Return(c)
  /\ UNCHANGED <<st, th, joinable, idxs, docs, lapses, ub, rebuilds, tasks>>

Reset(c) ==
  /\ call[c].pc = "reset"
  /\ Replace(call[c].built)
  /\ At(c, "trigger")
  /\ UNCHANGED <<st, status, th, joinable, params, docs, lapses, rebuilds, tasks, failures>>

(* The thread is started again when there are enough documents.  If not    *)
(* and index_status_ stays INDEXED, no upsert will start it either.        *)
Trigger(c) ==
  /\ call[c].pc = "trigger"
  /\ IF st = "IDLE" /\ docs >= Threshold
     THEN At(c, "cas") /\ UNCHANGED lapses
     ELSE Return(c) /\ lapses' = IF status = "INDEXED" THEN lapses \cup {"parked"} ELSE lapses
  /\ UNCHANGED <<st, status, th, joinable, idxs, params, docs, ub, rebuilds, tasks, failures>>

End(c) ==
  /\ call[c].pc = "end" /\ Return(c)
  /\ UNCHANGED <<st, status, th, joinable, idxs, params, docs, lapses, ub, rebuilds, tasks, failures>>

---------------------------------------------------------------------------
Thread == Start \/ Train \/ Shout \/ Loop \/ AddRTVecs \/ ErrorLoop \/ Exit \/ Notify

CallerStep(c) ==
  \/ BuildCas(c) \/ Join(c, "join", "joining", "make") \/ Joined(c, "joining", "make") \/ MakeThread(c)
  \/ StopCas(c) \/ StopAgain(c) \/ WaitTest(c) \/ WaitSleep(c)
  \/ Join(c, "stopjoin", "stopjoining", "stopped") \/ Joined(c, "stopjoining", "stopped")
  \/ Stopped(c) \/ RecreateFails(c) \/ Create(c) \/ CreateFails(c) \/ TrainBuilt(c) \/ Reset(c) \/ Trigger(c) \/ End(c)

Request ==
  \/ Delete \/ Close
  \/ \E job \in {"describe", "keep", "drop"} : Rebuild(job)
  \/ \E f \in Fields : AddIndex(f) \/ RemoveIndex(f)

Next ==
  /\ ub = {}
  /\ \/ Thread \/ Removed \/ Upsert \/ Request
     \/ \E c \in Callers : CallerStep(c)

(* Threads that can run do; requests may stop, but new documents come      *)
(* until the engine is closed.                                             *)
Fairness ==
  /\ WF_vars(ub = {} /\ Thread) /\ WF_vars(ub = {} /\ Upsert)
  /\ \A c \in Callers : WF_vars(ub = {} /\ (CallerStep(c) \/ (c = "maint" /\ Removed)))

Spec == Init /\ [][Next]_vars /\ Fairness

---------------------------------------------------------------------------
(* Every variable has its type. *)
TypeOK ==
  /\ st \in {"IDLE", "STARTING", "RUNNING", "STOPPING"} /\ status \in {"UNINDEXED", "INDEXED"}
  /\ th \in {"none", "start", "train", "loop", "add", "error", "exit", "notify", "shout", "done"}
  /\ joinable \in BOOLEAN /\ idxs \subseteq Fields /\ params \subseteq Fields /\ docs \in 0 .. MaxDocs
  /\ lapses \subseteq {"overlap", "starting", "unheard", "training", "destroyed", "parked"}

(* No thread is joined twice or overwritten and no index object is deleted *)
(* while training goes over it, unless two callers were in the code that   *)
(* starts and stops the thread at once, a stop arrived while it was        *)
(* starting, or RemoveVectorIndex ran during training.                     *)
NoUndefined == ub # {} => lapses \cap {"overlap", "starting", "training"} # {}

Quiet == \A c \in Callers : ~Busy(c)

(* Between calls each field has an index object exactly when it has a      *)
(* configured index: a rebuild does not bring back an index that was       *)
(* removed or lose one that was added, and a failed addition is rolled     *)
(* back, unless a rebuild and the maintenance worker overlapped or a       *)
(* failed rebuild destroyed the indexes.                                   *)
IndexesAreConfigured ==
  Quiet /\ lapses \cap {"overlap", "destroyed"} = {} => idxs = params

(* The destructor returns: whatever the thread is doing, it stops and is   *)
(* joined.                                                                 *)
Closes == Busy("dtor") ~> \/ call["dtor"].pc = "closed" \/ ub # {}
                          \/ lapses \cap {"overlap", "starting", "unheard"} # {}

(* While there are enough documents and an index, the thread that keeps    *)
(* the index up to date is running again after every rebuild, addition,    *)
(* removal and failed training.                                            *)
Maintained ==
  []<>(\/ (st = "RUNNING" /\ status = "INDEXED") \/ idxs = {} \/ docs < Threshold
       \/ Busy("dtor") \/ ub # {} \/ lapses # {})

====
