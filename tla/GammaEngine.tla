---------------------------- MODULE GammaEngine ----------------------------
(***************************************************************************)
(* The life of the C++ engine behind the engine object of a partition      *)
(* (ps/engine/gammacb): requests take the pointer and call into C++, while *)
(* a job (a snapshot received, a restore, the removal of the partition)    *)
(* closes the engine, replaces or removes its files and opens it again.    *)
(*                                                                         *)
(* C++ engines are numbered as they are created, 0 is the nil pointer; the *)
(* objects gammaEngine are numbered too, 0 is a Store without an engine.   *)
(* Only whether the counter of an object is zero is ever read, so it is    *)
(* the set of the goroutines that have incremented it.  The RWMutex of the *)
(* object protects neither the pointer nor hasClosed from Close and is     *)
(* left to RaftStore.                                                      *)
(***************************************************************************)
EXTENDS Naturals, FiniteSets

CONSTANTS
    Requests,     \* goroutines that serve requests
    Workers,      \* goroutines that run jobs
    Kinds,        \* kinds of requests that are made
    JobKinds,     \* kinds of jobs that are run
    MaxEngines,   \* bound on the C++ engines created
    MaxCalls,     \* bound on the requests
    TimeOuts,     \* whether a job may give up its wait for the close
    Faults        \* whether opening an engine, or its new files, may fail

ASSUME GammaEngineAssumption ==
    /\ MaxEngines \in Nat \ {0} /\ MaxCalls \in Nat
    /\ TimeOuts \in BOOLEAN /\ Faults \in BOOLEAN
    /\ Kinds \subseteq
         {"write", "search", "get", "status", "commit", "build", "rebuild"}
    /\ JobKinds \subseteq {"snapshot", "restore", "shard", "destroy"}

VARIABLES
    engine,     \* Store.Engine
    gamma,      \* gammaEngine.gamma of each object
    hasClosed,  \* objects with gammaEngine.hasClosed
    counter,    \* goroutines that count in gammaEngine.counter of each object
    live,       \* C++ engines that exist
    made,       \* number of C++ engines created
    task,       \* the requests, and the goroutines they leave behind
    closers,    \* goroutines of Close
    job,        \* the jobs
    calls

vars == <<engine, gamma, hasClosed, counter, live, made, task, closers, job, calls>>

Object == 1 .. MaxEngines

Pointer == 0 .. MaxEngines

\* the goroutine started by a request r is <<r, "go">>
Task == Requests \X {"call", "go"}

\* the goroutines that may count: the requests, and the jobs in Load
Counting == Task \cup (Workers \X {"load"})

Idle == [pc |-> "idle", kind |-> "none", obj |-> 0, ptr |-> 0]

TaskState == [pc : {"idle", "enter", "checked", "using", "spawn", "return", "start"},
              kind : Kinds \cup {"none"}, obj : Pointer, ptr : Pointer]

JobState == [pc : {"idle", "nil", "wait", "files", "build", "load", "loading",
                   "loaded", "gone"},
             kind : JobKinds \cup {"none"}, obj : Pointer, ptr : Pointer]

Closer == [by : Workers, obj : Object, ptr : Object, pc : {"wait", "delete"}]

Init ==
    /\ engine = 1
    /\ gamma = [o \in Object |-> IF o = 1 THEN 1 ELSE 0]
    /\ hasClosed = {}
    /\ counter = [o \in Object |-> {}]
    /\ live = {1}
    /\ made = 1
    /\ task = [t \in Task |-> Idle]
    /\ closers = {}
    /\ job = [w \in Workers |-> Idle]
    /\ calls = 0

----------------------------------------------------------------------------
(* Requests.  Write, Flush and Capacity are "write"; Search, Query and      *)
(* DocCount are "search"; GetDoc is "get"; the callers of getEnginePtr     *)
(* (status, configuration, backup, index changes) are "status"; Commit,    *)
(* BuildIndex and RebuildIndex start a goroutine.                          *)

\* a slip: the decrement is missing
ReturnsUncounted(t) ==
    /\ task' = [task EXCEPT ![t] = Idle]
    /\ UNCHANGED counter

Returns(t) ==
    /\ task' = [task EXCEPT ![t] = Idle]
    /\ counter' = [counter EXCEPT ![task[t].obj] = @ \ {t}]

Call(r, k) ==
    LET t == <<r, "call">> IN
    /\ task[t].pc = "idle"
    /\ engine # 0
    /\ calls < MaxCalls
    /\ calls' = calls + 1
    /\ task' = [task EXCEPT ![t] =
                    [pc |-> "enter", kind |-> k, obj |-> engine, ptr |-> 0]]
    /\ counter' = IF k = "status" THEN counter
                  ELSE [counter EXCEPT ![engine] = @ \cup {t}]
    /\ UNCHANGED <<engine, gamma, hasClosed, live, made, closers, job>>

\* requests that look at hasClosed as well
Refused(t) ==
    \/ task[t].kind # "get" /\ gamma[task[t].obj] = 0
    \/ task[t].kind \in {"status", "build"} /\ task[t].obj \in hasClosed

Refuse(t) ==
    /\ task[t].pc = "enter"
    /\ Refused(t)
    /\ Returns(t)
    /\ UNCHANGED <<engine, gamma, hasClosed, live, made, closers, job, calls>>

\* Write and Commit keep the pointer they have checked, Search and the
\* callers of getEnginePtr read it again, GetDoc does not check it
NextPc(k) ==
    CASE k \in {"write", "get"} -> "using"
      [] k \in {"search", "status"} -> "checked"
      [] OTHER -> "spawn"

Check(t) ==
    /\ task[t].pc = "enter"
    /\ ~Refused(t)
    /\ task' = [task EXCEPT ![t].pc = NextPc(task[t].kind),
                            ![t].ptr = gamma[task[t].obj]]
    /\ UNCHANGED <<engine, gamma, hasClosed, counter, live, made, closers, job, calls>>

Reread(t) ==
    /\ task[t].pc = "checked"
    /\ task' = [task EXCEPT ![t].pc = "using", ![t].ptr = gamma[task[t].obj]]
    /\ UNCHANGED <<engine, gamma, hasClosed, counter, live, made, closers, job, calls>>

\* indexLocker is held by Load, BuildIndex and RebuildIndex take it
IndexLocked == \E w \in Workers : job[w].pc \in {"loading", "loaded"}

Spawn(r) ==
    LET t == <<r, "call">>
        g == <<r, "go">>
    IN
    /\ task[t].pc = "spawn"
    /\ task[g].pc = "idle"
    /\ task[t].kind = "commit" \/ ~IndexLocked
    /\ task' = [task EXCEPT ![g] = [task[t] EXCEPT !.pc = "start"],
                            ![t].pc = "return"]
    /\ UNCHANGED <<engine, gamma, hasClosed, counter, live, made, closers, job, calls>>

\* the goroutine of RebuildIndex counts and reads the pointer again, those of
\* Commit and BuildIndex use the pointer of their caller
StartGo(g) ==
    /\ task[g].pc = "start"
    /\ IF task[g].kind = "rebuild"
       THEN /\ counter' = [counter EXCEPT ![task[g].obj] = @ \cup {g}]
            /\ task' = [task EXCEPT ![g].pc = "checked"]
       ELSE /\ task' = [task EXCEPT ![g].pc = "using"]
            /\ UNCHANGED counter
    /\ UNCHANGED <<engine, gamma, hasClosed, live, made, closers, job, calls>>

Finish(t) ==
    /\ task[t].pc \in {"using", "return"}
    /\ Returns(t)
    /\ UNCHANGED <<engine, gamma, hasClosed, live, made, closers, job, calls>>

----------------------------------------------------------------------------
(* Jobs.  "snapshot" is Store.ApplySnapshot, "restore" BackupHandler's      *)
(* restore, "shard" startShardRestore and "destroy" Store.Destroy.         *)

\* Close: the pointer is read and set to nil in two steps
CloseRead(w, k) ==
    /\ job[w].pc = "idle"
    /\ engine # 0
    /\ made < MaxEngines
    /\ job' = [job EXCEPT ![w] =
                  [pc |-> "nil", kind |-> k, obj |-> engine, ptr |-> gamma[engine]]]
    /\ UNCHANGED <<engine, gamma, hasClosed, counter, live, made, task, closers, calls>>

CloserOf(w) ==
    IF job[w].ptr = 0 THEN {}
    ELSE {[by |-> w, obj |-> job[w].obj, ptr |-> job[w].ptr, pc |-> "wait"]}

CloseNil(w) ==
    /\ job[w].pc = "nil"
    /\ gamma' = [gamma EXCEPT ![job[w].obj] = 0]
    /\ closers' = closers \cup CloserOf(w)
    /\ job' = [job EXCEPT ![w].pc = "wait", ![w].ptr = 0]
    /\ UNCHANGED <<engine, hasClosed, counter, live, made, task, calls>>

\* a slip: the counter is not looked at
CloserHurries(c) ==
    /\ c.pc = "wait"
    /\ closers' = (closers \ {c}) \cup {[c EXCEPT !.pc = "delete"]}
    /\ UNCHANGED <<engine, gamma, hasClosed, counter, live, made, task, job, calls>>

\* the goroutine of Close waits for the counter and then deletes the engine
CloserWaits(c) ==
    /\ c.pc = "wait"
    /\ counter[c.obj] = {}
    /\ closers' = (closers \ {c}) \cup {[c EXCEPT !.pc = "delete"]}
    /\ UNCHANGED <<engine, gamma, hasClosed, counter, live, made, task, job, calls>>

CloserDeletes(c) ==
    /\ c.pc = "delete"
    /\ live' = live \ {c.ptr}
    /\ hasClosed' = hasClosed \cup {c.obj}
    /\ closers' = closers \ {c}
    /\ UNCHANGED <<engine, gamma, counter, made, task, job, calls>>

\* Destroy asks the engine the Store has by now
Waited(w) == IF job[w].kind = "destroy" THEN engine ELSE job[w].obj

\* a slip: the job does not wait for hasClosed
HasClosedAlways(w) ==
    /\ job[w].pc = "wait"
    /\ job' = [job EXCEPT ![w].pc = "files"]
    /\ UNCHANGED <<engine, gamma, hasClosed, counter, live, made, task, closers, calls>>

HasClosed(w) ==
    /\ job[w].pc = "wait"
    /\ Waited(w) \in hasClosed \cup {0}
    /\ job' = [job EXCEPT ![w].pc = "files"]
    /\ UNCHANGED <<engine, gamma, hasClosed, counter, live, made, task, closers, calls>>

\* restore gives up, startShardRestore opens the engine again all the same
TimeOut(w) ==
    /\ TimeOuts
    /\ job[w].pc = "wait"
    /\ Waited(w) \notin hasClosed
    /\ \/ /\ job[w].kind = "restore"
          /\ job' = [job EXCEPT ![w] = Idle]
       \/ /\ job[w].kind = "shard"
          /\ job' = [job EXCEPT ![w].pc = "load"]
    /\ UNCHANGED <<engine, gamma, hasClosed, counter, live, made, task, closers, calls>>

\* the files are replaced, or removed
Files(w) ==
    /\ job[w].pc = "files"
    /\ job' = [job EXCEPT ![w].pc =
                  CASE job[w].kind = "snapshot" -> "build"
                    [] job[w].kind = "destroy" -> "gone"
                    [] OTHER -> "load"]
    /\ UNCHANGED <<engine, gamma, hasClosed, counter, live, made, task, closers, calls>>

\* restore returns when a download fails
FilesFail(w) ==
    /\ Faults
    /\ job[w].pc = "files"
    /\ job[w].kind = "restore"
    /\ job' = [job EXCEPT ![w] = Idle]
    /\ UNCHANGED <<engine, gamma, hasClosed, counter, live, made, task, closers, calls>>

\* ReBuildEngine makes a new object
ReBuildEngine(w) ==
    /\ job[w].pc = "build"
    /\ job' = [job EXCEPT ![w] = Idle]
    /\ \/ /\ made < MaxEngines
          /\ made' = made + 1
          /\ live' = live \cup {made + 1}
          /\ gamma' = [gamma EXCEPT ![made + 1] = made + 1]
          /\ engine' = made + 1
       \/ /\ Faults
          /\ engine' = 0
          /\ UNCHANGED <<gamma, live, made>>
    /\ UNCHANGED <<hasClosed, counter, task, closers, calls>>

\* Load counts, and publishes the new pointer before it resets hasClosed
Load(w) ==
    /\ job[w].pc = "load"
    /\ ~IndexLocked
    /\ made < MaxEngines
    /\ made' = made + 1
    /\ live' = live \cup {made + 1}
    /\ counter' = [counter EXCEPT ![job[w].obj] = @ \cup {<<w, "load">>}]
    /\ job' = [job EXCEPT ![w].pc = "loading", ![w].ptr = made + 1]
    /\ UNCHANGED <<engine, gamma, hasClosed, task, closers, calls>>

LoadPointer(w) ==
    /\ job[w].pc = "loading"
    /\ gamma' = [gamma EXCEPT ![job[w].obj] = job[w].ptr]
    /\ job' = [job EXCEPT ![w].pc = "loaded"]
    /\ UNCHANGED <<engine, hasClosed, counter, live, made, task, closers, calls>>

LoadReturns(w) ==
    /\ job[w].pc = "loaded"
    /\ hasClosed' = hasClosed \ {job[w].obj}
    /\ counter' = [counter EXCEPT ![job[w].obj] = @ \ {<<w, "load">>}]
    /\ job' = [job EXCEPT ![w] = Idle]
    /\ UNCHANGED <<engine, gamma, live, made, task, closers, calls>>

\* a C++ engine that cannot load its files is left alone: Load calls Close,
\* which closes the pointer of the object and not the new one
LoadFails(w) ==
    LET o == job[w].obj IN
    /\ Faults
    /\ job[w].pc = "loading"
    /\ gamma' = [gamma EXCEPT ![o] = 0]
    /\ closers' = IF gamma[o] = 0 THEN closers
                  ELSE closers \cup {[by |-> w, obj |-> o, ptr |-> gamma[o], pc |-> "wait"]}
    /\ counter' = [counter EXCEPT ![o] = @ \ {<<w, "load">>}]
    /\ job' = [job EXCEPT ![w] = Idle]
    /\ UNCHANGED <<engine, hasClosed, live, made, task, calls>>

----------------------------------------------------------------------------

Request == \E r \in Requests, k \in Kinds : Call(r, k)

TaskStep ==
    \/ \E t \in Task : Refuse(t) \/ Check(t) \/ Reread(t) \/ StartGo(t) \/ Finish(t)
    \/ \E r \in Requests : Spawn(r)

CloserStep == \E c \in closers : CloserWaits(c) \/ CloserDeletes(c)

JobStep(w) ==
    \/ \E k \in JobKinds : CloseRead(w, k)
    \/ CloseNil(w) \/ HasClosed(w) \/ TimeOut(w)
    \/ Files(w) \/ FilesFail(w) \/ ReBuildEngine(w)
    \/ Load(w) \/ LoadPointer(w) \/ LoadReturns(w) \/ LoadFails(w)

Next == Request \/ TaskStep \/ CloserStep \/ \E w \in Workers : JobStep(w)

Spec == Init /\ [][Next]_vars

----------------------------------------------------------------------------

\* the state is well formed
TypeOK ==
    /\ engine \in Pointer
    /\ gamma \in [Object -> Pointer]
    /\ hasClosed \subseteq Object
    /\ counter \in [Object -> SUBSET Counting]
    /\ live \subseteq Object
    /\ made \in Object
    /\ task \in [Task -> TaskState]
    /\ closers \subseteq Closer
    /\ job \in [Workers -> JobState]
    /\ calls \in 0 .. MaxCalls

\* a goroutine that counts is never in C++ with an engine that was deleted:
\* Close sets the pointer to nil first and then waits for the counter
CountedUsesLive ==
    \A t \in Task :
        task[t].pc = "using" /\ t \in counter[task[t].obj]
            => task[t].ptr \in live \cup {0}

\* the files of a partition are replaced or removed only while no C++ engine
\* has them open
FilesClosed == \A w \in Workers : job[w].pc = "files" => live = {}

\* no two goroutines of Close delete the same C++ engine, and none deletes one
\* that is gone
DeletedOnce ==
    /\ \A c \in closers : c.ptr \in live
    /\ \A c, d \in closers : c.ptr = d.ptr => c = d

\* between jobs the store has an engine that is open and takes requests
Reopened ==
    (\A w \in Workers : job[w].pc = "idle") =>
        gamma[engine] \in live /\ engine \notin hasClosed

============================================================================
