------------------------- MODULE GammaEngineProofs -------------------------
(***************************************************************************)
(* The variables of GammaEngine keep their types, and a request that       *)
(* counts is never in a C++ engine that was deleted: for any number of     *)
(* requests and jobs, with time-outs and failing loads.                    *)
(*                                                                         *)
(* The argument.  Every C++ engine belongs to one object.  Close resets    *)
(* the pointer of the object before its goroutine looks at the counter, so *)
(* that an engine a goroutine waits to delete can no longer be taken by a  *)
(* request (ClosersOK), and one that it is about to delete is held by no   *)
(* request that counts (UsesOK).                                           *)
(***************************************************************************)
EXTENDS GammaEngine, TLAPS

USE DEF Object, Pointer

\* the type of the requests and of the counters
TasksTyped ==
    /\ counter \in [Object -> SUBSET Counting]
    /\ task \in [Task -> TaskState]
    /\ calls \in 0 .. MaxCalls

\* the type of the objects, the C++ engines and the jobs
JobsTyped ==
    /\ engine \in Pointer
    /\ gamma \in [Object -> Pointer]
    /\ hasClosed \subseteq Object
    /\ live \subseteq Object
    /\ made \in Object
    /\ closers \subseteq Closer
    /\ job \in [Workers -> JobState]

LEMMA TypeSplit == TypeOK <=> TasksTyped /\ JobsTyped
BY DEF TypeOK, TasksTyped, JobsTyped

\* a request or a job that is under way has an object
Placed ==
    /\ \A t \in Task : task[t].pc # "idle" => task[t].obj \in Object
    /\ \A w \in Workers : job[w].pc # "idle" => job[w].obj \in Object

\* Init gives the variables their types
LEMMA TypeInit == Init => TypeOK /\ Placed
<1> SUFFICES ASSUME Init PROVE TypeOK /\ Placed
    OBVIOUS
<1> USE GammaEngineAssumption
<1>1. TasksTyped
    BY DEF Init, TasksTyped, Idle, TaskState
<1>2. JobsTyped
    BY DEF Init, JobsTyped, Idle, JobState, Closer
<1>3. Placed
    BY DEF Init, Placed, Idle
<1> QED BY <1>1, <1>2, <1>3, TypeSplit

\* the goroutines that count
LEMMA CountingFacts ==
    /\ Task \subseteq Counting
    /\ \A w \in Workers : <<w, "load">> \in Counting /\ <<w, "load">> \notin Task
    /\ \A r \in Requests : <<r, "call">> \in Task /\ <<r, "go">> \in Task
                           /\ <<r, "call">> # <<r, "go">>
BY DEF Counting, Task

\* a request goes to a state that has its type
LEMMA TaskSet ==
    ASSUME TasksTyped, Placed, NEW t \in Task, NEW v \in TaskState,
           v.pc # "idle" => v.obj \in Object,
           task' = [task EXCEPT ![t] = v], UNCHANGED job
    PROVE  task' \in [Task -> TaskState] /\ Placed'
<1>1. task' \in [Task -> TaskState]
    BY DEF TasksTyped
<1>2. \A u \in Task : task'[u] = IF u = t THEN v ELSE task[u]
    BY DEF TasksTyped
<1> QED BY <1>1, <1>2 DEF Placed

\* a job goes to a state that has its type
LEMMA JobSet ==
    ASSUME JobsTyped, Placed, NEW w \in Workers, NEW v \in JobState,
           v.pc # "idle" => v.obj \in Object,
           job' = [job EXCEPT ![w] = v], UNCHANGED task
    PROVE  job' \in [Workers -> JobState] /\ Placed'
<1>1. job' \in [Workers -> JobState]
    BY DEF JobsTyped
<1>2. \A u \in Workers : job'[u] = IF u = w THEN v ELSE job[u]
    BY DEF JobsTyped
<1> QED BY <1>1, <1>2 DEF Placed

\* the steps of the requests keep the types
LEMMA TaskTypeStep ==
    ASSUME TypeOK, Placed, Request \/ TaskStep
    PROVE  TypeOK' /\ Placed'
<1> USE GammaEngineAssumption, CountingFacts
<1>1. TasksTyped /\ JobsTyped
    BY TypeSplit
<1>2. ASSUME NEW r \in Requests, NEW k \in Kinds, Call(r, k)
      PROVE  TasksTyped' /\ JobsTyped' /\ Placed'
    <2> DEFINE v == [pc |-> "enter", kind |-> k, obj |-> engine, ptr |-> 0]
    <2>1. v \in TaskState /\ v.obj \in Object
        BY <1>1, <1>2 DEF Call, JobsTyped, TaskState
    <2>2. task' = [task EXCEPT ![<<r, "call">>] = v] /\ UNCHANGED job
        BY <1>2 DEF Call
    <2>3. task' \in [Task -> TaskState] /\ Placed'
        <3> HIDE DEF v
        <3> QED BY Zenon, <1>1, <2>1, <2>2, TaskSet
    <2>4. counter' \in [Object -> SUBSET Counting]
        BY Zenon, <1>1, <1>2 DEF Call, TasksTyped
    <2>5. calls' \in 0 .. MaxCalls
        BY <1>1, <1>2 DEF Call, TasksTyped
    <2>6. JobsTyped'
        BY <1>1, <1>2 DEF Call, JobsTyped
    <2> QED BY <2>3, <2>4, <2>5, <2>6 DEF TasksTyped
<1>3. ASSUME NEW t \in Task, Refuse(t) \/ Finish(t)
      PROVE  TasksTyped' /\ JobsTyped' /\ Placed'
    <2>1. Returns(t) /\ UNCHANGED <<engine, gamma, hasClosed, live, made, closers, job, calls>>
        BY <1>3 DEF Refuse, Finish
    <2>2. Idle \in TaskState /\ Idle.pc = "idle"
        BY DEF Idle, TaskState
    <2>3. task' \in [Task -> TaskState] /\ Placed'
        BY Zenon, <1>1, <2>1, <2>2, TaskSet DEF Returns
    <2>4. counter' \in [Object -> SUBSET Counting]
        BY Zenon, <1>1, <2>1 DEF Returns, TasksTyped
    <2>5. JobsTyped'
        BY <1>1, <2>1 DEF JobsTyped
    <2> QED BY <1>1, <2>1, <2>3, <2>4, <2>5 DEF TasksTyped
<1>4. ASSUME NEW t \in Task, Check(t) \/ Reread(t)
      PROVE  TasksTyped' /\ JobsTyped' /\ Placed'
    <2>1. task[t] \in TaskState /\ task[t].obj \in Object
        BY <1>1, <1>4 DEF Check, Reread, Placed, TasksTyped
    <2>2. PICK p \in {"using", "checked", "spawn"} :
              task' = [task EXCEPT ![t].pc = p, ![t].ptr = gamma[task[t].obj]]
        <3>1. CASE Reread(t)
            BY <3>1 DEF Reread
        <3>2. CASE Check(t)
            <4>1. NextPc(task[t].kind) \in {"using", "checked", "spawn"}
                BY <2>1 DEF NextPc, TaskState
            <4> QED BY Zenon, <3>2, <4>1 DEF Check
        <3> QED BY <1>4, <3>1, <3>2
    <2> DEFINE v == [task[t] EXCEPT !.pc = p, !.ptr = gamma[task[t].obj]]
    <2>3. v \in TaskState /\ v.obj \in Object
        BY Zenon, <1>1, <2>1 DEF TaskState, JobsTyped
    <2>4. task' = [task EXCEPT ![t] = v]
        BY Zenon, <1>1, <2>2 DEF TasksTyped
    <2>5. UNCHANGED <<engine, gamma, hasClosed, counter, live, made, closers, job, calls>>
        BY <1>4 DEF Check, Reread
    <2>6. task' \in [Task -> TaskState] /\ Placed'
        <3> HIDE DEF v
        <3> QED BY Zenon, <1>1, <2>3, <2>4, <2>5, TaskSet
    <2> QED BY <1>1, <2>5, <2>6 DEF TasksTyped, JobsTyped
<1>5. ASSUME NEW t \in Task, StartGo(t)
      PROVE  TasksTyped' /\ JobsTyped' /\ Placed'
    <2>1. task[t] \in TaskState /\ task[t].obj \in Object
        BY <1>1, <1>5 DEF StartGo, Placed, TasksTyped
    <2>2. PICK p \in {"using", "checked"} : task' = [task EXCEPT ![t].pc = p]
        BY <1>5 DEF StartGo
    <2> DEFINE v == [task[t] EXCEPT !.pc = p]
    <2>3. v \in TaskState /\ v.obj \in Object
        BY <2>1 DEF TaskState
    <2>4. task' = [task EXCEPT ![t] = v] /\ UNCHANGED job
        BY <1>1, <1>5, <2>2 DEF TasksTyped, StartGo
    <2>5. task' \in [Task -> TaskState] /\ Placed'
        <3> HIDE DEF v
        <3> QED BY Zenon, <1>1, <2>3, <2>4, TaskSet
    <2>6. counter' \in [Object -> SUBSET Counting]
        BY <1>1, <1>5 DEF StartGo, TasksTyped
    <2> QED BY <1>1, <1>5, <2>5, <2>6 DEF StartGo, TasksTyped, JobsTyped
<1>6. ASSUME NEW r \in Requests, Spawn(r)
      PROVE  TasksTyped' /\ JobsTyped' /\ Placed'
    <2> DEFINE t == <<r, "call">>
               g == <<r, "go">>
               v == [task[t] EXCEPT !.pc = "return"]
               u == [task[t] EXCEPT !.pc = "start"]
    <2>1. task[t] \in TaskState /\ task[t].obj \in Object
        BY <1>1, <1>6 DEF Spawn, Placed, TasksTyped
    <2>2. v \in TaskState /\ v.obj \in Object /\ u \in TaskState /\ u.obj \in Object
        BY <2>1 DEF TaskState
    <2>3. task' = [task EXCEPT ![g] = u, ![t] = v]
        BY <1>1, <1>6 DEF TasksTyped, Spawn
    <2>4. t \in Task /\ g \in Task /\ t # g
        OBVIOUS
    <2>5. task' \in [Task -> TaskState] /\ \A x \in Task :
              task'[x] = IF x = t THEN v ELSE IF x = g THEN u ELSE task[x]
        <3> HIDE DEF t, g, u, v
        <3> QED BY <1>1, <2>2, <2>3, <2>4 DEF TasksTyped
    <2>6. Placed'
        <3> HIDE DEF t, g, u, v
        <3> QED BY <1>6, <2>2, <2>5 DEF Placed, Spawn
    <2> QED BY Zenon, <1>1, <1>6, <2>5, <2>6 DEF Spawn, TasksTyped, JobsTyped
<1> QED BY Zenon, <1>2, <1>3, <1>4, <1>5, <1>6, TypeSplit DEF Request, TaskStep, TypeOK, TasksTyped, JobsTyped

\* the steps of Close and of the jobs keep the types
LEMMA JobTypeStep ==
    ASSUME TypeOK, Placed, CloserStep \/ \E w \in Workers : JobStep(w)
    PROVE  TypeOK' /\ Placed'
<1> USE GammaEngineAssumption, CountingFacts
<1>1. TasksTyped /\ JobsTyped
    BY TypeSplit
<1>2. ASSUME NEW c \in closers, CloserWaits(c) \/ CloserDeletes(c)
      PROVE  TasksTyped' /\ JobsTyped' /\ Placed'
    <2>1. c \in Closer /\ [c EXCEPT !.pc = "delete"] \in Closer
        BY <1>1 DEF JobsTyped, Closer
    <2>2. c.obj \in Object
        BY <2>1 DEF Closer
    <2> QED BY Zenon, <1>1, <1>2, <2>1, <2>2 DEF CloserWaits, CloserDeletes, TasksTyped, JobsTyped, Placed
<1>3. ASSUME NEW w \in Workers, NEW k \in JobKinds, CloseRead(w, k)
      PROVE  TasksTyped' /\ JobsTyped' /\ Placed'
    <2> DEFINE v == [pc |-> "nil", kind |-> k, obj |-> engine, ptr |-> gamma[engine]]
    <2>1. v \in JobState /\ v.obj \in Object
        BY <1>1, <1>3 DEF CloseRead, JobsTyped, JobState
    <2>2. job' = [job EXCEPT ![w] = v] /\ UNCHANGED task
        BY <1>3 DEF CloseRead
    <2>3. job' \in [Workers -> JobState] /\ Placed'
        <3> HIDE DEF v
        <3> QED BY Zenon, <1>1, <2>1, <2>2, JobSet
    <2> QED BY <1>1, <1>3, <2>3 DEF CloseRead, TasksTyped, JobsTyped
<1>4. ASSUME NEW w \in Workers, NEW p \in {"wait", "files", "build", "load", "gone", "loaded"},
             NEW q \in Pointer, job[w].pc # "idle", UNCHANGED task,
             job' = [job EXCEPT ![w] = [job[w] EXCEPT !.pc = p, !.ptr = q]]
      PROVE  job' \in [Workers -> JobState] /\ Placed'
    <2> DEFINE v == [job[w] EXCEPT !.pc = p, !.ptr = q]
    <2>1. v \in JobState /\ v.obj \in Object
        BY Zenon, <1>1, <1>4 DEF Placed, JobsTyped, JobState
    <2>2. job' = [job EXCEPT ![w] = v]
        BY <1>4
    <2> HIDE DEF v
    <2> QED BY Zenon, <1>1, <1>4, <2>1, <2>2, JobSet
<1>5. ASSUME NEW w \in Workers, CloseNil(w)
      PROVE  TasksTyped' /\ JobsTyped' /\ Placed'
    <2>1. job[w] \in JobState /\ job[w].obj \in Object
        BY <1>1, <1>5 DEF CloseNil, Placed, JobsTyped
    <2>2. CloserOf(w) \subseteq Closer
        BY <2>1 DEF CloserOf, Closer, JobState
    <2>3. job' = [job EXCEPT ![w] = [job[w] EXCEPT !.pc = "wait", !.ptr = 0]]
        BY Zenon, <1>1, <1>5 DEF CloseNil, JobsTyped
    <2>4. job' \in [Workers -> JobState] /\ Placed'
        <3>1. job[w].pc # "idle" /\ UNCHANGED task /\ 0 \in Pointer
            BY <1>5 DEF CloseNil
        <3> QED BY Zenon, <1>4, <2>3, <3>1
    <2>5. gamma' \in [Object -> Pointer] /\ closers' \subseteq Closer
        BY <1>1, <1>5, <2>1, <2>2 DEF CloseNil, JobsTyped
    <2> QED BY <1>1, <1>5, <2>4, <2>5 DEF CloseNil, TasksTyped, JobsTyped
<1>6. Idle \in JobState /\ Idle.pc = "idle"
    BY DEF Idle, JobState
<1>7. ASSUME NEW w \in Workers, HasClosed(w) \/ TimeOut(w) \/ Files(w) \/ FilesFail(w)
      PROVE  TasksTyped' /\ JobsTyped' /\ Placed'
    <2>1. UNCHANGED <<engine, gamma, hasClosed, counter, live, made, task, closers, calls>>
        BY <1>7 DEF HasClosed, TimeOut, Files, FilesFail
    <2>2. job[w].pc # "idle" /\ job[w] \in JobState
        BY <1>1, <1>7 DEF HasClosed, TimeOut, Files, FilesFail, JobsTyped
    <2>3. \/ job' = [job EXCEPT ![w] = Idle]
          \/ \E p \in {"files", "build", "load", "gone"} : job' = [job EXCEPT ![w].pc = p]
        BY <1>7 DEF HasClosed, TimeOut, Files, FilesFail
    <2>4. CASE job' = [job EXCEPT ![w] = Idle]
        BY Zenon, <1>1, <1>6, <2>1, <2>4, JobSet DEF TasksTyped, JobsTyped
    <2>5. ASSUME NEW p \in {"files", "build", "load", "gone"}, job' = [job EXCEPT ![w].pc = p]
          PROVE  job' \in [Workers -> JobState] /\ Placed'
        <3>1. job' = [job EXCEPT ![w] = [job[w] EXCEPT !.pc = p, !.ptr = job[w].ptr]]
            BY Zenon, <1>1, <2>2, <2>5 DEF JobsTyped, JobState
        <3> QED BY Zenon, <1>4, <2>1, <2>2, <3>1 DEF JobState
    <2> QED BY <1>1, <2>1, <2>3, <2>4, <2>5 DEF TasksTyped, JobsTyped
<1>8. ASSUME NEW w \in Workers, ReBuildEngine(w)
      PROVE  TasksTyped' /\ JobsTyped' /\ Placed'
    <2>1. job' \in [Workers -> JobState] /\ Placed'
        BY Zenon, <1>1, <1>6, <1>8, JobSet DEF ReBuildEngine
    <2>2. engine' \in Pointer /\ gamma' \in [Object -> Pointer] /\ live' \subseteq Object /\ made' \in Object
        <3>1. CASE UNCHANGED <<gamma, live, made>> /\ engine' = 0
            BY <1>1, <3>1 DEF JobsTyped
        <3>2. CASE /\ made < MaxEngines
                   /\ made' = made + 1
                   /\ live' = live \cup {made + 1}
                   /\ gamma' = [gamma EXCEPT ![made + 1] = made + 1]
                   /\ engine' = made + 1
            <4>1. made + 1 \in Object /\ made + 1 \in Pointer
                BY <1>1, <3>2 DEF JobsTyped
            <4> QED BY <1>1, <3>2, <4>1 DEF JobsTyped
        <3> QED BY <1>8, <3>1, <3>2 DEF ReBuildEngine
    <2> QED BY <1>1, <1>8, <2>1, <2>2, Zenon DEF ReBuildEngine, TasksTyped, JobsTyped
<1>9. ASSUME NEW w \in Workers, Load(w)
      PROVE  TasksTyped' /\ JobsTyped' /\ Placed'
    <2> DEFINE v == [job[w] EXCEPT !.pc = "loading", !.ptr = made + 1]
    <2>1. job[w] \in JobState /\ job[w].obj \in Object
        BY <1>1, <1>9 DEF Load, Placed, JobsTyped
    <2>2. v \in JobState /\ v.obj \in Object /\ made + 1 \in Object
        <3>1. made + 1 \in Object /\ made + 1 \in Pointer
            BY <1>1, <1>9 DEF Load, JobsTyped
        <3> QED BY Zenon, <2>1, <3>1 DEF JobState
    <2>3. job' = [job EXCEPT ![w] = v] /\ UNCHANGED task
        BY Zenon, <1>1, <1>9 DEF Load, JobsTyped
    <2>4. job' \in [Workers -> JobState] /\ Placed'
        <3> HIDE DEF v
        <3> QED BY Zenon, <1>1, <2>2, <2>3, JobSet
    <2>5. counter' \in [Object -> SUBSET Counting]
        BY Zenon, <1>1, <1>9 DEF Load, TasksTyped
    <2> QED BY <1>1, <1>9, <2>2, <2>4, <2>5 DEF Load, TasksTyped, JobsTyped
<1>10. ASSUME NEW w \in Workers, LoadPointer(w)
      PROVE  TasksTyped' /\ JobsTyped' /\ Placed'
    <2>1. job[w] \in JobState
        BY <1>1 DEF JobsTyped
    <2>2. job' = [job EXCEPT ![w] = [job[w] EXCEPT !.pc = "loaded", !.ptr = job[w].ptr]]
        BY Zenon, <1>1, <1>10, <2>1 DEF LoadPointer, JobsTyped, JobState
    <2>3. job' \in [Workers -> JobState] /\ Placed'
        BY Zenon, <1>4, <1>10, <2>1, <2>2 DEF LoadPointer, JobState
    <2>4. gamma' \in [Object -> Pointer]
        BY Zenon, <1>1, <1>10, <2>1 DEF LoadPointer, JobsTyped, JobState
    <2> QED BY <1>1, <1>10, <2>3, <2>4 DEF LoadPointer, TasksTyped, JobsTyped
<1>11. ASSUME NEW w \in Workers, LoadReturns(w) \/ LoadFails(w)
      PROVE  TasksTyped' /\ JobsTyped' /\ Placed'
    <2>1. job' \in [Workers -> JobState] /\ Placed'
        BY <1>1, <1>6, <1>11, JobSet DEF LoadReturns, LoadFails
    <2>2. counter' \in [Object -> SUBSET Counting]
        BY <1>1, <1>11 DEF LoadReturns, LoadFails, TasksTyped
    <2>3. job[w].obj \in Object
        BY <1>11 DEF LoadReturns, LoadFails, Placed
    <2>4. gamma' \in [Object -> Pointer] /\ hasClosed' \subseteq Object
        <3>1. CASE LoadReturns(w)
            BY Zenon, <1>1, <3>1 DEF LoadReturns, JobsTyped
        <3>2. CASE LoadFails(w)
            <4>1. gamma' = [gamma EXCEPT ![job[w].obj] = 0] /\ UNCHANGED hasClosed /\ 0 \in Pointer
                BY <3>2 DEF LoadFails
            <4> QED BY <1>1, <2>3, <4>1 DEF JobsTyped
        <3> QED BY <1>11, <3>1, <3>2
    <2>5. closers' \subseteq Closer
        BY <1>1, <1>11, <2>3 DEF LoadReturns, LoadFails, JobsTyped, Closer
    <2> QED BY Zenon, <1>1, <1>11, <2>1, <2>2, <2>4, <2>5 DEF LoadReturns, LoadFails, TasksTyped, JobsTyped
<1> QED BY Zenon, <1>2, <1>3, <1>5, <1>7, <1>8, <1>9, <1>10, <1>11
        DEF CloserStep, JobStep, TypeOK, TasksTyped, JobsTyped

\* whatever the requests and the jobs do, in any number, the variables of the
\* engine object keep their types
THEOREM EngineTypeCorrect == Spec => []TypeOK
<1>1. Init => TypeOK /\ Placed
    BY TypeInit
<1>2. TypeOK /\ Placed /\ [Next]_vars => (TypeOK /\ Placed)'
    <2> SUFFICES ASSUME TypeOK, Placed, [Next]_vars
                 PROVE  (TypeOK /\ Placed)'
        OBVIOUS
    <2>1. CASE Request \/ TaskStep
        BY <2>1, TaskTypeStep
    <2>2. CASE CloserStep \/ \E w \in Workers : JobStep(w)
        BY <2>2, JobTypeStep
    <2>3. CASE UNCHANGED vars
        BY <2>3 DEF vars, TypeOK, Placed
    <2> QED BY <2>1, <2>2, <2>3 DEF Next
<1> QED BY <1>1, <1>2, PTL DEF Spec

\* the pointer of an object is an engine of its own that exists
GammaOK(own) ==
    \A o \in Object : gamma[o] # 0 =>
        gamma[o] <= made /\ own[gamma[o]] = o /\ gamma[o] \in live

\* an engine that waits to be deleted cannot be taken by a request
ClosersOK(own) ==
    \A c \in closers : c.ptr <= made /\ own[c.ptr] = c.obj /\ gamma[c.obj] # c.ptr

\* the pointer of a job is an engine of its object
JobsOK(own) ==
    \A w \in Workers : job[w].ptr # 0 =>
        job[w].ptr <= made /\ own[job[w].ptr] = job[w].obj

\* the engine of a Load is known to nobody else
LoadsOK ==
    \A w \in Workers : job[w].pc = "loading" =>
        /\ job[w].ptr \in live
        /\ \A c \in closers : c.ptr # job[w].ptr
        /\ \A o \in Object : gamma[o] # job[w].ptr
        /\ \A v \in Workers \ {w} :
               job[v].pc \in {"nil", "loading"} => job[v].ptr # job[w].ptr

\* the pointer of a request is an engine of its object
TasksOK(own) ==
    \A t \in Task : task[t].ptr # 0 =>
        task[t].ptr <= made /\ own[task[t].ptr] = task[t].obj

\* a request counts for its object, and while it is under way
CountsOK ==
    \A t \in Task, o \in Object : t \in counter[o] =>
        task[t].obj = o /\ task[t].pc \notin {"idle", "start"}

\* an engine used by a request that counts is not about to be deleted
UsesOK ==
    \A t \in Task :
        task[t].pc = "using" /\ t \in counter[task[t].obj] /\ task[t].ptr # 0 =>
            /\ task[t].ptr \in live
            /\ \A c \in closers : c.pc = "delete" => c.ptr # task[t].ptr

\* the engines created so far have the numbers up to made
LiveOK == \A i \in live : i <= made

EngineInv(own) ==
    /\ GammaOK(own) /\ ClosersOK(own) /\ JobsOK(own) /\ TasksOK(own)
    /\ LoadsOK /\ CountsOK /\ UsesOK /\ LiveOK

\* the initial engine belongs to the first object
LEMMA InvInit == Init => \E own \in [Object -> Object] : EngineInv(own)
<1> SUFFICES ASSUME Init PROVE EngineInv([i \in Object |-> i])
    OBVIOUS
<1> USE GammaEngineAssumption
<1> QED BY DEF Init, EngineInv, Idle, GammaOK, ClosersOK, JobsOK, TasksOK, LoadsOK, CountsOK, UsesOK, LiveOK

\* a step that moves one request keeps the invariant if that request keeps it
LEMMA OneTask ==
    ASSUME Placed, NEW own \in [Object -> Object], EngineInv(own), NEW t \in Task,
           UNCHANGED <<gamma, live, made, closers, job>>,
           \A x \in Task \ {t} : task'[x] = task[x],
           \A x \in Task \ {t}, o \in Object : x \in counter'[o] <=> x \in counter[o],
           task'[t].ptr # 0 =>
               task'[t].ptr <= made /\ own[task'[t].ptr] = task'[t].obj,
           \A o \in Object : t \in counter'[o] =>
               task'[t].obj = o /\ task'[t].pc \notin {"idle", "start"},
           task'[t].pc = "using" /\ t \in counter'[task'[t].obj] /\ task'[t].ptr # 0 =>
               /\ task'[t].ptr \in live
               /\ \A c \in closers : c.pc = "delete" => c.ptr # task'[t].ptr
    PROVE  EngineInv(own)'
<1> HIDE DEF Object, Pointer
<1>1. GammaOK(own)' /\ ClosersOK(own)' /\ JobsOK(own)' /\ LoadsOK' /\ LiveOK'
    BY DEF EngineInv, GammaOK, ClosersOK, JobsOK, LoadsOK, LiveOK
<1>2. TasksOK(own)'
    <2> SUFFICES ASSUME NEW x \in Task, task'[x].ptr # 0
                 PROVE  task'[x].ptr <= made /\ own[task'[x].ptr] = task'[x].obj
        BY DEF TasksOK
    <2> QED BY DEF EngineInv, TasksOK
<1>3. CountsOK'
    <2> SUFFICES ASSUME NEW x \in Task, NEW o \in Object, x \in counter'[o]
                 PROVE  task'[x].obj = o /\ task'[x].pc \notin {"idle", "start"}
        BY DEF CountsOK
    <2>1. CASE x = t
        BY <2>1
    <2>2. CASE x # t
        <3>1. task'[x] = task[x] /\ x \in counter[o]
            BY <2>2
        <3> QED BY <3>1 DEF EngineInv, CountsOK
    <2> QED BY <2>1, <2>2
<1>4. UsesOK'
    <2> SUFFICES ASSUME NEW x \in Task, task'[x].pc = "using",
                        x \in counter'[task'[x].obj], task'[x].ptr # 0
                 PROVE  /\ task'[x].ptr \in live
                        /\ \A c \in closers : c.pc = "delete" => c.ptr # task'[x].ptr
        BY DEF UsesOK
    <2>1. CASE x = t
        BY <2>1
    <2>2. CASE x # t
        <3>1. task'[x] = task[x] /\ task[x].obj \in Object
            BY <2>2 DEF Placed
        <3>2. x \in counter[task[x].obj]
            BY <2>2, <3>1
        <3> QED BY <3>1, <3>2 DEF EngineInv, UsesOK
    <2> QED BY <2>1, <2>2
<1> QED BY <1>1, <1>2, <1>3, <1>4 DEF EngineInv

\* the steps of the requests keep the invariant
LEMMA TaskInvStep ==
    ASSUME TypeOK, Placed, NEW own \in [Object -> Object], EngineInv(own),
           Request \/ TaskStep
    PROVE  EngineInv(own)'
<1> TasksTyped
    BY TypeSplit
<1> gamma \in [Object -> Pointer]
    BY DEF TypeOK
<1> GammaOK(own) /\ ClosersOK(own) /\ TasksOK(own) /\ CountsOK /\ UsesOK
    BY DEF EngineInv
<1> HIDE DEF Object, Pointer
<1>1. ASSUME NEW r \in Requests, NEW k \in Kinds, Call(r, k)
      PROVE  EngineInv(own)'
    <2> DEFINE t == <<r, "call">>
               v == [pc |-> "enter", kind |-> k, obj |-> engine, ptr |-> 0]
    <2>1. t \in Task
        BY Zenon, CountingFacts
    <2>2. task' = [task EXCEPT ![t] = v] /\ UNCHANGED <<gamma, live, made, closers, job>>
        BY <1>1 DEF Call
    <2>3. v.pc = "enter" /\ v.obj = engine /\ v.ptr = 0
        OBVIOUS
    <2>4. counter' = counter \/ counter' = [counter EXCEPT ![engine] = @ \cup {t}]
        BY <1>1 DEF Call
    <2>5. task[t].pc = "idle"
        BY <1>1 DEF Call
    <2> HIDE DEF t, v
    <2>6. task'[t] = v /\ \A x \in Task \ {t} : task'[x] = task[x]
        BY <2>1, <2>2 DEF TasksTyped
    <2>7. \A o \in Object : t \notin counter[o]
        BY <2>1, <2>5 DEF CountsOK
    <2>8. /\ \A x \in Task \ {t}, o \in Object : x \in counter'[o] <=> x \in counter[o]
          /\ \A o \in Object : t \in counter'[o] => o = engine
        BY <2>4, <2>7 DEF TasksTyped
    <2> QED BY <2>1, <2>2, <2>3, <2>6, <2>8, OneTask
<1>2. ASSUME NEW t \in Task, Refuse(t) \/ Finish(t)
      PROVE  EngineInv(own)'
    <2>1. /\ task' = [task EXCEPT ![t] = Idle]
          /\ counter' = [counter EXCEPT ![task[t].obj] = @ \ {t}]
          /\ UNCHANGED <<gamma, live, made, closers, job>>
        BY <1>2 DEF Refuse, Finish, Returns
    <2>2. Idle.pc = "idle" /\ Idle.ptr = 0
        BY DEF Idle
    <2>3. task'[t] = Idle /\ \A x \in Task \ {t} : task'[x] = task[x]
        BY <2>1 DEF TasksTyped
    <2>4. /\ \A x \in Task \ {t}, o \in Object : x \in counter'[o] <=> x \in counter[o]
          /\ \A o \in Object : t \notin counter'[o]
        BY <2>1 DEF TasksTyped, CountsOK
    <2> QED BY <2>1, <2>2, <2>3, <2>4, OneTask
<1>3. ASSUME NEW t \in Task, Check(t) \/ Reread(t)
      PROVE  EngineInv(own)'
    <2>1. /\ task[t].obj \in Object /\ task[t] \in TaskState
          /\ task[t].pc \notin {"idle", "start"}
        BY <1>3 DEF Check, Reread, Placed, TasksTyped
    <2>2. PICK p \in {"using", "checked", "spawn"} :
             task' = [task EXCEPT ![t].pc = p, ![t].ptr = gamma[task[t].obj]]
        BY <1>3 DEF Check, Reread, NextPc
    <2>3. UNCHANGED <<counter, gamma, live, made, closers, job>>
        BY <1>3 DEF Check, Reread
    <2>4. \A x \in Task \ {t} : task'[x] = task[x]
        BY <2>2 DEF TasksTyped
    <2>5. task'[t].pc = p /\ task'[t].ptr = gamma[task[t].obj] /\ task'[t].obj = task[t].obj
        BY <2>1, <2>2 DEF TasksTyped, TaskState
    <2>6. \A o \in Object : t \in counter'[o] =>
              task'[t].obj = o /\ task'[t].pc \notin {"idle", "start"}
        BY <2>3, <2>5 DEF CountsOK
    <2>7. task'[t].ptr # 0 =>
              /\ task'[t].ptr <= made /\ own[task'[t].ptr] = task'[t].obj
              /\ task'[t].ptr \in live
              /\ \A c \in closers : c.ptr # task'[t].ptr
        BY <2>1, <2>5 DEF GammaOK, ClosersOK
    <2> QED BY <2>3, <2>4, <2>6, <2>7, OneTask
<1>4. ASSUME NEW t \in Task, StartGo(t)
      PROVE  EngineInv(own)'
    <2>1. /\ task[t].obj \in Object /\ task[t] \in TaskState
          /\ task[t].pc = "start"
        BY <1>4 DEF StartGo, Placed, TasksTyped
    <2>2. UNCHANGED <<gamma, live, made, closers, job>>
        BY <1>4 DEF StartGo
    <2>3. PICK p \in {"using", "checked"} : task' = [task EXCEPT ![t].pc = p]
        BY <1>4 DEF StartGo
    <2>4. \A x \in Task \ {t} : task'[x] = task[x]
        BY <2>3 DEF TasksTyped
    <2>5. task'[t].pc = p /\ task'[t].ptr = task[t].ptr /\ task'[t].obj = task[t].obj
        BY <2>1, <2>3 DEF TasksTyped, TaskState
    <2>6. \A o \in Object : t \notin counter[o]
        BY <2>1 DEF CountsOK
    <2>7. CASE task[t].kind = "rebuild"
        <3>1. counter' = [counter EXCEPT ![task[t].obj] = @ \cup {t}] /\ p = "checked"
            BY <1>4, <2>1, <2>5, <2>7 DEF StartGo, TasksTyped, TaskState
        <3>2. /\ \A x \in Task \ {t}, o \in Object : x \in counter'[o] <=> x \in counter[o]
              /\ \A o \in Object : t \in counter'[o] => o = task[t].obj
            BY <2>6, <3>1 DEF TasksTyped
        <3>3. task[t].ptr # 0 => task[t].ptr <= made /\ own[task[t].ptr] = task[t].obj
            BY DEF TasksOK
        <3> QED BY <2>2, <2>4, <2>5, <3>1, <3>2, <3>3, OneTask
    <2>8. CASE task[t].kind # "rebuild"
        <3>1. counter' = counter
            BY <1>4, <2>8 DEF StartGo
        <3>2. task[t].ptr # 0 => task[t].ptr <= made /\ own[task[t].ptr] = task[t].obj
            BY DEF TasksOK
        <3>3. t \notin counter'[task'[t].obj]
            BY <2>1, <2>5, <2>6, <3>1
        <3> QED BY <2>2, <2>4, <2>5, <2>6, <3>1, <3>2, <3>3, OneTask
    <2> QED BY <2>7, <2>8
<1>5. ASSUME NEW r \in Requests, Spawn(r)
      PROVE  EngineInv(own)'
    <2> DEFINE t == <<r, "call">>
               g == <<r, "go">>
               v == [task[t] EXCEPT !.pc = "start"]
               u == [task[t] EXCEPT !.pc = "return"]
    <2>1. t \in Task /\ g \in Task /\ t # g
        BY CountingFacts
    <2>2. task[t].pc = "spawn" /\ task[g].pc = "idle" /\ task[t] \in TaskState
        BY <1>5, <2>1 DEF Spawn, TasksTyped
    <2>3. UNCHANGED <<counter, gamma, live, made, closers, job>>
        BY <1>5 DEF Spawn
    <2>4. task' = [task EXCEPT ![g] = v, ![t].pc = "return"]
        BY <1>5 DEF Spawn
    <2>5. /\ v.pc = "start" /\ v.obj = task[t].obj /\ v.ptr = task[t].ptr
          /\ u.pc = "return" /\ u.obj = task[t].obj /\ u.ptr = task[t].ptr
        BY <2>2 DEF TaskState
    <2>6. /\ task'[g] = v /\ task'[t] = u
          /\ \A x \in Task \ {t, g} : task'[x] = task[x]
        <3> HIDE DEF v, t, g
        <3> QED BY <2>1, <2>4 DEF TasksTyped, u
    <2> HIDE DEF t, g, u, v
    <2>7. \A o \in Object : g \notin counter[o]
        BY <2>1, <2>2 DEF CountsOK
    <2>8. GammaOK(own)' /\ ClosersOK(own)' /\ JobsOK(own)' /\ LoadsOK' /\ LiveOK'
        BY <2>3 DEF EngineInv, GammaOK, ClosersOK, JobsOK, LoadsOK, LiveOK
    <2>9. TasksOK(own)'
        BY <2>1, <2>3, <2>5, <2>6 DEF TasksOK
    <2>10. CountsOK'
        <3> SUFFICES ASSUME NEW x \in Task, NEW o \in Object, x \in counter'[o]
                     PROVE  task'[x].obj = o /\ task'[x].pc \notin {"idle", "start"}
            BY DEF CountsOK
        <3> QED BY <2>1, <2>3, <2>5, <2>6, <2>7 DEF CountsOK
    <2>11. UsesOK'
        <3> SUFFICES ASSUME NEW x \in Task, task'[x].pc = "using",
                            x \in counter'[task'[x].obj], task'[x].ptr # 0
                     PROVE  /\ task'[x].ptr \in live
                            /\ \A c \in closers : c.pc = "delete" => c.ptr # task'[x].ptr
            BY <2>3 DEF UsesOK
        <3>1. task'[x] = task[x]
            BY <2>5, <2>6
        <3> QED BY <2>3, <3>1 DEF UsesOK
    <2> QED BY <2>8, <2>9, <2>10, <2>11 DEF EngineInv
<1> QED BY <1>1, <1>2, <1>3, <1>4, <1>5 DEF Request, TaskStep

\* a step of one job that neither opens nor closes an engine keeps the
\* invariant if that job keeps it
LEMMA OneJob ==
    ASSUME Placed, NEW own \in [Object -> Object], EngineInv(own), NEW w \in Workers,
           live \subseteq Object,
           UNCHANGED <<gamma, live, made, closers, task>>,
           \A x \in Task, o \in Object : x \in counter'[o] <=> x \in counter[o],
           \A v \in Workers \ {w} : job'[v] = job[v],
           job'[w].pc # "loading",
           job'[w].ptr # 0 => job'[w].ptr <= made /\ own[job'[w].ptr] = job'[w].obj,
           job'[w].pc = "nil" => job'[w].ptr \in {0, gamma[job'[w].obj]} /\ job'[w].obj \in Object
    PROVE  EngineInv(own)'
<1> HIDE DEF Object, Pointer
<1>1. GammaOK(own)' /\ ClosersOK(own)' /\ TasksOK(own)' /\ LiveOK'
    BY DEF EngineInv, GammaOK, ClosersOK, TasksOK, LiveOK
<1>2. JobsOK(own)'
    <2> SUFFICES ASSUME NEW v \in Workers, job'[v].ptr # 0
                 PROVE  job'[v].ptr <= made /\ own[job'[v].ptr] = job'[v].obj
        BY DEF JobsOK
    <2> QED BY DEF EngineInv, JobsOK
<1>3. LoadsOK'
    <2> SUFFICES ASSUME NEW u \in Workers, job'[u].pc = "loading"
                 PROVE  /\ job'[u].ptr \in live /\ \A c \in closers : c.ptr # job'[u].ptr
                        /\ \A o \in Object : gamma[o] # job'[u].ptr
                        /\ \A v \in Workers \ {u} : job'[v].pc \in {"nil", "loading"} =>
                              job'[v].ptr # job'[u].ptr
        BY DEF LoadsOK
    <2>1. u # w /\ job'[u] = job[u]
        OBVIOUS
    <2>2. /\ job[u].ptr \in live /\ \A c \in closers : c.ptr # job[u].ptr
          /\ \A o \in Object : gamma[o] # job[u].ptr
          /\ \A v \in Workers \ {u} : job[v].pc \in {"nil", "loading"} => job[v].ptr # job[u].ptr
        BY <2>1 DEF EngineInv, LoadsOK
    <2>3. job[u].ptr # 0
        BY <2>2 DEF Object
    <2> QED BY <2>1, <2>2, <2>3
<1>4. CountsOK'
    BY DEF EngineInv, CountsOK
<1>5. UsesOK'
    BY DEF EngineInv, UsesOK, Placed
<1> QED BY <1>1, <1>2, <1>3, <1>4, <1>5 DEF EngineInv

\* the goroutines of Close keep the invariant: the counter they have seen at
\* zero covers every counted request that holds their engine
LEMMA CloserInvStep ==
    ASSUME TypeOK, Placed, NEW own \in [Object -> Object], EngineInv(own), CloserStep
    PROVE  EngineInv(own)'
<1> HIDE DEF Object, Pointer
<1> GammaOK(own) /\ ClosersOK(own) /\ JobsOK(own) /\ TasksOK(own) /\ LoadsOK /\ CountsOK /\ UsesOK /\ LiveOK
    BY DEF EngineInv
<1>1. ASSUME NEW c \in closers, CloserWaits(c)
      PROVE  EngineInv(own)'
    <2> DEFINE d == [c EXCEPT !.pc = "delete"]
    <2>1. d.pc = "delete" /\ d.ptr = c.ptr /\ d.obj = c.obj /\ c.obj \in Object
        BY DEF TypeOK, Closer
    <2>2. closers' = (closers \ {c}) \cup {d} /\ counter[c.obj] = {}
        BY <1>1 DEF CloserWaits
    <2>3. UNCHANGED <<engine, gamma, counter, live, made, task, job>>
        BY <1>1 DEF CloserWaits
    <2> HIDE DEF d
    <2>4. GammaOK(own)' /\ JobsOK(own)' /\ TasksOK(own)' /\ CountsOK' /\ LiveOK'
        BY <2>3 DEF GammaOK, JobsOK, TasksOK, CountsOK, LiveOK
    <2>5. ClosersOK(own)'
        BY <2>1, <2>2, <2>3 DEF ClosersOK
    <2>6. LoadsOK'
        BY <2>1, <2>2, <2>3 DEF LoadsOK
    <2>7. UsesOK'
        <3> SUFFICES ASSUME NEW x \in Task, task[x].pc = "using",
                            x \in counter[task[x].obj], task[x].ptr # 0,
                            NEW e \in closers', e.pc = "delete"
                     PROVE  task[x].ptr \in live /\ e.ptr # task[x].ptr
            BY <2>3 DEF UsesOK
        <3>1. own[task[x].ptr] = task[x].obj /\ own[c.ptr] = c.obj
            BY DEF TasksOK, ClosersOK
        <3>2. task[x].ptr # c.ptr
            BY <2>2, <3>1
        <3> QED BY <2>1, <2>2, <3>2 DEF UsesOK
    <2> QED BY <2>4, <2>5, <2>6, <2>7 DEF EngineInv
<1>2. ASSUME NEW c \in closers, CloserDeletes(c)
      PROVE  EngineInv(own)'
    <2>1. /\ closers' = closers \ {c} /\ live' = live \ {c.ptr} /\ c.pc = "delete"
          /\ UNCHANGED <<engine, gamma, counter, made, task, job>>
        BY <1>2 DEF CloserDeletes
    <2>2. JobsOK(own)' /\ TasksOK(own)' /\ CountsOK' /\ LiveOK' /\ ClosersOK(own)'
        BY <2>1 DEF JobsOK, TasksOK, CountsOK, LiveOK, ClosersOK
    <2>3. GammaOK(own)'
        BY <2>1 DEF GammaOK, ClosersOK
    <2>4. LoadsOK'
        BY <2>1 DEF LoadsOK
    <2>5. UsesOK'
        <3> SUFFICES ASSUME NEW x \in Task, task[x].pc = "using",
                            x \in counter[task[x].obj], task[x].ptr # 0
                     PROVE  /\ task[x].ptr \in live \ {c.ptr}
                            /\ \A e \in closers \ {c} : e.pc = "delete" => e.ptr # task[x].ptr
            BY <2>1 DEF UsesOK
        <3> QED BY <2>1 DEF UsesOK
    <2> QED BY <2>2, <2>3, <2>4, <2>5 DEF EngineInv
<1> QED BY <1>1, <1>2 DEF CloserStep

-----------------------------------------------------------------------------
(* The steps of the jobs.                                                  *)

\* Close and the steps of a job around it keep the invariant
LEMMA CloseInvStep ==
    ASSUME TypeOK, Placed, NEW own \in [Object -> Object], EngineInv(own), NEW w \in Workers,
           \/ \E k \in JobKinds : CloseRead(w, k)
           \/ CloseNil(w) \/ HasClosed(w) \/ TimeOut(w) \/ Files(w) \/ FilesFail(w)
           \/ LoadReturns(w) \/ LoadFails(w) \/ LoadPointer(w)
    PROVE  EngineInv(own)'
<1> JobsTyped /\ TasksTyped
    BY TypeSplit
<1> live \subseteq Object
    BY DEF TypeOK
<1> GammaOK(own) /\ ClosersOK(own) /\ JobsOK(own) /\ TasksOK(own) /\ LoadsOK /\ CountsOK /\ UsesOK /\ LiveOK
    BY DEF EngineInv
<1>z. job[w] \in JobState /\ 0 \notin Object
    BY DEF JobsTyped, Object
<1> HIDE DEF Object, Pointer
<1>1. ASSUME NEW k \in JobKinds, CloseRead(w, k)
      PROVE  EngineInv(own)'
    <2> DEFINE v == [pc |-> "nil", kind |-> k, obj |-> engine, ptr |-> gamma[engine]]
    <2>1. /\ job' = [job EXCEPT ![w] = v]
          /\ UNCHANGED <<gamma, live, made, closers, task, counter>>
        BY <1>1 DEF CloseRead
    <2>2. v.pc = "nil" /\ v.obj = engine /\ v.ptr = gamma[engine]
        OBVIOUS
    <2> HIDE DEF v
    <2>3. job'[w] = v /\ \A x \in Workers \ {w} : job'[x] = job[x]
        BY <2>1 DEF JobsTyped
    <2>4. engine \in Object
        BY <1>1 DEF CloseRead, JobsTyped, Object, Pointer
    <2>5. v.ptr # 0 => v.ptr <= made /\ own[v.ptr] = v.obj
        BY <2>2, <2>4 DEF GammaOK
    <2> QED BY <2>1, <2>2, <2>3, <2>4, <2>5, OneJob
<1>2. ASSUME HasClosed(w) \/ TimeOut(w) \/ Files(w) \/ FilesFail(w)
      PROVE  EngineInv(own)'
    <2>1. UNCHANGED <<gamma, live, made, closers, task, counter>>
        BY <1>2 DEF HasClosed, TimeOut, Files, FilesFail
    <2>2. \A x \in Workers \ {w} : job'[x] = job[x]
        BY <1>2 DEF HasClosed, TimeOut, Files, FilesFail, JobsTyped
    <2>3. /\ job'[w].pc \notin {"loading", "nil"}
          /\ job'[w].ptr # 0 => job'[w].ptr = job[w].ptr /\ job'[w].obj = job[w].obj
        <3>1. Idle.pc = "idle" /\ Idle.ptr = 0
            BY DEF Idle
        <3>2. \/ job' = [job EXCEPT ![w] = Idle]
              \/ \E p \in {"files", "load", "build", "gone"} : job' = [job EXCEPT ![w].pc = p]
            BY <1>2 DEF HasClosed, TimeOut, Files, FilesFail
        <3> QED BY <1>z, <3>1, <3>2 DEF JobsTyped, JobState
    <2>4. job'[w].ptr # 0 => job'[w].ptr <= made /\ own[job'[w].ptr] = job'[w].obj
        BY <2>3 DEF JobsOK
    <2> QED BY Zenon, <2>1, <2>2, <2>3, <2>4, OneJob
<1>3. ASSUME LoadReturns(w)
      PROVE  EngineInv(own)'
    <2>1. /\ job' = [job EXCEPT ![w] = Idle]
          /\ counter' = [counter EXCEPT ![job[w].obj] = @ \ {<<w, "load">>}]
          /\ UNCHANGED <<gamma, live, made, closers, task>>
        BY <1>3 DEF LoadReturns
    <2>2. Idle.pc = "idle" /\ Idle.ptr = 0
        BY DEF Idle
    <2>3. job'[w] = Idle /\ \A x \in Workers \ {w} : job'[x] = job[x]
        BY <2>1 DEF JobsTyped
    <2>4. \A x \in Task, o \in Object : x \in counter'[o] <=> x \in counter[o]
        BY <2>1, CountingFacts DEF TasksTyped
    <2> QED BY <2>1, <2>2, <2>3, <2>4, OneJob
<1>4. ASSUME CloseNil(w)
      PROVE  EngineInv(own)'
    <2> DEFINE d == [by |-> w, obj |-> job[w].obj, ptr |-> job[w].ptr, pc |-> "wait"]
    <2>1. /\ d.pc = "wait" /\ d.ptr = job[w].ptr /\ d.obj = job[w].obj
          /\ job[w].pc = "nil" /\ job[w].obj \in Object
        BY <1>4 DEF CloseNil, Placed
    <2>2. /\ closers' = closers \cup (IF job[w].ptr = 0 THEN {} ELSE {d})
          /\ gamma' = [gamma EXCEPT ![job[w].obj] = 0]
          /\ UNCHANGED <<counter, live, made, task>>
        BY <1>4 DEF CloseNil, CloserOf
    <2> HIDE DEF d
    <2>3. /\ job'[w].pc = "wait" /\ job'[w].ptr = 0
          /\ \A v \in Workers \ {w} : job'[v] = job[v]
        BY <1>4, <1>z DEF CloseNil, JobsTyped, JobState
    <2>4. \A o \in Object : gamma'[o] = IF o = job[w].obj THEN 0 ELSE gamma[o]
        BY Zenon, <2>1, <2>2 DEF JobsTyped
    <2>5. GammaOK(own)' /\ TasksOK(own)' /\ CountsOK' /\ LiveOK'
        BY <2>2, <2>4 DEF GammaOK, TasksOK, CountsOK, LiveOK
    <2>6. JobsOK(own)'
        BY Zenon, <2>2, <2>3 DEF JobsOK
    <2>7. ClosersOK(own)'
        <3> SUFFICES ASSUME NEW c \in closers'
                     PROVE  c.ptr <= made /\ own[c.ptr] = c.obj /\ gamma'[c.obj] # c.ptr
            BY <2>2 DEF ClosersOK
        <3>1. CASE c \in closers
            <4>1. c.obj \in Object /\ c.ptr \in Object
                BY <3>1 DEF JobsTyped, Closer
            <4> QED BY <1>z, <2>4, <3>1, <4>1 DEF ClosersOK
        <3>2. CASE c = d /\ job[w].ptr # 0
            BY Zenon, <2>1, <2>4, <3>2 DEF JobsOK
        <3> QED BY <2>2, <3>1, <3>2
    <2>8. LoadsOK'
        <3> SUFFICES ASSUME NEW u \in Workers, job'[u].pc = "loading"
                     PROVE  /\ job'[u].ptr \in live /\ \A c \in closers' : c.ptr # job'[u].ptr
                            /\ \A o \in Object : gamma'[o] # job'[u].ptr
                            /\ \A v \in Workers \ {u} : job'[v].pc \in {"nil", "loading"} =>
                                  job'[v].ptr # job'[u].ptr
            BY Zenon, <2>2 DEF LoadsOK
        <3>1. u # w /\ job'[u] = job[u]
            BY Zenon, <2>3
        <3>2. /\ job[u].ptr \in live /\ \A c \in closers : c.ptr # job[u].ptr
              /\ \A o \in Object : gamma[o] # job[u].ptr
              /\ \A v \in Workers \ {u} : job[v].pc \in {"nil", "loading"} => job[v].ptr # job[u].ptr
            BY Zenon, <3>1 DEF LoadsOK
        <3>3. job'[u].ptr \in live /\ job'[u].ptr # 0
            BY <1>z, <3>1, <3>2, Zenon
        <3>4. \A c \in closers' : c.ptr # job'[u].ptr
            BY <2>1, <2>2, <3>1, <3>2, Zenon
        <3>5. \A o \in Object : gamma'[o] # job'[u].ptr
            BY Zenon, <2>4, <3>1, <3>2, <3>3
        <3>6. \A v \in Workers \ {u} : job'[v].pc \in {"nil", "loading"} =>
                  job'[v].ptr # job'[u].ptr
            BY Zenon, <2>3, <3>1, <3>2
        <3> QED BY <3>3, <3>4, <3>5, <3>6
    <2>9. UsesOK'
        BY Zenon, <2>1, <2>2 DEF UsesOK
    <2> QED BY <2>5, <2>6, <2>7, <2>8, <2>9 DEF EngineInv
<1>5. ASSUME LoadFails(w)
      PROVE  EngineInv(own)'
    <2> DEFINE o0 == job[w].obj
               d == [by |-> w, obj |-> o0, ptr |-> gamma[o0], pc |-> "wait"]
    <2>1. /\ d.pc = "wait" /\ d.ptr = gamma[o0] /\ d.obj = o0
          /\ job[w].pc = "loading" /\ o0 \in Object
        BY Zenon, <1>5 DEF LoadFails, Placed
    <2>2. /\ closers' = IF gamma[o0] = 0 THEN closers ELSE closers \cup {d}
          /\ gamma' = [gamma EXCEPT ![o0] = 0]
          /\ counter' = [counter EXCEPT ![o0] = @ \ {<<w, "load">>}]
          /\ job' = [job EXCEPT ![w] = Idle]
          /\ UNCHANGED <<live, made, task>>
        BY <1>5 DEF LoadFails
    <2> HIDE DEF d, o0
    <2>3. /\ job'[w].pc = "idle" /\ job'[w].ptr = 0
          /\ \A v \in Workers \ {w} : job'[v] = job[v]
        BY <2>2 DEF JobsTyped, Idle
    <2>4. \A o \in Object : gamma'[o] = IF o = o0 THEN 0 ELSE gamma[o]
        BY <2>1, <2>2 DEF JobsTyped
    <2>5. \A x \in Task, o \in Object : x \in counter'[o] <=> x \in counter[o]
        BY <2>2, CountingFacts DEF TasksTyped
    <2>6. GammaOK(own)' /\ TasksOK(own)' /\ CountsOK' /\ LiveOK'
        <3>1. GammaOK(own)' /\ LiveOK'
            BY <2>2, <2>4 DEF GammaOK, LiveOK
        <3>2. TasksOK(own)' /\ CountsOK'
            BY <2>2, <2>5 DEF TasksOK, CountsOK
        <3> QED BY <3>1, <3>2
    <2>7. JobsOK(own)'
        BY Zenon, <2>2, <2>3 DEF JobsOK
    <2>8. ClosersOK(own)'
        <3> SUFFICES ASSUME NEW c \in closers'
                     PROVE  c.ptr <= made /\ own[c.ptr] = c.obj /\ gamma'[c.obj] # c.ptr
            BY <2>2 DEF ClosersOK
        <3>1. CASE c \in closers
            <4>1. c.obj \in Object /\ c.ptr \in Object
                BY <3>1 DEF JobsTyped, Closer
            <4> QED BY <1>z, <2>4, <3>1, <4>1 DEF ClosersOK
        <3>2. CASE c = d /\ gamma[o0] # 0
            BY Zenon, <2>1, <2>4, <3>2 DEF GammaOK
        <3> QED BY <2>2, <3>1, <3>2
    <2>9. LoadsOK'
        <3> SUFFICES ASSUME NEW u \in Workers, job'[u].pc = "loading"
                     PROVE  /\ job'[u].ptr \in live /\ \A c \in closers' : c.ptr # job'[u].ptr
                            /\ \A o \in Object : gamma'[o] # job'[u].ptr
                            /\ \A v \in Workers \ {u} : job'[v].pc \in {"nil", "loading"} =>
                                  job'[v].ptr # job'[u].ptr
            BY Zenon, <2>2 DEF LoadsOK
        <3>1. u # w /\ job'[u] = job[u]
            BY Zenon, <2>3
        <3>2. /\ job[u].ptr \in live /\ \A c \in closers : c.ptr # job[u].ptr
              /\ \A o \in Object : gamma[o] # job[u].ptr
              /\ \A v \in Workers \ {u} : job[v].pc \in {"nil", "loading"} => job[v].ptr # job[u].ptr
            BY Zenon, <3>1 DEF LoadsOK
        <3>3. job'[u].ptr \in live /\ job'[u].ptr # 0
            BY <1>z, <3>1, <3>2, Zenon
        <3>4. \A c \in closers' : c.ptr # job'[u].ptr
            BY <2>1, <2>2, <3>1, <3>2
        <3>5. \A o \in Object : gamma'[o] # job'[u].ptr
            BY Zenon, <2>4, <3>1, <3>2, <3>3
        <3>6. \A v \in Workers \ {u} : job'[v].pc \in {"nil", "loading"} =>
                  job'[v].ptr # job'[u].ptr
            BY Zenon, <2>3, <3>1, <3>2
        <3> QED BY <3>3, <3>4, <3>5, <3>6
    <2>10. UsesOK'
        <3> SUFFICES ASSUME NEW x \in Task, task[x].pc = "using",
                            x \in counter'[task[x].obj], task[x].ptr # 0
                     PROVE  /\ task[x].ptr \in live
                            /\ \A c \in closers' : c.pc = "delete" => c.ptr # task[x].ptr
            BY <2>2 DEF UsesOK
        <3>1. x \in counter[task[x].obj]
            BY Zenon, <2>5 DEF Placed
        <3> QED BY Zenon, <2>1, <2>2, <3>1 DEF UsesOK
    <2> QED BY <2>6, <2>7, <2>8, <2>9, <2>10 DEF EngineInv
<1>6. ASSUME LoadPointer(w)
      PROVE  EngineInv(own)'
    <2>1. /\ job[w].pc = "loading" /\ job[w].obj \in Object
          /\ gamma' = [gamma EXCEPT ![job[w].obj] = job[w].ptr]
          /\ UNCHANGED <<counter, live, made, task, closers>>
        BY <1>6 DEF LoadPointer, Placed
    <2>2. /\ job'[w].pc = "loaded" /\ job'[w].ptr = job[w].ptr /\ job'[w].obj = job[w].obj
          /\ \A v \in Workers \ {w} : job'[v] = job[v]
        BY <1>6, <1>z DEF LoadPointer, JobsTyped, JobState
    <2>3. \A o \in Object : gamma'[o] = IF o = job[w].obj THEN job[w].ptr ELSE gamma[o]
        BY <2>1 DEF JobsTyped
    <2>4. /\ job[w].ptr \in live /\ \A c \in closers : c.ptr # job[w].ptr
          /\ \A v \in Workers \ {w} : job[v].pc \in {"nil", "loading"} => job[v].ptr # job[w].ptr
        BY Zenon, <2>1 DEF LoadsOK
    <2>5. TasksOK(own)' /\ CountsOK' /\ LiveOK' /\ UsesOK'
        BY Zenon, <2>1 DEF TasksOK, CountsOK, LiveOK, UsesOK
    <2>6. JobsOK(own)'
        BY Zenon, <2>1, <2>2 DEF JobsOK
    <2>7. GammaOK(own)'
        <3> SUFFICES ASSUME NEW o \in Object, gamma'[o] # 0
                     PROVE  gamma'[o] <= made /\ own[gamma'[o]] = o /\ gamma'[o] \in live
            BY <2>1 DEF GammaOK
        <3>1. CASE o = job[w].obj
            <4>1. gamma'[o] = job[w].ptr
                BY <2>3, <3>1, Zenon
            <4> QED BY <2>4, <3>1, <4>1, Zenon DEF JobsOK
        <3>2. CASE o # job[w].obj
            <4>1. gamma'[o] = gamma[o]
                BY <2>3, <3>2
            <4> QED BY <4>1 DEF GammaOK
        <3> QED BY <3>1, <3>2, Zenon
    <2>8. ClosersOK(own)'
        <3> SUFFICES ASSUME NEW c \in closers
                     PROVE  c.ptr <= made /\ own[c.ptr] = c.obj /\ gamma'[c.obj] # c.ptr
            BY Zenon, <2>1 DEF ClosersOK
        <3>1. c.obj \in Object
            BY DEF JobsTyped, Closer
        <3> QED BY Zenon, <2>3, <2>4, <3>1 DEF ClosersOK
    <2>9. LoadsOK'
        <3> SUFFICES ASSUME NEW u \in Workers, job'[u].pc = "loading"
                     PROVE  /\ job'[u].ptr \in live /\ \A c \in closers : c.ptr # job'[u].ptr
                            /\ \A o \in Object : gamma'[o] # job'[u].ptr
                            /\ \A v \in Workers \ {u} : job'[v].pc \in {"nil", "loading"} =>
                                  job'[v].ptr # job'[u].ptr
            BY Zenon, <2>1 DEF LoadsOK
        <3>1. u # w /\ job'[u] = job[u]
            BY <2>2
        <3>2. /\ job[u].ptr \in live /\ \A c \in closers : c.ptr # job[u].ptr
              /\ \A o \in Object : gamma[o] # job[u].ptr
              /\ \A v \in Workers \ {u} : job[v].pc \in {"nil", "loading"} => job[v].ptr # job[u].ptr
            BY <3>1 DEF LoadsOK
        <3> QED BY Zenon, <2>2, <2>3, <2>4, <3>1, <3>2
    <2> QED BY <2>5, <2>6, <2>7, <2>8, <2>9 DEF EngineInv
<1> QED BY <1>1, <1>2, <1>3, <1>4, <1>5, <1>6

\* a new C++ engine is given to an object: what is known of the others stays
LEMMA NewEngine ==
    ASSUME TypeOK, NEW own \in [Object -> Object], EngineInv(own),
           NEW o0 \in Object, made < MaxEngines
    PROVE  /\ made + 1 \in Object /\ made + 1 \notin live
           /\ \E new \in [Object -> Object] :
                 /\ new[made + 1] = o0
                 /\ \A i \in Object : i <= made =>
                        new[i] = own[i] /\ i <= made + 1 /\ i # made + 1
           /\ \A o \in Object : gamma[o] # made + 1
           /\ \A c \in closers : c.ptr # made + 1
           /\ \A w \in Workers : job[w].ptr # made + 1
           /\ \A t \in Task : task[t].ptr # made + 1
<1> USE GammaEngineAssumption
<1> DEFINE new == [own EXCEPT ![made + 1] = o0]
<1>1. made \in Object /\ made + 1 \in Object
    BY DEF TypeOK
<1>2. made + 1 \notin live
    BY <1>1 DEF EngineInv, LiveOK
<1>3. new \in [Object -> Object] /\ new[made + 1] = o0
    BY <1>1
<1>4. \A i \in Object : i <= made => new[i] = own[i] /\ i <= made + 1 /\ i # made + 1
    BY <1>1
<1>a. ~(made + 1 <= made) /\ made + 1 # 0
    BY <1>1
<1> HIDE DEF Object, Pointer
<1>5. \A o \in Object : gamma[o] # made + 1
    BY <1>a DEF EngineInv, GammaOK
<1>6. \A c \in closers : c.ptr # made + 1
    BY <1>a DEF EngineInv, ClosersOK
<1>7. \A w \in Workers : job[w].ptr # made + 1
    BY <1>a DEF EngineInv, JobsOK
<1>8. \A t \in Task : task[t].ptr # made + 1
    BY <1>a DEF EngineInv, TasksOK
<1> QED BY Zenon, <1>1, <1>2, <1>3, <1>4, <1>5, <1>6, <1>7, <1>8

\* Load and ReBuildEngine keep the invariant: the new engine is nobody else's
LEMMA OpenInvStep ==
    ASSUME TypeOK, Placed, NEW own \in [Object -> Object], EngineInv(own), NEW w \in Workers,
           Load(w) \/ ReBuildEngine(w)
    PROVE  \E new \in [Object -> Object] : EngineInv(new)'
<1> JobsTyped /\ TasksTyped
    BY TypeSplit
<1> GammaOK(own) /\ ClosersOK(own) /\ JobsOK(own) /\ TasksOK(own) /\ LoadsOK /\ CountsOK /\ UsesOK /\ LiveOK
    BY DEF EngineInv
<1>z. /\ job[w] \in JobState /\ 0 \notin Object /\ live \subseteq Object
      /\ \A x \in Pointer : x # 0 => x \in Object
      /\ \A o \in Object : gamma[o] \in Pointer
      /\ \A v \in Workers : job[v].ptr \in Pointer
      /\ \A t \in Task : task[t].ptr \in Pointer
      /\ \A c \in closers : c.ptr \in Object /\ c.obj \in Object
    <2>1. job[w] \in JobState /\ \A v \in Workers : job[v].ptr \in Pointer
        BY DEF JobsTyped, JobState
    <2>2. \A t \in Task : task[t].ptr \in Pointer
        BY DEF TasksTyped, TaskState
    <2>3. \A c \in closers : c.ptr \in Object /\ c.obj \in Object
        BY DEF JobsTyped, Closer
    <2>4. 0 \notin Object /\ \A x \in Pointer : x # 0 => x \in Object
        BY GammaEngineAssumption
    <2>5. live \subseteq Object /\ \A o \in Object : gamma[o] \in Pointer
        BY DEF JobsTyped
    <2> HIDE DEF Object, Pointer
    <2> QED BY <2>1, <2>2, <2>3, <2>4, <2>5
<1>1. ASSUME Load(w)
      PROVE  \E new \in [Object -> Object] : EngineInv(new)'
    <2> DEFINE n == made + 1
               o0 == job[w].obj
    <2>1. /\ job[w].pc = "load" /\ o0 \in Object /\ made < MaxEngines
          /\ made' = n /\ live' = live \cup {n}
          /\ counter' = [counter EXCEPT ![o0] = @ \cup {<<w, "load">>}]
          /\ job' = [job EXCEPT ![w].pc = "loading", ![w].ptr = n]
          /\ UNCHANGED <<gamma, task, closers>>
        BY <1>1 DEF Load, Placed
    <2>2. /\ n \in Object /\ n \notin live
          /\ \A o \in Object : gamma[o] # n
          /\ \A c \in closers : c.ptr # n
          /\ \A v \in Workers : job[v].ptr # n
          /\ \A t \in Task : task[t].ptr # n
        BY Zenon, <2>1, NewEngine
    <2>w. PICK new \in [Object -> Object] :
              /\ new[n] = o0
              /\ \A i \in Object : i <= made => new[i] = own[i] /\ i <= n /\ i # n
        BY Zenon, <2>1, NewEngine
    <2>n. n <= n /\ n # 0
        BY GammaEngineAssumption DEF JobsTyped
    <2> HIDE DEF n, o0, Object, Pointer
    <2>3. /\ job'[w].pc = "loading" /\ job'[w].ptr = n /\ job'[w].obj = o0
          /\ \A v \in Workers \ {w} : job'[v] = job[v]
        BY <1>z, <2>1 DEF JobsTyped, JobState, o0
    <2>4. \A x \in Task, o \in Object : x \in counter'[o] <=> x \in counter[o]
        BY <2>1, CountingFacts DEF TasksTyped
    <2>5. GammaOK(new)'
        BY <1>z, <2>1, <2>2, <2>w DEF GammaOK
    <2>6. ClosersOK(new)'
        BY <1>z, <2>1, <2>2, <2>w DEF ClosersOK
    <2>7. JobsOK(new)'
        <3> SUFFICES ASSUME NEW v \in Workers, job'[v].ptr # 0
                     PROVE  job'[v].ptr <= n /\ new[job'[v].ptr] = job'[v].obj
            BY Zenon, <2>1 DEF JobsOK
        <3>1. CASE v = w
            BY <2>2, <2>w, <2>3, <2>n, <3>1
        <3>2. CASE v # w
            <4>1. job'[v] = job[v]
                BY <2>3, <3>2
            <4>2. job[v].ptr \in Object /\ job[v].ptr <= made /\ own[job[v].ptr] = job[v].obj
                BY <1>z, <4>1 DEF JobsOK
            <4> QED BY <2>w, <4>1, <4>2
        <3> QED BY <3>1, <3>2
    <2>8. TasksOK(new)'
        BY <1>z, <2>1, <2>2, <2>w DEF TasksOK
    <2>9. LoadsOK'
        <3> SUFFICES ASSUME NEW u \in Workers, job'[u].pc = "loading"
                     PROVE  /\ job'[u].ptr \in live' /\ \A c \in closers : c.ptr # job'[u].ptr
                            /\ \A o \in Object : gamma[o] # job'[u].ptr
                            /\ \A v \in Workers \ {u} : job'[v].pc \in {"nil", "loading"} =>
                                  job'[v].ptr # job'[u].ptr
            BY Zenon, <2>1 DEF LoadsOK
        <3>0. live' = live \cup {n}
            BY <2>1
        <3>1. CASE u = w
            BY <2>2, <2>3, <3>0, <3>1
        <3>2. CASE u # w
            <4>1. job'[u] = job[u]
                BY <2>3, <3>2
            <4>2. /\ job[u].ptr \in live /\ \A c \in closers : c.ptr # job[u].ptr
                  /\ \A o \in Object : gamma[o] # job[u].ptr
                  /\ \A v \in Workers \ {u} : job[v].pc \in {"nil", "loading"} =>
                        job[v].ptr # job[u].ptr
                BY <4>1 DEF LoadsOK
            <4> QED BY <2>2, <2>3, <3>0, <3>2, <4>1, <4>2
        <3> QED BY <3>1, <3>2
    <2>10. CountsOK'
        BY <2>1, <2>4 DEF CountsOK
    <2>11. UsesOK'
        <3> SUFFICES ASSUME NEW x \in Task, task[x].pc = "using",
                            x \in counter'[task[x].obj], task[x].ptr # 0
                     PROVE  /\ task[x].ptr \in live'
                            /\ \A c \in closers : c.pc = "delete" => c.ptr # task[x].ptr
            BY <2>1 DEF UsesOK
        <3>1. x \in counter[task[x].obj]
            BY <2>4 DEF Placed
        <3> QED BY <2>1, <3>1 DEF UsesOK
    <2>12. LiveOK'
        BY <1>z, <2>1, <2>2, <2>w, <2>n DEF LiveOK
    <2> QED BY <2>2, <2>w, <2>5, <2>6, <2>7, <2>8, <2>9, <2>10, <2>11, <2>12 DEF EngineInv
<1>2. ASSUME ReBuildEngine(w), made' # made + 1
      PROVE  \E new \in [Object -> Object] : EngineInv(new)'
    <2>1. /\ job' = [job EXCEPT ![w] = Idle]
          /\ UNCHANGED <<gamma, live, made, closers, task, counter>>
        BY <1>2 DEF ReBuildEngine
    <2>2. Idle.pc = "idle" /\ Idle.ptr = 0
        BY DEF Idle
    <2>3. job'[w] = Idle /\ \A x \in Workers \ {w} : job'[x] = job[x]
        BY <2>1 DEF JobsTyped
    <2>4. EngineInv(own)'
        BY <1>z, <2>1, <2>2, <2>3, OneJob
    <2> QED BY <2>4
<1>3. ASSUME ReBuildEngine(w), made' = made + 1
      PROVE  \E new \in [Object -> Object] : EngineInv(new)'
    <2> DEFINE n == made + 1
    <2>0. made # made + 1
        BY GammaEngineAssumption DEF JobsTyped
    <2>1. /\ made < MaxEngines
          /\ made' = n /\ live' = live \cup {n}
          /\ gamma' = [gamma EXCEPT ![n] = n]
          /\ job' = [job EXCEPT ![w] = Idle]
          /\ UNCHANGED <<counter, task, closers>>
        BY <1>3, <2>0 DEF ReBuildEngine
    <2>a. n \in Object
        BY <2>1, GammaEngineAssumption DEF JobsTyped
    <2>2. /\ n \notin live
          /\ \A o \in Object : gamma[o] # n
          /\ \A c \in closers : c.ptr # n
          /\ \A v \in Workers : job[v].ptr # n
          /\ \A t \in Task : task[t].ptr # n
        BY Zenon, <2>a, <2>1, NewEngine
    <2>w. PICK new \in [Object -> Object] :
              /\ new[n] = n
              /\ \A i \in Object : i <= made => new[i] = own[i] /\ i <= n /\ i # n
        BY Zenon, <2>a, <2>1, NewEngine
    <2>n. n <= n /\ n # 0
        BY GammaEngineAssumption DEF JobsTyped
    <2> HIDE DEF n, Object, Pointer
    <2>3. /\ job'[w].pc = "idle" /\ job'[w].ptr = 0
          /\ \A v \in Workers \ {w} : job'[v] = job[v]
        BY <2>1 DEF JobsTyped, Idle
    <2>4. \A o \in Object : gamma'[o] = IF o = n THEN n ELSE gamma[o]
        BY <2>1, <2>a DEF JobsTyped
    <2>5. GammaOK(new)'
        <3> SUFFICES ASSUME NEW o \in Object, gamma'[o] # 0
                     PROVE  gamma'[o] <= n /\ new[gamma'[o]] = o /\ gamma'[o] \in live'
            BY <2>1 DEF GammaOK
        <3>1. CASE o = n
            BY <2>1, <2>2, <2>w, <2>4, <2>n, <3>1
        <3>2. CASE o # n
            BY <1>z, <2>1, <2>2, <2>w, <2>4, <3>2 DEF GammaOK
        <3> QED BY <3>1, <3>2
    <2>6. ClosersOK(new)'
        <3> SUFFICES ASSUME NEW c \in closers
                     PROVE  c.ptr <= n /\ new[c.ptr] = c.obj /\ gamma'[c.obj] # c.ptr
            BY Zenon, <2>1 DEF ClosersOK
        <3>1. /\ c.ptr \in Object /\ c.obj \in Object /\ c.ptr # n
              /\ c.ptr <= made /\ own[c.ptr] = c.obj /\ gamma[c.obj] # c.ptr
            BY Zenon, <1>z, <2>2 DEF ClosersOK
        <3>2. c.ptr <= n /\ new[c.ptr] = c.obj
            BY Zenon, <2>w, <3>1
        <3>3. gamma'[c.obj] # c.ptr
            BY <2>4, <3>1
        <3> QED BY Zenon, <3>2, <3>3
    <2>7. JobsOK(new)'
        <3> SUFFICES ASSUME NEW v \in Workers, job'[v].ptr # 0
                     PROVE  job'[v].ptr <= n /\ new[job'[v].ptr] = job'[v].obj
            BY Zenon, <2>1 DEF JobsOK
        <3>1. v # w /\ job'[v] = job[v]
            BY <2>3, Zenon
        <3>2. job[v].ptr \in Object /\ job[v].ptr <= made /\ own[job[v].ptr] = job[v].obj
            BY <1>z, <3>1, Zenon DEF JobsOK
        <3> QED BY Zenon, <2>w, <3>1, <3>2
    <2>8. TasksOK(new)'
        <3> SUFFICES ASSUME NEW t \in Task, task[t].ptr # 0
                     PROVE  task[t].ptr <= n /\ new[task[t].ptr] = task[t].obj
            BY Zenon, <2>1 DEF TasksOK
        <3>1. task[t].ptr \in Object /\ task[t].ptr <= made /\ own[task[t].ptr] = task[t].obj
            BY Zenon, <1>z DEF TasksOK
        <3> QED BY Zenon, <2>w, <3>1
    <2>9. LoadsOK'
        <3> SUFFICES ASSUME NEW u \in Workers, job'[u].pc = "loading"
                     PROVE  /\ job'[u].ptr \in live' /\ \A c \in closers : c.ptr # job'[u].ptr
                            /\ \A o \in Object : gamma'[o] # job'[u].ptr
                            /\ \A v \in Workers \ {u} : job'[v].pc \in {"nil", "loading"} =>
                                  job'[v].ptr # job'[u].ptr
            BY Zenon, <2>1 DEF LoadsOK
        <3>1. u # w /\ job'[u] = job[u]
            BY <2>3
        <3>2. /\ job[u].ptr \in live /\ \A c \in closers : c.ptr # job[u].ptr
              /\ \A o \in Object : gamma[o] # job[u].ptr
              /\ \A v \in Workers \ {u} : job[v].pc \in {"nil", "loading"} =>
                    job[v].ptr # job[u].ptr
            BY <3>1, Zenon DEF LoadsOK
        <3>3. job'[u].ptr \in live' /\ \A c \in closers : c.ptr # job'[u].ptr
            BY <2>1, <3>1, <3>2
        <3>4. \A o \in Object : gamma'[o] # job'[u].ptr
            BY Zenon, <2>2, <2>4, <3>1, <3>2
        <3>5. \A v \in Workers \ {u} : job'[v].pc \in {"nil", "loading"} =>
                  job'[v].ptr # job'[u].ptr
            BY Zenon, <2>3, <3>1, <3>2
        <3> QED BY Zenon, <3>3, <3>4, <3>5
    <2>10. CountsOK'
        BY <2>1 DEF CountsOK
    <2>11. UsesOK'
        BY <2>1 DEF UsesOK
    <2>12. LiveOK'
        BY <1>z, <2>1, <2>2, <2>w, <2>n DEF LiveOK
    <2> QED BY Zenon, <2>2, <2>w, <2>5, <2>6, <2>7, <2>8, <2>9, <2>10, <2>11, <2>12 DEF EngineInv
<1> QED BY <1>1, <1>2, <1>3

\* a step that changes nothing keeps the invariant
LEMMA StutterInv ==
    ASSUME NEW own \in [Object -> Object], EngineInv(own), UNCHANGED vars
    PROVE  EngineInv(own)'
BY DEF vars, EngineInv, GammaOK, ClosersOK, JobsOK, TasksOK, LoadsOK, CountsOK, UsesOK, LiveOK

\* the order in Close (nil pointer first, then the counter, then the delete)
\* makes it safe for every number of requests and jobs and whatever fails or
\* times out: a goroutine that counts is never inside a deleted C++ engine
THEOREM CountedSafe == Spec => []CountedUsesLive
<1> DEFINE Inv == TypeOK /\ Placed /\ \E own \in [Object -> Object] : EngineInv(own)
<1>1. Init => Inv
    BY TypeInit, InvInit
<1>2. Inv /\ [Next]_vars => Inv'
    <2> SUFFICES ASSUME TypeOK, Placed, NEW own \in [Object -> Object], EngineInv(own),
                        [Next]_vars
                 PROVE  Inv'
        OBVIOUS
    <2>1. (TypeOK /\ Placed)'
        <3>1. CASE Request \/ TaskStep
            BY <3>1, TaskTypeStep
        <3>2. CASE CloserStep \/ \E w \in Workers : JobStep(w)
            BY <3>2, JobTypeStep
        <3>3. CASE UNCHANGED vars
            BY <3>3 DEF vars, TypeOK, Placed
        <3> QED BY <3>1, <3>2, <3>3 DEF Next
    <2>2. \E new \in [Object -> Object] : EngineInv(new)'
        <3>1. CASE Request \/ TaskStep
            BY <3>1, TaskInvStep
        <3>2. CASE CloserStep
            BY <3>2, CloserInvStep
        <3>3. ASSUME NEW w \in Workers, JobStep(w)
              PROVE  \E new \in [Object -> Object] : EngineInv(new)'
            <4>1. CASE Load(w) \/ ReBuildEngine(w)
                BY <4>1, OpenInvStep
            <4>2. CASE ~(Load(w) \/ ReBuildEngine(w))
                BY <3>3, <4>2, CloseInvStep DEF JobStep
            <4> QED BY <4>1, <4>2
        <3>4. CASE UNCHANGED vars
            BY <3>4, StutterInv
        <3> QED BY <3>1, <3>2, <3>3, <3>4 DEF Next
    <2> QED BY <2>1, <2>2
<1>3. Inv => CountedUsesLive
    BY DEF EngineInv, UsesOK, CountedUsesLive
<1> QED BY <1>1, <1>2, <1>3, PTL DEF Spec

=============================================================================
