--------------------------- MODULE MCGammaEngine ---------------------------
(* Two kinds of behaviours.  In a calm one two requests run around the     *)
(* jobs of one worker, and nothing fails or times out.  In the others two  *)
(* workers run around one request, with time-outs and failures.            *)
EXTENDS GammaEngine

CONSTANTS r1, r2, w1, w2

VARIABLE calm

AllKinds == {"write", "search", "get", "status", "commit", "build", "rebuild"}

AllJobs == {"snapshot", "restore", "shard", "destroy"}

Calm == INSTANCE GammaEngine WITH TimeOuts <- FALSE, Faults <- FALSE

OneRequest ==
    /\ job'[w2].kind \in {"none", "shard", "destroy"}
    /\ calls' <= 1
    /\ \A p \in {"call", "go"} : task'[<<r2, p>>] = Idle
    /\ task'[<<r1, "call">>].kind \in {"none", "search", "rebuild"}

OneWorker == job'[w2] = job[w2]

MCInit == Init /\ calm \in BOOLEAN

MCNext ==
    /\ UNCHANGED calm
    /\ \/ ~calm /\ Next /\ OneRequest
       \/ calm /\ Calm!Next /\ OneWorker

mcvars == <<vars, calm>>

CalmTask(t) == calm /\ UNCHANGED calm /\ (Calm!Refuse(t) \/ Calm!Check(t) \/ Calm!Reread(t) \/ Calm!StartGo(t) \/ Calm!Finish(t))
CalmSpawn(r) == calm /\ UNCHANGED calm /\ Calm!Spawn(r)
CalmCloser == calm /\ UNCHANGED calm /\ Calm!CloserStep
CalmLoad == calm /\ UNCHANGED calm /\ (Calm!LoadPointer(w1) \/ Calm!LoadReturns(w1))

\* calls into C++ return and goroutines are scheduled; a job goes on once the
\* engine has closed
MCSpec ==
    /\ MCInit /\ [][MCNext]_mcvars
    /\ \A t \in Task : WF_mcvars(CalmTask(t))
    /\ \A r \in Requests : WF_mcvars(CalmSpawn(r))
    /\ WF_mcvars(CalmCloser) /\ WF_mcvars(CalmLoad)

\* With one job at a time and no time-out, the files of a partition are
\* replaced or removed only while no C++ engine has them open (ApplySnapshot,
\* restore, startShardRestore, Destroy), no C++ engine is deleted twice or by
\* two goroutines of Close, and between jobs the store has an engine that is
\* open and takes requests (ReBuildEngine, Load).
CalmSafe == calm => FilesClosed /\ DeletedOnce /\ Reopened

\* A Close that waits for the counter of requests ends when calls into C++
\* return (the goroutine of Close).
CloseEnds == []<>(calm => closers = {})
============================================================================
