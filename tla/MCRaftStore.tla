---------------------------- MODULE MCRaftStore ----------------------------
(* Bounds for model checking RaftStore.  In a calm behaviour nothing fails *)
(* but the process, FLUSH commands do not overlap and no snapshot arrives; *)
(* only there does every flush get its answer.                             *)
EXTENDS RaftStore, TLC

VARIABLE calm

Calm == INSTANCE RaftStore WITH MaxSnapshots <- 0, Overlap <- FALSE, WriteFails <- FALSE

MCInit == Init /\ calm \in BOOLEAN

MCNext ==
    /\ UNCHANGED calm
    /\ \/ ~calm /\ Next
       \/ calm /\ Calm!Next

mcvars == <<vars, calm>>

MCSpec ==
    /\ MCInit /\ [][MCNext]_mcvars
    /\ WF_mcvars(calm /\ Calm!Apply /\ UNCHANGED calm)
    /\ WF_mcvars(calm /\ Calm!Flush /\ UNCHANGED calm)
    /\ WF_mcvars(calm /\ Calm!Start /\ UNCHANGED calm)
    /\ WF_mcvars(calm /\ UNCHANGED calm /\ \E c \in commits : Calm!CommitStart(c) \/ Calm!CommitDump(c) \/ Calm!CommitEnd(c))

\* Once the crashes end, a replica on which nothing else fails applies the
\* whole log and has answered every FLUSH command (Apply, startFlushJob and
\* the Commit goroutines).  It stays down only if an old dump was written
\* after the log was truncated by a newer one, more than TruncateCount later.
CaughtUpAndAnswered ==
    <>[](calm => \/ up /\ applied = Len(log) /\ waiting = {}
                 \/ ~up /\ overtaken /\ ~RaftResumes)
=============================================================================
