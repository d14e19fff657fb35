------------------------------ MODULE DistLock ------------------------------
(***************************************************************************)
(* The distributed lock of the master (internal/master/store/distlock.go). *)
(* A contender grants itself an etcd lease, puts a key <path>/<lease> and  *)
(* owns the lock when no key of the path has a lower revision.  Unlock is  *)
(* the revocation of the lease.  No caller sends a keep-alive, so etcd may *)
(* expire the lease of a contender at any point.                           *)
(*                                                                         *)
(* A call to etcd either succeeds or fails.  A failed write may still have *)
(* been applied.  Every call made with dl.ctx fails once the context of    *)
(* the request is done.                                                    *)
(***************************************************************************)
EXTENDS Naturals, FiniteSets

CONSTANTS
    Contenders,  \* callers of one lock path, on any master
    MaxLeases,   \* bound on the leases granted
    MaxFaults,   \* bound on the etcd calls that fail while the context lives
    Expiry       \* whether leases may expire inside a critical section

ASSUME DistLockAssumption ==
    /\ MaxLeases \in Nat
    /\ MaxFaults \in Nat
    /\ Expiry \in BOOLEAN

VARIABLES
    rev,     \* revision of the last key put; only the order of the puts is used
    granted, \* number of leases granted so far, the last lease id
    leases,  \* live leases
    keys,    \* keys under the lock path: the lease they hang on, their revision
    pc,      \* where each contender is in Lock, TryLock or its section
    mode,    \* which of Lock and TryLock it called
    lease,   \* dl.leaseID
    myRev,   \* revision returned by newUniqueEphemeralKV
    pred,    \* key watched in waitOnLastRev
    done,    \* contenders whose dl.ctx is done
    faults   \* calls that failed so far

vars == <<rev, granted, leases, keys, pc, mode, lease, myRev, pred, done, faults>>

etcd == <<rev, granted, leases, keys>>

Modes == {"Lock", "TryLock"}

\* put: before the Txn; get: first Get; again: second Get; wait: select;
\* revoke: the Revoke of lock(); unlock: the Unlock of Lock(); lose: the
\* Revoke of TryLock(); section: the caller was told that it has the lock.
Labels == {"idle", "put", "get", "again", "wait", "revoke", "unlock", "lose",
           "section"}

Key == [lease : Nat \ {0}, rev : Nat \ {0}]

TypeOK ==
    /\ rev \in Nat /\ granted \in Nat /\ faults \in Nat
    /\ leases \in SUBSET (Nat \ {0})
    /\ keys \in SUBSET Key
    /\ pc \in [Contenders -> Labels]
    /\ mode \in [Contenders -> Modes]
    /\ lease \in [Contenders -> Nat]
    /\ myRev \in [Contenders -> Nat]
    /\ pred \in [Contenders -> Nat]
    /\ done \in SUBSET Contenders

Init ==
    /\ rev = 0 /\ granted = 0 /\ faults = 0
    /\ leases = {} /\ keys = {}
    /\ pc = [c \in Contenders |-> "idle"]
    /\ mode = [c \in Contenders |-> "Lock"]
    /\ lease = [c \in Contenders |-> 0]
    /\ myRev = [c \in Contenders |-> 0]
    /\ pred = [c \in Contenders |-> 0]
    /\ done = {}

-----------------------------------------------------------------------------
(* Calls to etcd.                                                          *)

\* A call of c fails: its context is done, or a fault is spent.
Fails(c) ==
    \/ c \in done /\ UNCHANGED faults
    \/ faults < MaxFaults /\ faults' = faults + 1

Succeeds(c) == c \notin done /\ UNCHANGED faults

\* The lease and the key that hangs on it are gone.
Drop(l) ==
    /\ leases' = leases \ {l}
    /\ keys' = {k \in keys : k.lease # l}
    /\ UNCHANGED <<rev, granted>>

\* Revocation of a lease that is not live is an error.
RevokeOK(c) == lease[c] \in leases /\ Drop(lease[c])

\* A revocation that returns an error was applied or not.
RevokeFails(c) == (lease[c] \in leases /\ Drop(lease[c])) \/ UNCHANGED etcd

\* Get with WithLastRev and WithMaxModRev(revision - 1).
Lower(c) == {k \in keys : k.rev < myRev[c]}

Goto(c, l) == pc' = [pc EXCEPT ![c] = l]

\* The call or the section of c ends and its DistLock is dropped.
Return(c) ==
    /\ Goto(c, "idle")
    /\ mode' = [mode EXCEPT ![c] = "Lock"]
    /\ lease' = [lease EXCEPT ![c] = 0]
    /\ myRev' = [myRev EXCEPT ![c] = 0]
    /\ pred' = [pred EXCEPT ![c] = 0]
    /\ done' = done \ {c}

Stay == UNCHANGED <<mode, lease, myRev, pred, done>>

-----------------------------------------------------------------------------
(* Lock and TryLock.                                                       *)

\* Grant, with a new DistLock for the request.  A Grant that fails ends the
\* call with an error: TryLock returns it, Lock fails to revoke lease 0.
Grant(c, m) ==
    /\ pc[c] = "idle" /\ granted < MaxLeases
    /\ granted' = granted + 1
    /\ leases' = leases \cup {granted'}
    /\ lease' = [lease EXCEPT ![c] = granted']
    /\ mode' = [mode EXCEPT ![c] = m]
    /\ Goto(c, "put")
    /\ UNCHANGED <<rev, keys, myRev, pred, done, faults>>

\* Slip: OpPut without WithLease.
PutKeyNoLease(c) ==
    /\ pc[c] = "put" /\ Succeeds(c) /\ lease[c] \in leases
    /\ rev' = rev + 1
    /\ keys' = keys \cup {[lease |-> 0, rev |-> rev']}
    /\ myRev' = [myRev EXCEPT ![c] = rev']
    /\ Goto(c, "get")
    /\ UNCHANGED <<granted, leases, mode, lease, pred, done>>

\* Slip: the revision before the Txn is taken for the revision of the key.
PutKeyOldRevision(c) ==
    /\ pc[c] = "put" /\ Succeeds(c) /\ lease[c] \in leases
    /\ rev' = rev + 1
    /\ keys' = keys \cup {[lease |-> lease[c], rev |-> rev']}
    /\ myRev' = [myRev EXCEPT ![c] = rev]
    /\ Goto(c, "get")
    /\ UNCHANGED <<granted, leases, mode, lease, pred, done>>

\* The Txn of newUniqueEphemeralKV puts the key.
PutKey(c) ==
    /\ pc[c] = "put" /\ Succeeds(c) /\ lease[c] \in leases
    /\ rev' = rev + 1
    /\ keys' = keys \cup {[lease |-> lease[c], rev |-> rev']}
    /\ myRev' = [myRev EXCEPT ![c] = rev']
    /\ Goto(c, "get")
    /\ UNCHANGED <<granted, leases, mode, lease, pred, done>>

\* The Txn returns an error, applied or not: Lock goes on to Unlock, TryLock
\* to its Revoke.  A lease that expired in between is an error as well.
\* The Delete of the key when the context has ended is not a step of its own:
\* nobody but c needs the lease, so that to others it looks like the Revoke.
PutFails(c) ==
    /\ pc[c] = "put"
    /\ \/ /\ Fails(c)
          /\ \/ UNCHANGED etcd
             \/ /\ lease[c] \in leases
                /\ rev' = rev + 1
                /\ keys' = keys \cup {[lease |-> lease[c], rev |-> rev']}
                /\ UNCHANGED <<granted, leases>>
       \/ lease[c] \notin leases /\ Succeeds(c) /\ UNCHANGED etcd
    /\ Goto(c, IF mode[c] = "Lock" THEN "unlock" ELSE "lose")
    /\ Stay

\* The first Get: no lower key, the lock is held; else Lock watches the last
\* of them and TryLock gives up.
GetLast(c) ==
    /\ pc[c] = "get" /\ Succeeds(c)
    /\ \/ Lower(c) = {} /\ Goto(c, "section") /\ UNCHANGED pred
       \/ /\ Lower(c) # {} /\ mode[c] = "TryLock"
          /\ Goto(c, "lose") /\ UNCHANGED pred
       \/ /\ mode[c] = "Lock"
          /\ \E k \in Lower(c) :
                /\ \A k2 \in Lower(c) : k2.rev <= k.rev
                /\ pred' = [pred EXCEPT ![c] = k.rev]
          /\ Goto(c, "again")
    /\ UNCHANGED <<etcd, mode, lease, myRev, done>>

\* The second Get, after the watch is set up.
GetAgain(c) ==
    /\ pc[c] = "again" /\ Succeeds(c)
    /\ Goto(c, IF Lower(c) = {} THEN "section" ELSE "wait")
    /\ Stay /\ UNCHANGED etcd

\* A Get of either kind returns an error.
GetFails(c) ==
    /\ pc[c] \in {"get", "again"} /\ Fails(c)
    /\ Goto(c, IF mode[c] = "Lock" THEN "revoke" ELSE "lose")
    /\ Stay /\ UNCHANGED etcd

\* The watched key was deleted (the watch starts at the revision of c's own
\* key, so a deletion before the watch is seen too), or the watch broke.
WatchReturns(c) ==
    /\ pc[c] = "wait"
    /\ \/ (\A k \in keys : k.rev # pred[c]) /\ UNCHANGED faults
       \/ faults < MaxFaults /\ faults' = faults + 1
    /\ Goto(c, "get")
    /\ Stay /\ UNCHANGED etcd

\* The context is done while waiting.
WaitTimesOut(c) ==
    /\ pc[c] = "wait" /\ c \in done
    /\ Goto(c, "revoke")
    /\ Stay /\ UNCHANGED <<etcd, faults>>

\* The Revoke of lock(), on a background context; its result is ignored.
LockRevokes(c) ==
    /\ pc[c] = "revoke"
    /\ \/ RevokeOK(c) /\ UNCHANGED faults
       \/ lease[c] \notin leases /\ UNCHANGED <<etcd, faults>>
       \/ RevokeFails(c) /\ faults < MaxFaults /\ faults' = faults + 1
    /\ Goto(c, "unlock")
    /\ Stay

\* Lock() answers an error of lock() with the result of Unlock(): nil when
\* the lease is revoked, and the caller takes nil for the lock.
LockReturnsUnlock(c) ==
    /\ pc[c] = "unlock"
    /\ \/ Succeeds(c) /\ RevokeOK(c) /\ Goto(c, "section") /\ Stay
       \/ Succeeds(c) /\ lease[c] \notin leases /\ UNCHANGED etcd /\ Return(c)
       \/ Fails(c) /\ RevokeFails(c) /\ Return(c)

\* The Revoke of a TryLock that failed, and the Unlock of the caller.
RevokeAndReturn(c, l) ==
    /\ pc[c] = l
    /\ \/ Succeeds(c) /\ RevokeOK(c)
       \/ Succeeds(c) /\ lease[c] \notin leases /\ UNCHANGED etcd
       \/ Fails(c) /\ RevokeFails(c)
    /\ Return(c)

TryLockLoses(c) == RevokeAndReturn(c, "lose")

Unlock(c) == RevokeAndReturn(c, "section")

\* The deadline of the request passes.
CtxDone(c) ==
    /\ pc[c] # "idle" /\ c \notin done
    /\ done' = done \cup {c}
    /\ UNCHANGED <<etcd, pc, mode, lease, myRev, pred, faults>>

\* The TTL of a lease runs out.
Expire(l) ==
    /\ Expiry /\ l \in leases
    /\ Drop(l)
    /\ UNCHANGED <<pc, mode, lease, myRev, pred, done, faults>>

-----------------------------------------------------------------------------
Call(c) ==
    \/ PutKey(c) \/ PutFails(c) \/ GetLast(c) \/ GetAgain(c) \/ GetFails(c)
    \/ WatchReturns(c) \/ WaitTimesOut(c) \/ LockRevokes(c)
    \/ LockReturnsUnlock(c) \/ TryLockLoses(c)

Next ==
    \/ \E c \in Contenders :
          \/ \E m \in Modes : Grant(c, m)
          \/ Call(c)
          \/ Unlock(c)
          \/ CtxDone(c)
    \/ \E l \in leases : Expire(l)

Spec == Init /\ [][Next]_vars

\* The goroutine of a call runs on, and etcd expires every lease.  Nothing
\* makes a caller leave its section or a context end.
FairSpec ==
    /\ Spec
    /\ \A c \in Contenders : WF_vars(Call(c))
    /\ \A l \in 1..MaxLeases : WF_vars(Expire(l))

-----------------------------------------------------------------------------
(* Properties.                                                             *)

\* The caller is in its section and its key is still in etcd.
Holds(c) == pc[c] = "section" /\ \E k \in keys : k.lease = lease[c]

\* Whatever fails or expires, two callers of Lock or TryLock never both have
\* the lock while both their keys are in etcd: the revision test of
\* waitOnLastRev and TryLock excludes them.
MutualExclusion == \A c, d \in Contenders : Holds(c) /\ Holds(d) => c = d

\* Every Lock or TryLock returns: a holder that never unlocks, or whose
\* Unlock failed, blocks the waiters of waitOnLastRev only until its lease
\* expires.
LockReturns ==
    \A c \in Contenders :
        pc[c] \notin {"idle", "section"} ~> pc[c] \in {"idle", "section"}

\* The owner an observer of etcd sees, for the abstract lock.
Owner == {c \in Contenders : Holds(c)}

Abstract == INSTANCE AbstractLock WITH owner <- Owner

\* The lock implements the abstract one: it goes from one owner to the next
\* only through a state without an owner, whichever of revocation, expiry,
\* Lock and TryLock moves it.
ImplementsAbstractLock == Abstract!Spec
=============================================================================
