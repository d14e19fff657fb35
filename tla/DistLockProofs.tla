--------------------------- MODULE DistLockProofs ---------------------------
(***************************************************************************)
(* Proofs about DistLock for any set of contenders and any bounds: typing, *)
(* mutual exclusion and the refinement of AbstractLock.                    *)
(***************************************************************************)
EXTENDS DistLock, TLAPS

\* A contender whose key, if it is in etcd, has revision myRev.
KnowsRevision(c) == pc[c] \in {"get", "again", "wait", "section"}

\* Keys hang on live leases and no two share a lease or a revision.
KeysOK ==
    /\ leases \in SUBSET (1..granted)
    /\ \A k \in keys : k.lease \in leases /\ k.rev \in 1..rev
    /\ \A k, k2 \in keys : k.lease = k2.lease \/ k.rev = k2.rev => k = k2

\* Two calls never share a lease, and a call in "put" has no key yet.
LeasesOK ==
    /\ \A c \in Contenders : pc[c] # "idle" => lease[c] \in 1..granted
    /\ \A c, d \in Contenders :
          pc[c] # "idle" /\ pc[d] # "idle" /\ lease[c] = lease[d] => c = d
    /\ \A c \in Contenders : pc[c] = "put" => \A k \in keys : k.lease # lease[c]

\* The key of a contender has the revision the contender remembers, and no
\* key has a lower one while it holds the lock.
RevisionsOK ==
    /\ \A c \in Contenders : KnowsRevision(c) =>
          \A k \in keys : k.lease = lease[c] => k.rev = myRev[c]
    /\ \A c \in Contenders : Holds(c) => \A k \in keys : myRev[c] <= k.rev

\* MutualExclusion is not inductive: it rests on who put which key when.
IInv == TypeOK /\ KeysOK /\ LeasesOK /\ RevisionsOK

-----------------------------------------------------------------------------
\* The part of TypeOK about etcd, and the part about the callers.
EtcdTypeOK ==
    /\ rev \in Nat /\ granted \in Nat
    /\ leases \in SUBSET (Nat \ {0})
    /\ keys \in SUBSET Key

LocalTypeOK ==
    /\ mode \in [Contenders -> Modes]
    /\ lease \in [Contenders -> Nat]
    /\ myRev \in [Contenders -> Nat]
    /\ pred \in [Contenders -> Nat]
    /\ done \in SUBSET Contenders

PcTypeOK == pc \in [Contenders -> Labels]

\* TypeOK, in the parts the lemmas below are about.
TypeParts == EtcdTypeOK /\ LocalTypeOK /\ PcTypeOK /\ faults \in Nat

\* The building blocks of the steps keep the types.

LEMMA GotoType ==
    ASSUME PcTypeOK, NEW c \in Contenders, NEW l \in Labels, Goto(c, l)
    PROVE  PcTypeOK'
BY DEF PcTypeOK, Goto

LEMMA ReturnType ==
    ASSUME PcTypeOK, LocalTypeOK, NEW c \in Contenders, Return(c)
    PROVE  PcTypeOK' /\ LocalTypeOK'
<1>1. PcTypeOK'
  BY GotoType DEF Return, Labels
<1>2. LocalTypeOK'
  BY DEF Return, LocalTypeOK, Modes
<1> QED
  BY <1>1, <1>2

LEMMA StayType == LocalTypeOK /\ Stay => LocalTypeOK'
BY DEF LocalTypeOK, Stay

LEMMA EtcdType == EtcdTypeOK /\ UNCHANGED etcd => EtcdTypeOK'
BY DEF EtcdTypeOK, etcd

LEMMA DropType == ASSUME EtcdTypeOK, NEW l, Drop(l) PROVE EtcdTypeOK'
BY DEF EtcdTypeOK, Drop

LEMMA RevokeType ==
    ASSUME EtcdTypeOK, NEW c \in Contenders, RevokeOK(c) \/ RevokeFails(c)
    PROVE  EtcdTypeOK'
BY DropType, EtcdType DEF RevokeOK, RevokeFails

LEMMA FaultsType ==
    ASSUME faults \in Nat, NEW c, Fails(c) \/ Succeeds(c)
    PROVE  faults' \in Nat
BY DEF Fails, Succeeds

LEMMA TypeStep == TypeOK /\ [Next]_vars => TypeOK'
<1> SUFFICES ASSUME TypeParts, [Next]_vars PROVE TypeParts'
  BY DEF TypeOK, TypeParts, EtcdTypeOK, LocalTypeOK, PcTypeOK
<1> USE DEF TypeParts
<1>1. ASSUME NEW c \in Contenders, NEW m \in Modes, Grant(c, m)
      PROVE  TypeParts'
  BY <1>1, GotoType DEF Grant, Labels, EtcdTypeOK, LocalTypeOK
<1>2. ASSUME NEW c \in Contenders, PutKey(c) PROVE TypeParts'
  BY <1>2, GotoType, FaultsType DEF PutKey, Labels, EtcdTypeOK, LocalTypeOK, Key
<1>3. ASSUME NEW c \in Contenders, PutFails(c) PROVE TypeParts'
  <2>1. EtcdTypeOK'
    <3>1. CASE UNCHANGED etcd
      BY <3>1, EtcdType
    <3>2. CASE /\ lease[c] \in leases /\ rev' = rev + 1
               /\ keys' = keys \cup {[lease |-> lease[c], rev |-> rev']}
               /\ UNCHANGED <<granted, leases>>
      <4>1. lease[c] \in Nat \ {0}
        BY <3>2 DEF EtcdTypeOK
      <4>2. rev' \in Nat \ {0}
        BY <3>2 DEF EtcdTypeOK
      <4> QED
        BY <3>2, <4>1, <4>2 DEF EtcdTypeOK, Key
    <3> QED
      BY <1>3, <3>1, <3>2 DEF PutFails
  <2>2. PcTypeOK' /\ LocalTypeOK' /\ faults' \in Nat
    BY <1>3, GotoType, StayType, FaultsType DEF PutFails, Labels
  <2> QED
    BY <2>1, <2>2
<1>4. ASSUME NEW c \in Contenders, GetLast(c) PROVE TypeParts'
  <2>1. EtcdTypeOK' /\ faults' \in Nat
    BY <1>4, EtcdType, FaultsType DEF GetLast, etcd
  <2>2. PcTypeOK'
    BY <1>4, GotoType DEF GetLast, Labels
  <2>3. LocalTypeOK'
    BY <1>4 DEF GetLast, LocalTypeOK, EtcdTypeOK, Lower, Key
  <2> QED
    BY <2>1, <2>2, <2>3
<1>5. ASSUME NEW c \in Contenders, GetAgain(c) \/ GetFails(c) PROVE TypeParts'
  BY <1>5, GotoType, StayType, EtcdType, FaultsType
  DEF GetAgain, GetFails, Labels
<1>6. ASSUME NEW c \in Contenders, WatchReturns(c) \/ WaitTimesOut(c)
      PROVE  TypeParts'
  BY <1>6, GotoType, StayType, EtcdType DEF WatchReturns, WaitTimesOut, Labels, etcd
<1>7. ASSUME NEW c \in Contenders, LockRevokes(c) PROVE TypeParts'
  <2>1. EtcdTypeOK' /\ faults' \in Nat
    BY <1>7, RevokeType, EtcdType DEF LockRevokes, etcd
  <2>2. PcTypeOK' /\ LocalTypeOK'
    BY <1>7, GotoType, StayType DEF LockRevokes, Labels
  <2> QED
    BY <2>1, <2>2
<1>8. ASSUME NEW c \in Contenders, LockReturnsUnlock(c) PROVE TypeParts'
  BY <1>8, RevokeType, EtcdType, FaultsType, GotoType, StayType, ReturnType
  DEF LockReturnsUnlock, Labels
<1>9. ASSUME NEW c \in Contenders, TryLockLoses(c) \/ Unlock(c) PROVE TypeParts'
  BY <1>9, RevokeType, EtcdType, FaultsType, ReturnType
  DEF TryLockLoses, Unlock, RevokeAndReturn
<1>10. ASSUME NEW c \in Contenders, CtxDone(c) PROVE TypeParts'
  BY <1>10, EtcdType DEF CtxDone, LocalTypeOK, PcTypeOK, etcd
<1>11. ASSUME NEW l \in leases, Expire(l) PROVE TypeParts'
  BY <1>11, DropType DEF Expire, LocalTypeOK, PcTypeOK
<1>12. CASE UNCHANGED vars
  BY <1>12 DEF vars, EtcdTypeOK, LocalTypeOK, PcTypeOK
<1> QED
  BY <1>1, <1>2, <1>3, <1>4, <1>5, <1>6, <1>7, <1>8, <1>9, <1>10, <1>11,
     <1>12 DEF Next, Call

\* Every variable keeps its type through all steps of Lock, TryLock and etcd.
THEOREM TypeCorrect == Spec => []TypeOK
<1>1. Init => TypeOK
  BY DEF Init, TypeOK, Labels, Modes
<1> QED
  BY <1>1, TypeStep, PTL DEF Spec

-----------------------------------------------------------------------------
\* What steps that only remove keys and leases keep of each part of IInv.
LEMMA KeysShrink ==
    ASSUME KeysOK, UNCHANGED <<rev, granted>>,
           leases' \subseteq leases, keys' \subseteq keys,
           \A k \in keys' : k.lease \in leases'
    PROVE  KeysOK'
BY DEF KeysOK

LEMMA LeasesShrink ==
    ASSUME LeasesOK, UNCHANGED granted, keys' \subseteq keys,
           \A d \in Contenders : pc'[d] # "idle" =>
              /\ pc[d] # "idle" /\ lease'[d] = lease[d]
              /\ pc'[d] = "put" => pc[d] = "put"
    PROVE  LeasesOK'
BY DEF LeasesOK

LEMMA RevisionsShrink ==
    ASSUME RevisionsOK, keys' \subseteq keys,
           \A d \in Contenders : KnowsRevision(d)' =>
              /\ lease'[d] = lease[d] /\ myRev'[d] = myRev[d]
              /\ KnowsRevision(d) \/ \A k \in keys' : k.lease # lease[d],
           \A d \in Contenders : Holds(d)' =>
              Holds(d) \/ \A k \in keys : myRev[d] <= k.rev
    PROVE  RevisionsOK'
<1>1. ASSUME NEW d \in Contenders, KnowsRevision(d)', NEW k \in keys',
             k.lease = lease'[d]
      PROVE  k.rev = myRev'[d]
  BY <1>1 DEF RevisionsOK
<1>2. ASSUME NEW d \in Contenders, Holds(d)', NEW k \in keys'
      PROVE  myRev'[d] <= k.rev
  <2>1. KnowsRevision(d)'
    BY <1>2 DEF Holds, KnowsRevision
  <2> QED
    BY <1>2, <2>1 DEF RevisionsOK
<1> QED
  BY <1>1, <1>2 DEF RevisionsOK

\* etcd is left alone or a lease is dropped.
Shrinks == UNCHANGED etcd \/ \E l : Drop(l)

LEMMA ShrinksKeys ==
    ASSUME KeysOK, Shrinks
    PROVE  KeysOK' /\ keys' \subseteq keys /\ UNCHANGED granted
<1>1. CASE UNCHANGED etcd
  BY <1>1 DEF etcd, KeysOK
<1>2. ASSUME NEW l, Drop(l)
      PROVE  KeysOK' /\ keys' \subseteq keys /\ UNCHANGED granted
  BY <1>2, KeysShrink DEF Drop, KeysOK
<1> QED
  BY <1>1, <1>2 DEF Shrinks

\* c returns, and its variables are forgotten.
LEMMA ReturnInv ==
    ASSUME TypeOK, KeysOK, LeasesOK, RevisionsOK,
           NEW c \in Contenders, Return(c), Shrinks
    PROVE  KeysOK' /\ LeasesOK' /\ RevisionsOK'
<1>1. KeysOK' /\ keys' \subseteq keys /\ UNCHANGED granted
  BY ShrinksKeys
<1>2. \A d \in Contenders : pc'[d] # "idle" =>
         /\ d # c /\ pc'[d] = pc[d]
         /\ lease'[d] = lease[d] /\ myRev'[d] = myRev[d]
  BY DEF Return, Goto, TypeOK
<1>3. LeasesOK'
  BY <1>1, <1>2, LeasesShrink
<1>4. RevisionsOK'
  <2>1. \A d \in Contenders : KnowsRevision(d)' => pc'[d] # "idle"
    BY DEF KnowsRevision
  <2>2. \A d \in Contenders : Holds(d)' => Holds(d)
    BY <1>1, <1>2 DEF Holds
  <2>3. \A d \in Contenders : KnowsRevision(d)' => KnowsRevision(d)
    BY <1>2, <2>1 DEF KnowsRevision
  <2> QED
    BY <1>1, <1>2, <2>1, <2>2, <2>3, RevisionsShrink
<1> QED
  BY <1>1, <1>3, <1>4

\* c moves on, without learning of a revision and without entering its
\* section, unless it has no lower key or no key at all.
LEMMA MoveInv ==
    ASSUME TypeOK, KeysOK, LeasesOK, RevisionsOK, Shrinks,
           NEW c \in Contenders, NEW l \in Labels \ {"idle", "put"}, Goto(c, l),
           pc[c] # "idle", UNCHANGED <<lease, myRev>>,
           l \in {"get", "again", "wait"} => KnowsRevision(c),
           l = "section" =>
              \/ \A k \in keys' : k.lease # lease[c]
              \/ KnowsRevision(c) /\ Lower(c) = {}
    PROVE  KeysOK' /\ LeasesOK' /\ RevisionsOK'
<1>1. KeysOK' /\ keys' \subseteq keys /\ UNCHANGED granted
  BY ShrinksKeys
<1>2. pc'[c] = l /\ \A d \in Contenders \ {c} : pc'[d] = pc[d]
  BY DEF Goto, TypeOK
<1>3. LeasesOK'
  BY <1>1, <1>2, LeasesShrink
<1>4. \A d \in Contenders : KnowsRevision(d)' =>
         KnowsRevision(d) \/ \A k \in keys' : k.lease # lease[d]
  BY <1>2 DEF KnowsRevision
<1>5. \A d \in Contenders : Holds(d)' =>
         Holds(d) \/ \A k \in keys : myRev[d] <= k.rev
  <2>1. Lower(c) = {} => \A k \in keys : myRev[c] <= k.rev
    BY DEF Lower, TypeOK, Key
  <2> QED
    BY <1>1, <1>2, <2>1 DEF Holds
<1>6. RevisionsOK'
  BY <1>1, <1>4, <1>5, RevisionsShrink
<1> QED
  BY <1>1, <1>3, <1>6

\* A new lease is not the lease of any call and no key hangs on it.
LEMMA GrantInv ==
    ASSUME IInv, NEW c \in Contenders, NEW m \in Modes, Grant(c, m)
    PROVE  KeysOK' /\ LeasesOK' /\ RevisionsOK'
<1> USE DEF IInv
<1>1. granted \in Nat /\ granted' = granted + 1 /\ UNCHANGED <<rev, keys, myRev>>
  BY DEF Grant, TypeOK
<1>2. /\ pc[c] = "idle" /\ pc'[c] = "put" /\ lease'[c] = granted'
      /\ \A d \in Contenders \ {c} : pc'[d] = pc[d] /\ lease'[d] = lease[d]
  BY DEF Grant, Goto, TypeOK
<1>3. KeysOK'
  <2>1. leases' = leases \cup {granted'}
    BY DEF Grant
  <2> QED
    BY <1>1, <2>1 DEF KeysOK
<1>4. \A k \in keys : k.lease # granted'
  BY <1>1 DEF KeysOK
<1>5. LeasesOK'
  <2>1. \A d \in Contenders : pc'[d] # "idle" => lease'[d] \in 1..granted'
    BY <1>1, <1>2 DEF LeasesOK
  <2>2. \A d \in Contenders \ {c} : pc'[d] # "idle" => lease'[d] # granted'
    BY <1>1, <1>2 DEF LeasesOK
  <2>3. \A d, f \in Contenders :
           pc'[d] # "idle" /\ pc'[f] # "idle" /\ lease'[d] = lease'[f] => d = f
    BY <1>2, <2>2 DEF LeasesOK
  <2>4. \A d \in Contenders : pc'[d] = "put" => \A k \in keys : k.lease # lease'[d]
    BY <1>2, <1>4 DEF LeasesOK
  <2> QED
    BY <1>1, <2>1, <2>3, <2>4 DEF LeasesOK
<1>6. RevisionsOK'
  BY <1>1, <1>2, RevisionsShrink DEF KnowsRevision, Holds
<1> QED
  BY <1>3, <1>5, <1>6

\* A put of the key of c, whether or not c hears of its success.
LEMMA PutInv ==
    ASSUME IInv, NEW c \in Contenders, pc[c] = "put", lease[c] \in leases,
           rev' = rev + 1, keys' = keys \cup {[lease |-> lease[c], rev |-> rev']},
           UNCHANGED <<granted, leases, lease>>,
           NEW l \in {"get", "unlock", "lose"}, Goto(c, l),
           \A d \in Contenders \ {c} : myRev'[d] = myRev[d],
           l = "get" => myRev'[c] = rev'
    PROVE  KeysOK' /\ LeasesOK' /\ RevisionsOK'
<1> USE DEF IInv
<1> DEFINE new == [lease |-> lease[c], rev |-> rev']
<1>1. pc'[c] = l /\ \A d \in Contenders \ {c} : pc'[d] = pc[d]
  BY DEF Goto, TypeOK
<1>2. \A k \in keys : k.lease # lease[c]
  BY DEF LeasesOK
<1>3. \A d \in Contenders \ {c} : pc[d] # "idle" => lease[d] # lease[c]
  BY DEF LeasesOK
<1>4. rev \in Nat /\ \A k \in keys : k.rev \in 1..rev /\ k.rev < rev'
  BY DEF KeysOK, TypeOK
<1>5. KeysOK'
  <2>1. \A k \in keys' : k.lease \in leases' /\ k.rev \in 1..rev'
    BY <1>4 DEF KeysOK
  <2>2. ASSUME NEW k \in keys', NEW k2 \in keys', k.lease = k2.lease \/ k.rev = k2.rev
        PROVE  k = k2
    <3>1. CASE k \in keys /\ k2 \in keys
      BY <2>2, <3>1 DEF KeysOK
    <3>2. CASE k = new \/ k2 = new
      BY <2>2, <3>2, <1>2, <1>4
    <3> QED
      BY <3>1, <3>2
  <2> QED
    BY <2>1, <2>2 DEF KeysOK
<1>6. LeasesOK'
  BY <1>1, <1>3 DEF LeasesOK
<1>7. RevisionsOK'
  <2>1. ASSUME NEW d \in Contenders, KnowsRevision(d)', NEW k \in keys',
               k.lease = lease'[d]
        PROVE  k.rev = myRev'[d]
    <3>1. CASE d = c
      BY <2>1, <3>1, <1>1, <1>2 DEF KnowsRevision
    <3>2. CASE d # c
      BY <2>1, <3>2, <1>1, <1>3 DEF KnowsRevision, RevisionsOK
    <3> QED
      BY <3>1, <3>2
  <2>2. ASSUME NEW d \in Contenders, Holds(d)', NEW k \in keys'
        PROVE  myRev'[d] <= k.rev
    <3>1. d # c /\ pc[d] = "section" /\ myRev'[d] = myRev[d] /\ lease[d] # lease[c]
      BY <2>2, <1>1, <1>3 DEF Holds
    <3>2. PICK k2 \in keys : k2.lease = lease[d]
      BY <2>2, <3>1 DEF Holds
    <3>3. Holds(d) /\ myRev[d] = k2.rev
      BY <3>1, <3>2 DEF Holds, KnowsRevision, RevisionsOK
    <3>4. CASE k \in keys
      BY <3>1, <3>3, <3>4 DEF RevisionsOK
    <3>5. CASE k = new
      BY <3>1, <3>3, <3>5, <1>4
    <3> QED
      BY <3>4, <3>5
  <2> QED
    BY <2>1, <2>2 DEF RevisionsOK
<1> QED
  BY <1>5, <1>6, <1>7

LEMMA InvInit == Init => IInv
BY DEF Init, IInv, TypeOK, KeysOK, LeasesOK, RevisionsOK, KnowsRevision, Holds,
       Labels, Modes

LEMMA InvStep == IInv /\ [Next]_vars => IInv'
<1> SUFFICES ASSUME IInv, [Next]_vars PROVE KeysOK' /\ LeasesOK' /\ RevisionsOK'
  BY TypeStep DEF IInv
<1> USE DEF IInv
<1>1. ASSUME NEW c \in Contenders, NEW m \in Modes, Grant(c, m)
      PROVE  KeysOK' /\ LeasesOK' /\ RevisionsOK'
  BY <1>1, GrantInv
<1>2. ASSUME NEW c \in Contenders, PutKey(c)
      PROVE  KeysOK' /\ LeasesOK' /\ RevisionsOK'
  <2>1. myRev'[c] = rev' /\ \A d \in Contenders \ {c} : myRev'[d] = myRev[d]
    BY <1>2 DEF PutKey, TypeOK
  <2> QED
    BY <1>2, <2>1, PutInv DEF PutKey
<1>3. ASSUME NEW c \in Contenders, PutFails(c)
      PROVE  KeysOK' /\ LeasesOK' /\ RevisionsOK'
  <2>1. PICK l \in {"unlock", "lose"} : Goto(c, l)
    BY <1>3 DEF PutFails
  <2>2. CASE UNCHANGED etcd
    BY <1>3, <2>1, <2>2, MoveInv DEF PutFails, Stay, Shrinks, Labels
  <2>3. CASE /\ lease[c] \in leases /\ rev' = rev + 1
             /\ keys' = keys \cup {[lease |-> lease[c], rev |-> rev']}
             /\ UNCHANGED <<granted, leases>>
    BY <1>3, <2>1, <2>3, PutInv DEF PutFails, Stay
  <2> QED
    BY <1>3, <2>2, <2>3 DEF PutFails
<1>4. ASSUME NEW c \in Contenders, GetLast(c) \/ GetAgain(c)
      PROVE  KeysOK' /\ LeasesOK' /\ RevisionsOK'
  <2>1. PICK l \in {"section", "lose", "again", "wait"} :
           Goto(c, l) /\ (l = "section" => Lower(c) = {})
    BY <1>4 DEF GetLast, GetAgain
  <2>2. pc[c] # "idle" /\ KnowsRevision(c) /\ UNCHANGED <<etcd, lease, myRev>>
    BY <1>4 DEF GetLast, GetAgain, KnowsRevision, Stay
  <2> QED
    BY <2>1, <2>2, MoveInv DEF Shrinks, Labels
<1>5. ASSUME NEW c \in Contenders, GetFails(c) \/ WatchReturns(c) \/ WaitTimesOut(c)
      PROVE  KeysOK' /\ LeasesOK' /\ RevisionsOK'
  <2>1. PICK l \in {"revoke", "lose", "get"} : Goto(c, l)
    BY <1>5 DEF GetFails, WatchReturns, WaitTimesOut
  <2>2. pc[c] # "idle" /\ KnowsRevision(c) /\ UNCHANGED <<etcd, lease, myRev>>
    BY <1>5 DEF GetFails, WatchReturns, WaitTimesOut, KnowsRevision, Stay, etcd
  <2> QED
    BY <2>1, <2>2, MoveInv DEF Shrinks, Labels
<1>6. ASSUME NEW c \in Contenders, LockRevokes(c)
      PROVE  KeysOK' /\ LeasesOK' /\ RevisionsOK'
  <2>1. Shrinks
    BY <1>6 DEF LockRevokes, RevokeOK, RevokeFails, Shrinks, etcd
  <2> QED
    BY <1>6, <2>1, MoveInv DEF LockRevokes, Stay, Labels
<1>7. ASSUME NEW c \in Contenders, LockReturnsUnlock(c)
      PROVE  KeysOK' /\ LeasesOK' /\ RevisionsOK'
  <2>1. Shrinks
    BY <1>7 DEF LockReturnsUnlock, RevokeOK, RevokeFails, Shrinks
  <2>2. CASE Return(c)
    BY <2>1, <2>2, ReturnInv
  <2>3. CASE RevokeOK(c) /\ Goto(c, "section") /\ Stay
    <3>1. \A k \in keys' : k.lease # lease[c]
      BY <2>3 DEF RevokeOK, Drop
    <3> QED
      BY <1>7, <2>1, <2>3, <3>1, MoveInv DEF LockReturnsUnlock, Stay, Labels
  <2> QED
    BY <1>7, <2>2, <2>3 DEF LockReturnsUnlock
<1>8. ASSUME NEW c \in Contenders, TryLockLoses(c) \/ Unlock(c)
      PROVE  KeysOK' /\ LeasesOK' /\ RevisionsOK'
  <2>1. Return(c) /\ Shrinks
    BY <1>8 DEF TryLockLoses, Unlock, RevokeAndReturn, RevokeOK, RevokeFails, Shrinks
  <2> QED
    BY <2>1, ReturnInv
<1>9. ASSUME Shrinks, UNCHANGED <<pc, lease, myRev>>
      PROVE  KeysOK' /\ LeasesOK' /\ RevisionsOK'
  <2>1. KeysOK' /\ keys' \subseteq keys /\ UNCHANGED granted
    BY <1>9, ShrinksKeys
  <2>2. LeasesOK'
    BY <1>9, <2>1, LeasesShrink
  <2>3. RevisionsOK'
    BY <1>9, <2>1, RevisionsShrink DEF KnowsRevision, Holds
  <2> QED
    BY <2>1, <2>2, <2>3
<1>10. ASSUME NEW c \in Contenders, CtxDone(c)
       PROVE  KeysOK' /\ LeasesOK' /\ RevisionsOK'
  BY <1>9, <1>10 DEF CtxDone, Shrinks
<1>11. ASSUME NEW l \in leases, Expire(l)
       PROVE  KeysOK' /\ LeasesOK' /\ RevisionsOK'
  BY <1>9, <1>11 DEF Expire, Shrinks
<1>12. CASE UNCHANGED vars
  BY <1>9, <1>12 DEF vars, Shrinks, etcd
<1> QED
  BY <1>1, <1>2, <1>3, <1>4, <1>5, <1>6, <1>7, <1>8, <1>10, <1>11, <1>12
  DEF Next, Call

LEMMA InvExcludes == IInv => MutualExclusion
<1> SUFFICES ASSUME IInv, NEW c \in Contenders, NEW d \in Contenders,
                    Holds(c), Holds(d)
             PROVE  c = d
  BY DEF MutualExclusion
<1>1. PICK k \in keys : k.lease = lease[c]
  BY DEF Holds
<1>2. PICK k2 \in keys : k2.lease = lease[d]
  BY DEF Holds
<1>3. k.rev = myRev[c] /\ k2.rev = myRev[d]
  BY <1>1, <1>2 DEF IInv, RevisionsOK, KnowsRevision, Holds
<1>4. myRev[c] <= myRev[d] /\ myRev[d] <= myRev[c]
  BY <1>1, <1>2, <1>3 DEF IInv, RevisionsOK
<1>5. myRev[c] = myRev[d]
  BY <1>4 DEF IInv, TypeOK
<1>6. lease[c] = lease[d]
  BY <1>1, <1>2, <1>3, <1>5 DEF IInv, KeysOK
<1> QED
  BY <1>6 DEF IInv, LeasesOK, Holds

\* Whatever the number of contenders, leases and faults, two callers whose
\* keys are both in etcd are never both told that they have the lock.
THEOREM LockExcludes == Spec => []MutualExclusion
BY InvInit, InvStep, InvExcludes, PTL DEF Spec

-----------------------------------------------------------------------------
\* A step makes no new owner, or it is a Get that leaves the owners alone.
LEMMA NewOwner ==
    ASSUME IInv, [Next]_vars
    PROVE  Owner' \subseteq Owner \/ Owner \subseteq Owner'
<1> USE DEF IInv
<1>1. SUFFICES \/ \A d \in Contenders : Holds(d)' => Holds(d)
               \/ \A d \in Contenders : Holds(d) => Holds(d)'
  BY DEF Owner
<1>2. ASSUME NEW c \in Contenders, NEW m \in Modes, Grant(c, m)
      PROVE  \A d \in Contenders : Holds(d)' => Holds(d)
  BY <1>2 DEF Grant, Goto, Holds, TypeOK
<1>3. ASSUME NEW c \in Contenders, PutKey(c) \/ PutFails(c)
      PROVE  \A d \in Contenders : Holds(d)' => Holds(d)
  <2>1. /\ pc[c] = "put" /\ pc'[c] # "section" /\ UNCHANGED lease
        /\ \A d \in Contenders \ {c} : pc'[d] = pc[d]
    BY <1>3 DEF PutKey, PutFails, Goto, TypeOK, Stay
  <2>2. \A k \in keys' : k \in keys \/ k.lease = lease[c]
    BY <1>3 DEF PutKey, PutFails, etcd
  <2> QED
    BY <2>1, <2>2 DEF Holds, LeasesOK
<1>4. ASSUME NEW c \in Contenders, GetLast(c) \/ GetAgain(c)
      PROVE  \A d \in Contenders : Holds(d) => Holds(d)'
  <2>1. /\ UNCHANGED <<keys, lease>> /\ pc[c] # "section"
        /\ \A d \in Contenders \ {c} : pc'[d] = pc[d]
    BY <1>4 DEF GetLast, GetAgain, Goto, TypeOK, Stay, etcd
  <2> QED
    BY <2>1 DEF Holds
<1>5. ASSUME NEW c \in Contenders, keys' \subseteq keys, UNCHANGED lease,
             NEW l, Goto(c, l), l # "section" \/ \A k \in keys' : k.lease # lease[c]
      PROVE  \A d \in Contenders : Holds(d)' => Holds(d)
  BY <1>5 DEF Goto, Holds, TypeOK
<1>6. ASSUME NEW c \in Contenders, keys' \subseteq keys, Return(c)
      PROVE  \A d \in Contenders : Holds(d)' => Holds(d)
  BY <1>6 DEF Return, Goto, Holds, TypeOK
<1>7. ASSUME NEW c \in Contenders, GetFails(c) \/ WatchReturns(c) \/ WaitTimesOut(c)
      PROVE  \A d \in Contenders : Holds(d)' => Holds(d)
  <2>1. PICK l \in {"revoke", "lose", "get"} : Goto(c, l)
    BY <1>7 DEF GetFails, WatchReturns, WaitTimesOut
  <2>2. UNCHANGED <<keys, lease>>
    BY <1>7 DEF GetFails, WatchReturns, WaitTimesOut, Stay, etcd
  <2> QED
    BY <1>5, <2>1, <2>2
<1>8. ASSUME NEW c \in Contenders, LockRevokes(c)
      PROVE  \A d \in Contenders : Holds(d)' => Holds(d)
  <2>1. keys' \subseteq keys
    BY <1>8 DEF LockRevokes, RevokeOK, RevokeFails, Drop, etcd
  <2> QED
    BY <1>5, <1>8, <2>1 DEF LockRevokes, Stay
<1>9. ASSUME NEW c \in Contenders, LockReturnsUnlock(c)
      PROVE  \A d \in Contenders : Holds(d)' => Holds(d)
  <2>1. keys' \subseteq keys
    BY <1>9 DEF LockReturnsUnlock, RevokeOK, RevokeFails, Drop, etcd
  <2>2. CASE Return(c)
    BY <1>6, <2>1, <2>2
  <2>3. CASE RevokeOK(c) /\ Goto(c, "section") /\ Stay
    BY <1>5, <2>1, <2>3 DEF RevokeOK, Drop, Stay
  <2> QED
    BY <1>9, <2>2, <2>3 DEF LockReturnsUnlock
<1>10. ASSUME NEW c \in Contenders, TryLockLoses(c) \/ Unlock(c)
       PROVE  \A d \in Contenders : Holds(d)' => Holds(d)
  <2>1. keys' \subseteq keys /\ Return(c)
    BY <1>10 DEF TryLockLoses, Unlock, RevokeAndReturn, RevokeOK, RevokeFails,
                 Drop, etcd
  <2> QED
    BY <1>6, <2>1
<1>11. ASSUME keys' \subseteq keys, UNCHANGED <<pc, lease>>
       PROVE  \A d \in Contenders : Holds(d)' => Holds(d)
  BY <1>11 DEF Holds
<1>12. ASSUME NEW c \in Contenders, CtxDone(c)
       PROVE  \A d \in Contenders : Holds(d)' => Holds(d)
  BY <1>11, <1>12 DEF CtxDone, etcd
<1>13. ASSUME NEW l \in leases, Expire(l)
       PROVE  \A d \in Contenders : Holds(d)' => Holds(d)
  BY <1>11, <1>13 DEF Expire, Drop
<1>14. CASE UNCHANGED vars
  BY <1>11, <1>14 DEF vars
<1> QED
  BY <1>2, <1>3, <1>4, <1>7, <1>8, <1>9, <1>10, <1>12, <1>13, <1>14 DEF Next, Call

\* Through revocations, expiries, failed calls and both kinds of acquisition,
\* for every set of contenders, the lock of distlock.go is taken only while
\* it is free.
THEOREM LockRefines == Spec => ImplementsAbstractLock
<1>1. Init => Abstract!Init
  BY DEF Init, Abstract!Init, Owner, Holds
<1>2. IInv /\ MutualExclusion /\ MutualExclusion' /\ [Next]_vars
      => [Abstract!Next]_Owner
  <2> SUFFICES ASSUME IInv, MutualExclusion, MutualExclusion', [Next]_vars,
                      Owner' # Owner
               PROVE  Abstract!Next
    OBVIOUS
  <2>1. Owner \subseteq Contenders /\ Owner' \subseteq Contenders
    BY DEF Owner
  <2>2. \A c, d \in Owner : c = d
    BY DEF Owner, MutualExclusion
  <2>3. \A c, d \in Owner' : c = d
    BY DEF Owner, MutualExclusion
  <2>4. CASE Owner' \subseteq Owner
    BY <2>2, <2>4 DEF Abstract!Next, Abstract!Release
  <2>5. CASE Owner \subseteq Owner'
    <3>1. PICK c \in Owner' : c \notin Owner
      BY <2>5
    <3>2. Owner' = {c} /\ Owner = {}
      BY <2>3, <2>5, <3>1
    <3> QED
      BY <2>1, <3>1, <3>2 DEF Abstract!Next, Abstract!Acquire
  <2> QED
    BY <2>4, <2>5, NewOwner
<1> QED
  BY <1>1, <1>2, InvInit, InvStep, InvExcludes, PTL
  DEF Spec, ImplementsAbstractLock, Abstract!Spec
=============================================================================
