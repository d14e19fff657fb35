---------------------------- MODULE AbstractLock ----------------------------
(***************************************************************************)
(* What a lock path promises its callers: a set of owners that is empty or *)
(* a single contender, taken only while free.                              *)
(***************************************************************************)
CONSTANT Contenders

VARIABLE owner

Init == owner = {}

Acquire(c) == owner = {} /\ owner' = {c}

Release == owner # {} /\ owner' = {}

Next == Release \/ \E c \in Contenders : Acquire(c)

Spec == Init /\ [][Next]_owner
=============================================================================
