--------------------------- MODULE MCMasterCache ---------------------------
(* MasterCache for TLC: every kind of entry, with what can go wrong for it.  *)
(* The keys also serve as names of spaces: a slot is one or the other.       *)
EXTENDS MasterCache

CONSTANTS k1, k2

Of(k, K, n, f) ==
    [kind |-> k, keys |-> K, limits |-> {}, writes |-> n, autoRecover |-> FALSE,
     faults |-> f]

Outages == {"get", "cancel", "query"}

AllSettings ==
    {Of("user", {k1}, 3, Outages),
     Of("role", {k1}, 2, Outages),
     Of("alias", {k1}, 4, Outages),
     Of("router", {k1, k2}, 4, Outages),
     [Of("router", {k1, k2}, 3, Outages) EXCEPT !.limits = {k2}],
     Of("server", {k1}, 3, Outages),
     Of("partition", {k1}, 3, Outages),
     Of("partition", {k1}, 3, {"clock", "cancel"}),
     Of("space", {k1, k2}, 3, Outages),
     Of("space", {k1, k2}, 4, {"rename"}),
     [Of("alias", {k1}, 4, {"cancel", "recovery"}) EXCEPT !.autoRecover = TRUE]}

\* Whatever became of their events, entries that requests ask for get into the
\* cache (reload), and the watch comes back after a cancellation and catches up.
CacheRecovers == LoadedOnDemand /\ WatchCatchesUp
============================================================================
