---- MODULE MCIndexingThread ----
EXTENDS IndexingThread

(* Nothing undefined happens while calls do not overlap, and a quiet       *)
(* engine has the indexes it is configured with.                           *)
IndexingSafe == TypeOK /\ NoUndefined /\ IndexesAreConfigured

(* The destructor returns, and an engine with enough documents comes back  *)
(* to an indexing thread that runs, whatever rebuilds came between.        *)
IndexingLives == Closes /\ Maintained
====
