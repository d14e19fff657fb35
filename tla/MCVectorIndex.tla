---- MODULE MCVectorIndex ----
(***************************************************************************)
(* The vector index of a field: how it follows the raw vectors through     *)
(* writes, dumps and crashes (VectorStore), and its lists in memory with a *)
(* reader at every step (InvertedLists).  kind tells which of the two a    *)
(* behaviour is about; the other one stays in an initial state.            *)
(***************************************************************************)
EXTENDS VectorStore, InvertedLists, TLC

VARIABLE kind

MCEnvs == {[store |-> "RocksDB", index |-> "IVFPQ", rt |-> FALSE],
           [store |-> "RocksDB", index |-> "IVFFLAT", rt |-> TRUE],
           [store |-> "MemoryOnly", index |-> "HNSW", rt |-> FALSE]}

MCMaxOps(index) == IF index = "IVFFLAT" THEN 3 ELSE 2

MCSymmetry == Permutations(Keys)

MCListOf(v) == (v % 2) + 1
MCStores == {s \in [0 .. MaxVids - 1 -> Vectors] : s[0] = 1 /\ s[1] = 2 /\ s[2] = 1}
MCBudgets == {[updates |-> 2, deletes |-> 1, reads |-> 0], [updates |-> 1, deletes |-> 1, reads |-> 1]}

MCInit ==
  /\ Init /\ ListsInit
  /\ \/ kind = "store" /\ budget.reads = 0
     \/ kind = "lists" /\ env.index = "HNSW"

MCNext ==
  \/ kind = "store" /\ Next /\ UNCHANGED <<kind, listVars>>
  \/ kind = "lists" /\ ListsNext /\ UNCHANGED <<kind, vars>>

MCSpec == MCInit /\ [][MCNext]_<<kind, vars, listVars>>

(* The variables of the store and of the lists have their types. *)
VectorTypeOK == IF kind = "store" THEN TypeOK ELSE ListsTypeOK

(* The index of a quiet engine has exactly the vectors of the live         *)
(* documents, a real-time search sees every one of them, and the count of  *)
(* indexed vectors never passes the store (VectorManager, the indexing     *)
(* thread, Dump and Load).                                                 *)
IndexFollows == VectorTypeOK /\ CountWithinStore /\ IndexIsStore /\ RealtimeSees

(* Between the writer's steps every live vector has one entry, where its   *)
(* position says; no array is read past its end; and a reader at any point *)
(* sees each vector it should once, with its code (RealTimeMemData).       *)
ListsSound == InBounds /\ EachOnce /\ ReaderSound
====
