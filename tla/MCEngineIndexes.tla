--------------------------- MODULE MCEngineIndexes ---------------------------
EXTENDS EngineIndexes

MCFields == {"a", "b"}
MCKind == [ia |-> "INVERTED", mb |-> "BITMAP", cab |-> "COMPOSITE"]
MCOn == [ia |-> <<"a">>, mb |-> <<"b">>, cab |-> <<"a", "b">>]

Put(k, a, b) == [op |-> "upsert", key |-> k, vec |-> TRUE,
                 doc |-> [f \in MCFields |-> IF f = "a" THEN a ELSE b]]
SetA(k, a) == [op |-> "upsert", key |-> k, vec |-> FALSE, doc |-> [f \in {"a"} |-> a]]
Del(k) == [op |-> "delete", key |-> k]
AddIx(n) == [op |-> "add_index", name |-> n]
RemoveIx(n) == [op |-> "remove_index", name |-> n]

Changes == {Put("k", 2, 2), SetA("k", 3), Put("l", 1, 2), Del("k"),
            AddIx("ia"), AddIx("cab"), AddIx("mb"), RemoveIx("ia")}

(* Two changes after a first document and an index.                        *)
MCLogs ==
  {<<Put("k", 1, 1), x, y, z>> :
     x \in {AddIx("ia"), AddIx("cab")}, y \in Changes \ {AddIx("mb")},
     z \in {SetA("k", 3), Del("k"), AddIx("ia"), RemoveIx("ia")}}
  \cup
  {<<Put("k", 1, 1), AddIx("mb"), y, z>> :
     y \in {Put("k", 2, 2), Del("k"), AddIx("ia")}, z \in {SetA("k", 3), Del("k"), RemoveIx("mb")}}
=============================================================================
