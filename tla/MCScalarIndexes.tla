-------------------------- MODULE MCScalarIndexes --------------------------
(***************************************************************************)
(* The scalar indexes of an engine: what a filter reads from them          *)
(* (ScalarFilter) and how they follow the log (EngineIndexes).  kind tells *)
(* which of the two a behaviour is about; the other one stays in an        *)
(* initial state.                                                          *)
(*                                                                         *)
(* The filter runs over one table in which every pair of values of two     *)
(* fields occurs, with requests of up to three conditions and several ways *)
(* to index its fields.  Strings: 0 is "x", 1 is "x_y", 2 is "y".          *)
(***************************************************************************)
EXTENDS MCEngineIndexes, ScalarFilter, SortableKeys

VARIABLE kind

num == 1
str == 2
arr == 3
flt == 4

MCFieldType == <<"INT", "STRING", "STRINGARRAY", "FLOAT">>

\* 0, 5e-7, 4e-6 and 64: the second is nearer to the first than the epsilon
MCFloatAt == [v \in 0 .. 3 |-> <<0, 1, 8, 128000000>>[v + 1]]

MCUnder == [v \in 0 .. 2 |-> IF v = 0 THEN {0, 1} ELSE {v}]

Arrays == <<{0}, {2}, {1, 2}>>

MCTable ==
  [d \in 0 .. 3 * (Top + 1) - 1 |->
     LET x == d % (Top + 1)
         y == d \div (Top + 1)
     IN <<{x}, {y}, Arrays[((x + y) % 3) + 1], {x}>>]

RangeConds(fld) == {[op |-> o, field |-> fld, v |-> x, items |-> <<>>] : o \in RangeOps, x \in Num}

Lists(fld) == {<<IF fld = arr THEN 1 ELSE 0>>, <<2>>, <<1, 2>>}

TermConds(fld) == {[op |-> o, field |-> fld, v |-> 0, items |-> l] : o \in {"IN", "NOT IN"}, l \in Lists(fld)}

EmptyList(fld) == [op |-> "NOT IN", field |-> fld, v |-> 0, items |-> <<>>]

Conds == RangeConds(num) \cup TermConds(str) \cup TermConds(arr)

Single == {<<c>> : c \in Conds \cup RangeConds(flt) \cup {EmptyList(str), [EmptyList(num) EXCEPT !.op = "IN"]}}
Terms == TermConds(str) \cup TermConds(arr)
Pairs == {<<c, e>> : c \in RangeConds(num), e \in Conds} \cup {<<c, e>> : c, e \in Terms}
Floats == {<<c, e>> : c \in RangeConds(flt), e \in TermConds(str)}
Inner == {c \in RangeConds(num) : c.v \in {1, 2}}
Triples == {<<c, e, g>> : c \in Inner, e \in Inner, g \in {t \in TermConds(str) : t.op = "IN" /\ t.items = <<2>>}}

MCRequests == [op : {"AND", "OR"}, conds : Single \cup Pairs \cup Floats \cup Triples]

Indexing(single, composites, building, deleted) ==
  [single |-> single, composites |-> composites, building |-> building, deleted |-> deleted]

Inv4 == <<"INVERTED", "INVERTED", "INVERTED", "INVERTED">>
Bit4 == <<"BITMAP", "BITMAP", "BITMAP", "BITMAP">>
None4 == <<"NONE", "NONE", "NONE", "NONE">>

MCIndexings ==
  { Indexing(Inv4, {}, {}, {}),
    Indexing(Inv4, {}, {str}, {4}),
    Indexing(Bit4, {}, {}, {5}),
    Indexing(Bit4, {<<num, str>>}, {num}, {}),
    Indexing(None4, {<<num, str, arr>>}, {}, {2}),
    Indexing(None4, {<<str, num>>, <<arr, num>>, <<flt, str>>}, {}, {}),
    Indexing(<<"NONE", "BITMAP", "INVERTED", "NONE">>, {<<arr, num, str>>, <<num, arr>>, <<str, flt>>}, {}, {1}) }

-----------------------------------------------------------------------------
MCInit ==
  \/ kind = "filter" /\ Init /\ log = <<Put("k", 1, 1), AddIx("ia"), Del("k"), Del("k")>> /\ FilterInit
  \/ /\ kind = "engine" /\ Init
     /\ req = [op |-> "AND", conds |-> <<>>] /\ ix = Indexing(None4, {}, {}, {})
     /\ pc = "parse" /\ filters = <<>> /\ found = {} /\ pages = <<>>

OfEngine(A) == kind = "engine" /\ A /\ UNCHANGED <<kind, filterVars>>

MCNext ==
  \/ kind = "filter" /\ FilterNext /\ UNCHANGED <<kind, vars>>
  \/ OfEngine(Next)

mcvars == <<kind, vars, filterVars>>

Applies == OfEngine(Applier)
Works == OfEngine(Worker)
Loads == OfEngine(Load)

(* The applier goroutine, the worker thread and a restarting process each  *)
(* keep running; nothing makes a crash happen.                             *)
MCSpec == MCInit /\ [][MCNext]_mcvars /\ WF_mcvars(Applies) /\ WF_mcvars(Works) /\ WF_mcvars(Loads)

-----------------------------------------------------------------------------
Keys(len) == UNION {[1 .. i -> 0 .. 2] : i \in 1 .. len}

AllDrops == ExactDrop(2, Keys(2), Keys(4))

(* Dropping an index deletes every key under its prefix, whatever bytes    *)
(* follow, and no key of another index (DropAll, AdvancePrefix).           *)
DropAllExact == pc = "done" => AllDrops

(* Whatever the interleaving and the crashes, the replica comes to rest    *)
(* with the log applied and every index task done: the applier never waits *)
(* for ever for build_write_mutex_, and Load ends.                         *)
EngineComesToRest == <>[](kind = "engine" => Settled)

(* What a filter gets beyond SearchIsExact: nothing that holds is missed   *)
(* (NOT aside), an index under construction gives the answer or none, the  *)
(* pages of a query are disjoint and together the answer, and dropping an  *)
(* index deletes its keys and no other's.                                  *)
FilterSound == FilterTypeOK /\ NothingMissed /\ NeverHalfBuilt /\ PagesTile /\ DropAllExact

(* Applied up to an entry, the documents are those of the log; an index    *)
(* that is READY has exactly their keys; at rest the indexes are those the *)
(* log defines, all of them READY, and no mark of a deletion is left.      *)
EngineIsTheLog == TypeOK /\ DocumentsAreTheLog /\ ReadyIsExact /\ IndexesAreTheLog
=============================================================================
