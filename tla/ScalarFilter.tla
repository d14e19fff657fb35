---------------------------- MODULE ScalarFilter ----------------------------
(***************************************************************************)
(* A filter on scalar fields, from the conditions of a request to the      *)
(* documents it selects: the router parses and folds the conditions        *)
(* (doc_query.go), the engine plans which READY indexes serve them         *)
(* (scalar_index_manager.cc) and reads the indexes (inverted_index.cc,     *)
(* bitmap_index.cc, composite_index.cc). Search feeds the vector search,   *)
(* Query lists documents page by page.                                     *)
(*                                                                         *)
(* A document's value of a field is a set: one member, or for a            *)
(* STRINGARRAY its elements. Strings are ranked 0, 1, ... in the order of  *)
(* their bytes; Under[s] are the strings that are s or begin with s and    *)
(* the "_" that ends a value in an inverted key.                           *)
(***************************************************************************)
EXTENDS FilterBounds, Sequences, FiniteSets, SequencesExt

CONSTANTS FieldType,   \* field id -> "INT", "FLOAT", "STRING", "STRINGARRAY"
          FloatAt,     \* float -> its value, in halves of the epsilon
          Coarse,      \* floats so large that the epsilon is lost on them
          Under,       \* string -> strings its inverted key prefix matches
          Table,       \* docid -> field id -> set of values
          Requests,    \* the requests: [op, conds]
          Indexings,   \* the engine's indexes: [single, composites, deleted]
          PageSize     \* topn of the listing

VARIABLES req,      \* the request
          ix,       \* single: field -> type or "NONE"; composites: the READY
                    \* ones, each its sequence of fields; building: fields
                    \* whose single index is not READY; deleted: docids
          pc,       \* "parse", "search", "query", "done", "refused", "lost"
          filters,  \* range filters, then term filters
          found,    \* documents Search lets through
          pages     \* the pages Query lists, from offset 0

filterVars == <<req, ix, pc, filters, found, pages>>

FieldIds == DOMAIN FieldType
Docs == DOMAIN Table
Numeric(fld) == FieldType[fld] \in {"INT", "FLOAT"}

-----------------------------------------------------------------------------
(* parseFilter, parseRange, parseTerm.                                     *)

RangeFilter(fld, lo, incLo, hi, incHi, op) ==
  [field |-> fld, lo |-> lo, hi |-> hi, incLo |-> incLo, incHi |-> incHi,
   op |-> op, items |-> <<>>]

(* A term filter has a value only: the bounds stay empty and exclusive. *)
TermFilter(fld, items, op) ==
  [field |-> fld, lo |-> 0, hi |-> 0, incLo |-> FALSE, incHi |-> FALSE,
   op |-> op, items |-> items]

IsRange(c) == c.op \in RangeOps

NotEqualFilters(fld, cs) ==
  LET ne == SelectSeq(cs, LAMBDA c : c.op = "<>")
  IN [i \in 1 .. Len(ne) |-> RangeFilter(fld, ne[i].v, TRUE, ne[i].v, TRUE, "Not")]

parseRangeForAnd(fld, cs) ==
  LET b == FoldLeft(LAMBDA acc, c : Narrow(acc, c.op, c.v), Everything, cs)
      nots == NotEqualFilters(fld, cs)
  IN IF nots # <<>> /\ b = Everything THEN nots
     ELSE Append(nots, RangeFilter(fld, b.lo, b.incLo, b.hi, b.incHi, "Or"))

parseRangeForOr(fld, cs) ==
  LET h0 == FoldLeft(LAMBDA acc, c : Widen(acc, c.op, c.v), Nothing, cs)
      eqs == SelectSeq(cs, LAMBDA c : c.op = "=")
      h == FoldLeft(LAMBDA acc, c : Close(acc, c.v), h0, eqs)
      pts == SelectSeq(eqs, LAMBDA c : Point(h, c.v))
      points == [i \in 1 .. Len(pts) |->
                   RangeFilter(fld, pts[i].v, TRUE, pts[i].v, TRUE, "Or")]
      left == IF HasLeft(h)
              THEN <<RangeFilter(fld, 0, TRUE, h.left, h.incLeft, "Or")>> ELSE <<>>
      right == IF HasRight(h)
               THEN <<RangeFilter(fld, h.right, h.incRight, Top, TRUE, "Or")>> ELSE <<>>
  IN NotEqualFilters(fld, cs) \o points \o
     (IF Meet(h) THEN <<RangeFilter(fld, 0, TRUE, Top, TRUE, "Or")>>
      ELSE left \o right)

(* The index that serves a field, as the space declares it: declared       *)
(* indexes include those the engine is still building.                     *)
isIndexedField(fld) ==
  ix.single[fld] # "NONE" \/ \E c \in ix.composites : fld \in Range(c)

Refused(c) == IsRange(c) # Numeric(c.field) \/ ~isIndexedField(c.field)

OnField(cs, fld) == SelectSeq(cs, LAMBDA c : c.field = fld)

(* The members of a set in order: the i-th has i - 1 before it. *)
Sorted(S, Less(_, _)) ==
  [i \in 1 .. Cardinality(S) |-> CHOOSE x \in S : Cardinality({y \in S : Less(y, x)}) = i - 1]

(* Fields come in the order of a Go map; any order selects the same        *)
(* documents, so they are taken in ascending order.                        *)
PerField(Op(_, _), cs) ==
  LET fs == Sorted({c.field : c \in Range(cs)}, <)
  IN FlattenSeq([i \in 1 .. Len(fs) |-> Op(fs[i], OnField(cs, fs[i]))])

parseRange(op, cs) ==
  IF op = "AND" THEN PerField(parseRangeForAnd, cs) ELSE PerField(parseRangeForOr, cs)

parseTerm(cs) ==
  PerField(LAMBDA fld, on : [i \in 1 .. Len(on) |->
             TermFilter(fld, on[i].items, IF on[i].op = "IN" THEN "Or" ELSE "Not")], cs)

parseFilter ==
  /\ pc = "parse"
  /\ LET ranges == SelectSeq(req.conds, IsRange)
         terms == SelectSeq(req.conds, LAMBDA c : ~IsRange(c))
     IN IF \E c \in Range(req.conds) : Refused(c)
        THEN pc' = "refused" /\ UNCHANGED filters
        ELSE /\ filters' = parseRange(req.op, ranges) \o parseTerm(terms)
             /\ pc' = "search"
  /\ UNCHANGED <<req, ix, found, pages>>

-----------------------------------------------------------------------------
(* Index keys. An index over a sequence of fields holds, for every live    *)
(* document, one key per combination of its values: the values in order,   *)
(* then the docid (GenKey, GenCompositeKey). Keys are read in order. An    *)
(* index that is being built holds the docids up to Backfilled.            *)

LiveDocs == Docs \ ix.deleted

Backfilled == Cardinality(Docs) \div 2

HeldDocs(fs) == IF Len(fs) = 1 /\ fs[1] \in ix.building THEN {d \in LiveDocs : d < Backfilled} ELSE LiveDocs

KeysOf(fs) ==
  UNION {{Append(vs, d) : vs \in {w \in [1 .. Len(fs) -> UNION {Table[d][fs[i]] : i \in 1 .. Len(fs)}] :
                                    \A i \in 1 .. Len(fs) : w[i] \in Table[d][fs[i]]}} : d \in HeldDocs(fs)}

Lex(k, l) ==
  \E i \in 1 .. Len(k) : k[i] < l[i] /\ \A j \in 1 .. i - 1 : k[j] = l[j]

(* An order of composites, for the buckets of OrganizeFiltersForOr, which  *)
(* come in the order of their addresses: any gives the same union.         *)
Shorter(c, e) == IF Len(c) = Len(e) THEN Lex(c, e) ELSE Len(c) < Len(e)

DocOf(k) == Last(k)
DocsOf(ks) == {DocOf(k) : k \in ks}

(* How one item of an IN list is looked up: an inverted key prefix of a    *)
(* string matches more than the string.                                    *)
Looked(kind, fld, item) ==
  IF kind = "INVERTED" /\ ~Numeric(fld) THEN Under[item] ELSE {item}

(* A plausible slip: an exclusive bound moved too far. *)
AdjustTooFar(fld, v, delta) ==
  IF FieldType[fld] = "INT" THEN (v + 2 * delta) % (Top + 1) ELSE FloatAt[v] + 2 * delta

(* AdjustDataTypeBoundary: integers wrap at their width; a float moves by  *)
(* an epsilon, 1e-6, from zero if it is smaller than that, and a float of  *)
(* 32 or more stays.                                                       *)
AdjustDataTypeBoundary(fld, v, delta) ==
  CASE FieldType[fld] = "INT" -> (v + delta) % (Top + 1)
    [] FieldType[fld] = "FLOAT" /\ v \in Coarse -> FloatAt[v]
    [] OTHER -> IF FloatAt[v] \in {-1, 0, 1} THEN 2 * delta ELSE FloatAt[v] + 2 * delta

NumericToSortable(fld, v) == IF FieldType[fld] = "FLOAT" THEN FloatAt[v] ELSE v

(* Range of the indexes that are RocksDB keys (InvertedIndex::Range,       *)
(* CompositeIndex::Range).                                                 *)
KeyRange(fld, f, v) ==
  LET key == NumericToSortable(fld, v) IN
  /\ key >= IF f.incLo THEN NumericToSortable(fld, f.lo) ELSE AdjustDataTypeBoundary(fld, f.lo, 1)
  /\ key <= IF f.incHi THEN NumericToSortable(fld, f.hi) ELSE AdjustDataTypeBoundary(fld, f.hi, -1)

(* Range of a bitmap index is exact; with its bounds crossed the iterator  *)
(* starts behind its end as soon as the index holds a value between them   *)
(* (a deleted document's value keeps its empty bitmap).                    *)
BitmapLost(f) ==
  /\ f.lo > f.hi
  /\ \E d \in Docs, v \in Num :
       v \in Table[d][f.field] /\ ~(IF f.incLo THEN v >= f.lo ELSE v > f.lo)
                               /\ ~(IF f.incHi THEN v <= f.hi ELSE v < f.hi)

(* Filter on one index, its keys in reading order: the entries that match. *)
(* A composite index stands for its first field.                           *)
Matching(kind, fs, f) ==
  LET fld == fs[1]
      ks == KeysOf(fs)
      eq == {k \in ks : k[1] = f.lo}
      rng == {k \in ks : IF kind = "BITMAP" THEN Inside(f, k[1]) ELSE KeyRange(fld, f, k[1])}
      item(i) == {k \in ks : k[1] \in Looked(kind, fld, f.items[i])}
  IN IF Numeric(fld)
     THEN Sorted(IF f.lo = f.hi THEN eq ELSE rng, Lex)
     ELSE FlattenSeq([i \in 1 .. Len(f.items) |-> Sorted(item(i), Lex)])

Entries(kind, fs, f) == LET m == Matching(kind, fs, f) IN [i \in 1 .. Len(m) |-> DocOf(m[i])]

(* NotIn and NotEqual start from every docid of the storage, deleted ones  *)
(* included. A negated interval is no filter the router builds.            *)
Negated(f) == f.op = "Not" /\ (~Numeric(f.field) => f.items # <<>>)

FilterOne(kind, fs, f) ==
  LET hit == Range(Entries(kind, fs, f)) IN IF Negated(f) THEN Docs \ hit ELSE hit

-----------------------------------------------------------------------------
(* Composite indexes: which strategy serves a list of filters, and what it *)
(* reads.                                                                  *)

(* GetFilterMode; "NONE" when the filter has no mode. *)
GetFilterMode(f) ==
  CASE ~Numeric(f.field) /\ f.items = <<>>                    -> "NONE"
    [] ~Numeric(f.field) /\ f.items # <<>> /\ f.op = "Or"     -> "In"
    [] ~Numeric(f.field) /\ f.items # <<>> /\ f.op = "Not"    -> "NotIn"
    [] Numeric(f.field) /\ f.lo = f.hi /\ f.incLo /\ f.incHi  ->
         IF f.op = "Not" THEN "NotEqual" ELSE "Equal"
    [] Numeric(f.field) /\ ~(f.lo = f.hi /\ f.incLo /\ f.incHi) -> "Range"

FieldsOf(fs) == {f.field : f \in Range(fs)}

(* CanUseCompositeFilter, CanUseFilterMode: the strategy for filters that  *)
(* are in the order of the composite's fields, "NONE" if they cannot use   *)
(* its keys as a prefix.                                                   *)
PrefixStrategy(c, fs) ==
  LET modes == [i \in 1 .. Len(fs) |-> GetFilterMode(fs[i])]
      used == Range(modes)
  IN CASE \/ Cardinality(FieldsOf(fs)) # Len(fs)
          \/ FieldsOf(fs) # Range(SubSeq(c, 1, Len(fs)))
          \/ "NONE" \in used
          \/ used \cap {"NotEqual", "NotIn"} # {} /\ Len(fs) # 1
          \/ \E i \in 1 .. Len(fs) - 1 : modes[i] = "Range"  -> "NONE"
       [] OTHER ->
          CASE "In" \in used           -> "IN"
            [] used = {"NotEqual"}     -> "NOT_EQUAL"
            [] used = {"NotIn"}        -> "NOT_IN"
            [] used = {"Equal"}        -> "EQUAL"
            [] OTHER                   -> "RANGE"

(* Equal and Range of a composite: the leading fields pinned to values,    *)
(* then optionally one interval on the next field.                         *)
CompositeEqual(c, vs) ==
  DocsOf({k \in KeysOf(c) : vs # <<>> /\ SubSeq(k, 1, Len(vs)) = vs})

CompositeRange(c, vs, f) ==
  DocsOf({k \in KeysOf(c) : /\ SubSeq(k, 1, Len(vs)) = vs
                            /\ KeyRange(f.field, f, k[Len(vs) + 1])})

(* ExecuteInCase: one read per combination of the listed values. *)
ExecuteInCase(c, fs) ==
  LET ranged == GetFilterMode(Last(fs)) = "Range"
      lead == IF ranged THEN Front(fs) ELSE fs
      choices(f) == IF Numeric(f.field) THEN {f.lo} ELSE Range(f.items)
      combos == {vs \in [1 .. Len(lead) -> UNION {choices(f) : f \in Range(lead)}] :
                   \A i \in 1 .. Len(lead) : vs[i] \in choices(lead[i])}
  IN UNION {IF ranged THEN CompositeRange(c, vs, Last(fs)) ELSE CompositeEqual(c, vs) :
              vs \in combos}

Values(fs) == [i \in 1 .. Len(fs) |-> fs[i].lo]

(* CompositeIndex::Scan. The range of keys read is narrowed first:         *)
(* BuildEqualPrefix pins leading fields that have a single value,          *)
(* BuildScanSegments splits on the next field.                             *)
FirstAt(c, fs, pos) == SelectSeq(fs, LAMBDA f : f.field = c[pos])

(* A plausible slip: a pinned array element kept although the field has    *)
(* another filter, so that the document's other elements are not read.     *)
PinnedOnce(c, fs, pos) ==
  LET on == FirstAt(c, fs, pos)
      f == on[1]
  IN /\ on # <<>>
     /\ f.op # "Not"
     /\ IF Numeric(c[pos]) THEN f.lo = f.hi /\ f.incLo /\ f.incHi ELSE Len(f.items) = 1

Pinned(c, fs, pos) ==
  LET on == FirstAt(c, fs, pos)
      f == on[1]
  IN /\ on # <<>>
     /\ f.op # "Not"
     /\ CASE FieldType[c[pos]] = "STRINGARRAY" -> Len(on) = 1 /\ Len(f.items) = 1
          [] FieldType[c[pos]] = "STRING"      -> Len(f.items) = 1
          [] OTHER                             -> f.lo = f.hi /\ f.incLo /\ f.incHi

PinnedLen(c, fs, inner) ==
  IF inner = "OR" THEN 0
  ELSE CHOOSE n \in 0 .. Len(c) :
         /\ \A p \in 1 .. n : Pinned(c, fs, p)
         /\ n < Len(c) => ~Pinned(c, fs, n + 1)

PinnedValue(c, fs, pos) ==
  LET f == FirstAt(c, fs, pos)[1]
  IN IF Numeric(f.field) THEN f.lo ELSE f.items[1]

kInSegmentThreshold == 16

(* One filter splits the range of the field after the pinned ones. *)
InSegment(f, v) ==
  CASE f.op = "Not" \/ FieldType[f.field] = "STRINGARRAY" -> TRUE
    [] Numeric(f.field) /\ f.op # "Not" ->
         v >= f.lo /\ IF f.incHi THEN v <= f.hi ELSE v < f.hi
    [] FieldType[f.field] = "STRING" /\ f.op # "Not" ->
         Len(f.items) \in 2 .. kInSegmentThreshold => v \in Range(f.items)

(* A key is read: its first n fields are pinned. *)
InSegments(c, fs, inner, n, k) ==
  /\ \A p \in 1 .. n : k[p] = PinnedValue(c, fs, p)
  /\ inner = "AND" /\ n < Len(c) /\ FirstAt(c, fs, n + 1) # <<>> =>
       InSegment(FirstAt(c, fs, n + 1)[1], k[n + 1])

(* EvalFilterForDocid: the values a document showed at the filter's        *)
(* position. Without arrays a document has one key and one value, and      *)
(* MatchOne decides the same.                                              *)
EvalFilterForDocid(f, vals) ==
  CASE ~Numeric(f.field) ->
         (vals \cap Range(f.items) # {}) = (f.op # "Not")
    [] Numeric(f.field) /\ f.lo = f.hi /\ f.incLo /\ f.incHi ->
         (f.lo \in vals) = (f.op # "Not")
    [] OTHER -> \E v \in vals : Inside(f, v)

Position(c, fld) == CHOOSE p \in 1 .. Len(c) : c[p] = fld

(* The documents of the keys read whose filters hold, all or one of them. *)
Hits(c, fs, inner, read) ==
  LET passed(d) == {f \in Range(fs) :
        EvalFilterForDocid(f, {k[Position(c, f.field)] : k \in {l \in read : DocOf(l) = d}})}
  IN {d \in DocsOf(read) :
        IF inner = "AND" THEN passed(d) = Range(fs) ELSE passed(d) # {}}

Scan(c, fs, inner) ==
  Hits(c, fs, inner, {k \in KeysOf(c) : InSegments(c, fs, inner, PinnedLen(c, fs, inner), k)})

(* CompositeFilter. *)
CompositeFilter(c, fs, strategy, inner) ==
  CASE strategy = "EQUAL" -> CompositeEqual(c, Values(fs))
    [] strategy = "RANGE" -> CompositeRange(c, Values(Front(fs)), Last(fs))
    [] strategy = "IN"    -> ExecuteInCase(c, fs)
    [] strategy \in {"NOT_IN", "NOT_EQUAL"} -> FilterOne("COMPOSITE", c, fs[1])
    [] strategy = "SCAN"  -> Scan(c, fs, inner)

-----------------------------------------------------------------------------
(* OrganizeFiltersToIndex: which indexes serve which filters.              *)

ReadySingle(fld) == ix.single[fld] # "NONE" /\ fld \notin ix.building

ReadyComposite(fld) == {c \in ix.composites : fld \in Range(c)}

OfField(fs, fld) == SelectSeq(fs, LAMBDA f : f.field = fld)

(* BuildCompositeViews: the filters on the composite's leading fields, up  *)
(* to the first field that has none; and the filters on any of its fields. *)
PrefixView(c, fs) ==
  LET n == CHOOSE m \in 0 .. Len(c) :
             /\ \A i \in 1 .. m : OfField(fs, c[i]) # <<>>
             /\ m < Len(c) => OfField(fs, c[m + 1]) = <<>>
  IN FlattenSeq([i \in 1 .. n |-> OfField(fs, c[i])])

AllView(c, fs) == SelectSeq(fs, LAMBDA f : f.field \in Range(c))

(* ChoosePerCompositeStrategy. *)
NoPlan == [index |-> <<>>, fs |-> <<>>, strategy |-> "NONE"]

ChoosePlan(c, fs) ==
  LET pre == PrefixView(c, fs)
      all == AllView(c, fs)
      st == IF pre # <<>> /\ FieldsOf(pre) = FieldsOf(all) THEN PrefixStrategy(c, pre) ELSE "NONE"
  IN CASE st # "NONE" -> [index |-> c, fs |-> pre, strategy |-> st]
       [] st = "NONE" /\ all # <<>> /\ \A f \in Range(all) : GetFilterMode(f) # "NONE" ->
            [index |-> c, fs |-> all, strategy |-> "SCAN"]
       [] OTHER -> NoPlan

(* Prefix strategies before scans, longer composites before shorter ones;  *)
(* the rest in the order of their addresses, here of their fields.         *)
Before(p, q) ==
  IF (p.strategy = "SCAN") # (q.strategy = "SCAN") THEN q.strategy = "SCAN"
  ELSE IF Len(p.index) # Len(q.index) THEN Len(p.index) > Len(q.index)
  ELSE Lex(p.index, q.index)

(* The composites used: one whose filters' fields are all covered by an    *)
(* earlier one is passed over.                                             *)
Used(fs) ==
  LET plans == {ChoosePlan(c, fs) : c \in ix.composites} \ {NoPlan}
  IN FoldLeft(LAMBDA acc, p :
                IF FieldsOf(p.fs) \subseteq UNION {FieldsOf(q.fs) : q \in Range(acc)}
                THEN acc ELSE Append(acc, p),
              <<>>, Sorted(plans, Before))

Covered(plans) == UNION {FieldsOf(p.fs) : p \in Range(plans)}

(* OrganizeFiltersToIndex returns -1. *)
Unserved == [composites |-> <<>>, singles |-> <<>>]

(* The AND branch: the plans, then a READY single-field index for each     *)
(* filter no plan covers.                                                  *)
AndParts(fs, plans) ==
  LET left == SelectSeq(fs, LAMBDA f : f.field \notin Covered(plans) /\ ReadySingle(f.field))
  IN IF Covered(plans) \cup FieldsOf(left) # FieldsOf(fs) THEN Unserved
     ELSE [composites |-> plans, singles |-> left]

(* OrganizeFiltersForOr: a READY single-field index for each filter, else  *)
(* the first composite that owns the field scans its filters together.     *)
Host(fld) == CHOOSE c \in ReadyComposite(fld) : TRUE

OrParts(fs) ==
  LET hosted == SelectSeq(fs, LAMBDA f : ~ReadySingle(f.field))
      hosts == Sorted({Host(f.field) : f \in Range(hosted)}, Shorter)
      bucket(c) == SelectSeq(hosted, LAMBDA f : Host(f.field) = c)
  IN IF \/ \E f \in Range(hosted) : ReadyComposite(f.field) = {}
        \/ \E f \in Range(hosted) : GetFilterMode(f) = "NONE"
     THEN Unserved
     ELSE [composites |-> [i \in 1 .. Len(hosts) |->
             [index |-> hosts[i], fs |-> bucket(hosts[i]), strategy |-> "SCAN"]],
           singles |-> SelectSeq(fs, LAMBDA f : ReadySingle(f.field))]

Servable(fs) ==
  \A f \in Range(fs) : ReadySingle(f.field) \/ ReadyComposite(f.field) # {}

OrganizeFiltersToIndex(fs) == IF req.op = "OR" THEN OrParts(fs) ELSE AndParts(fs, Used(fs))

(* SearchLocked: the parts intersected or united. A field no READY index   *)
(* serves ends the search with no result.                                  *)
SetsOf(parts) ==
  {CompositeFilter(p.index, p.fs, p.strategy, req.op) : p \in Range(parts.composites)}
    \cup {FilterOne(ix.single[f.field], <<f.field>>, f) : f \in Range(parts.singles)}

Combined(sets) ==
  IF req.op = "AND" THEN {d \in Docs : \A s \in sets : d \in s} ELSE UNION sets

Results(fs, parts) ==
  IF ~Servable(fs) \/ parts = Unserved THEN {} ELSE Combined(SetsOf(parts))

SearchLocked(fs) == Results(fs, OrganizeFiltersToIndex(fs))

(* A crossed interval that a bitmap index is asked for.                    *)
Lost(fs) ==
  LET parts == OrganizeFiltersToIndex(fs)
  IN /\ Servable(fs) /\ parts # Unserved
     /\ \E f \in Range(parts.singles) :
          ix.single[f.field] = "BITMAP" /\ Numeric(f.field) /\ BitmapLost(f)

-----------------------------------------------------------------------------
(* Engine::Search hands the documents that pass to the vector search,      *)
(* which skips deleted ones; without filters it searches all of them.      *)
Search ==
  /\ pc = "search"
  /\ IF filters # <<>> /\ Lost(filters)
     THEN pc' = "lost" /\ UNCHANGED found
     ELSE /\ found' = (IF filters = <<>> THEN Docs ELSE SearchLocked(filters)) \ ix.deleted
          /\ pc' = "query"
  /\ UNCHANGED <<req, ix, filters, pages>>

(* QueryLocked's short cut: one filter with a single-field index, or with  *)
(* a composite whose first field it is, stops after a page of entries.     *)
FirstOf(fld) == {c \in ix.composites : c[1] = fld}

Listing(f) ==
  LET kind == IF ReadySingle(f.field) THEN ix.single[f.field] ELSE "COMPOSITE"
      fs == IF ReadySingle(f.field) THEN <<f.field>> ELSE CHOOSE c \in FirstOf(f.field) : TRUE
  IN IF Negated(f) \/ kind = "BITMAP"
     THEN Sorted(FilterOne(kind, fs, f), <) ELSE Entries(kind, fs, f)

ShortCut(fs) == Len(fs) = 1 /\ (ReadySingle(fs[1].field) \/ FirstOf(fs[1].field) # {})

(* The entries after the offset, up to PageSize different documents. *)
Page(s, offset) ==
  LET rest == SubSeq(s, offset + 1, Len(s))
  IN {rest[i] : i \in {j \in 1 .. Len(rest) :
        Cardinality({rest[m] : m \in 1 .. j - 1}) < PageSize}}

(* The long way sorts what SearchLocked found, skips the offset and takes  *)
(* live documents up to the page size.                                     *)
QueryPage(fs, offset) ==
  LET rest(sorted) ==
        SelectSeq(SubSeq(sorted, offset + 1, Len(sorted)), LAMBDA d : d \notin ix.deleted)
  IN CASE fs = <<>> \/ ~Servable(fs) -> {}
       [] fs # <<>> /\ Servable(fs) /\ ShortCut(fs) -> Page(Listing(fs[1]), offset) \ ix.deleted
       [] OTHER -> Page(rest(Sorted(SearchLocked(fs), <)), 0)

PageCount == (Cardinality(Docs) \div PageSize) + 1

(* The short cut asks the single-field index even where Search had used a  *)
(* composite.                                                              *)
ListingLost(fs) ==
  /\ ShortCut(fs)
  /\ ReadySingle(fs[1].field) /\ ix.single[fs[1].field] = "BITMAP"
  /\ Numeric(fs[1].field) /\ BitmapLost(fs[1])

Query ==
  /\ pc = "query"
  /\ IF ListingLost(filters)
     THEN pc' = "lost" /\ UNCHANGED pages
     ELSE /\ pages' = [n \in 1 .. PageCount |-> QueryPage(filters, (n - 1) * PageSize)]
          /\ pc' = "done"
  /\ UNCHANGED <<req, ix, filters, found>>

FilterInit ==
  /\ req \in Requests
  /\ ix \in Indexings
  /\ pc = "parse"
  /\ filters = <<>>
  /\ found = {}
  /\ pages = <<>>

FilterNext == parseFilter \/ Search \/ Query

FilterSpec == FilterInit /\ [][FilterNext]_filterVars

-----------------------------------------------------------------------------
(* What the request asks for.                                              *)

Sat(c, d) ==
  IF IsRange(c) THEN \E v \in Table[d][c.field] : Holds(c.op, c.v, v)
  ELSE (Table[d][c.field] \cap Range(c.items) # {}) = (c.op = "IN")

Expected ==
  {d \in LiveDocs : IF req.op = "AND" THEN \A c \in Range(req.conds) : Sat(c, d)
                ELSE \E c \in Range(req.conds) : Sat(c, d)}

(* Filters the indexes do not read for what they say: an open interval of  *)
(* one point; a strict bound at the end of an integer type, on a large     *)
(* float, or on a float that another one is as near to as two epsilons; a  *)
(* string that another value continues after a "_"; an empty list to       *)
(* exclude.                                                                *)
OpenPoint(f) == Numeric(f.field) /\ f.lo = f.hi /\ ~(f.incLo /\ f.incHi)
Wraps(f) == FieldType[f.field] = "INT" /\ (\/ ~f.incLo /\ f.lo = Top
                                           \/ ~f.incHi /\ f.hi = 0)
Strict(f) == (IF f.incLo THEN {} ELSE {f.lo}) \cup (IF f.incHi THEN {} ELSE {f.hi})
Absorbed(f) == FieldType[f.field] = "FLOAT" /\ Strict(f) \cap Coarse # {}
Crowded(f) ==
  /\ FieldType[f.field] = "FLOAT"
  /\ \E v \in Strict(f), w \in Num : v # w /\ FloatAt[w] - FloatAt[v] \in -4 .. 4
Continued(f) == \E s \in Range(f.items) : Under[s] # {s}
EmptyNot(f) == ~Numeric(f.field) /\ f.items = <<>> /\ f.op = "Not"

Plain(f) ==
  ~(OpenPoint(f) \/ Wraps(f) \/ Absorbed(f) \/ Crowded(f) \/ Continued(f) \/ EmptyNot(f))

FilterTypeOK ==
  /\ pc \in {"parse", "search", "query", "done", "refused", "lost"}
  /\ found \subseteq LiveDocs
  /\ \A f \in Range(filters) : /\ f.field \in FieldIds
                               /\ f.lo \in Num /\ f.hi \in Num /\ f.op \in {"Or", "Not"}
  /\ \A n \in DOMAIN pages : pages[n] \subseteq LiveDocs

Answered == pc = "done" /\ ix.building = {}

(* Whatever single-field and composite indexes exist, and whichever of     *)
(* them the planner picks, the documents handed to the vector search are   *)
(* those that satisfy the request's conditions (OrganizeFiltersToIndex,    *)
(* SearchLocked), for filters the indexes read as they are.                *)
SearchIsExact ==
  Answered /\ filters # <<>> /\ (\A f \in Range(filters) : Plain(f)) => found = Expected

(* Bounds at the end of a type, open intervals, large floats and continued *)
(* strings never make a matching document disappear: where the answer is   *)
(* not exact it holds too much, unless what is too much is then excluded   *)
(* (NOT IN).  A strict bound on a float does: it moves past the floats     *)
(* that are nearer than the epsilon (AdjustBoundary), and those are left   *)
(* out here.                                                               *)
NothingMissed ==
  Answered /\ (\A f \in Range(filters) :
                 ~EmptyNot(f) /\ ~Crowded(f) /\ ~(Negated(f) /\ Continued(f)))
    => Expected \subseteq found

(* While an index is being built a request that needs it selects either    *)
(* what it would select without that index or nothing at all: never part   *)
(* of the documents (FieldIndexReadyLocked).                               *)
NeverHalfBuilt ==
  pc = "done" /\ filters # <<>> /\ (\A f \in Range(filters) : Plain(f))
    => found \in {Expected, {}}

(* The pages Query lists, the offset advanced by the page size each time,  *)
(* hold every document Search finds exactly once, unless a document has    *)
(* several keys in the index listed or deleted docids are listed too.      *)
OneKeyEach(f) ==
  IF ReadySingle(f.field) THEN FieldType[f.field] # "STRINGARRAY"
  ELSE \A c \in FirstOf(f.field) : \A i \in 1 .. Len(c) : FieldType[c[i]] # "STRINGARRAY"

PagesTile ==
  (/\ Answered /\ filters # <<>>
   /\ \A f \in Range(filters) : Plain(f) /\ (Negated(f) => ix.deleted = {})
   /\ ShortCut(filters) => OneKeyEach(filters[1]))
  => /\ UNION Range(pages) = found
     /\ \A m, n \in DOMAIN pages : m # n => pages[m] \cap pages[n] = {}
=============================================================================
