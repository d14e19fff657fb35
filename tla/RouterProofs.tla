---------------------------- MODULE RouterProofs ----------------------------
(***************************************************************************)
(* What is proved of the router, for every value of the constants.         *)
(*                                                                         *)
(* Its cache of the metadata (MasterCache): what it serves is what etcd    *)
(* held where the watch is, or later, and the number of routers and the    *)
(* addresses of the rpc clients follow it. The inductive invariant is      *)
(* Types /\ Follow. Types has the history of the writes in it (Hist): no   *)
(* two keys have the same slot, a space of the same name has a greater     *)
(* version, and so a handler that finds its event not newer than the entry *)
(* has been overtaken by a reload, and the entry is right.                 *)
(*                                                                         *)
(* Its folds of filters keep the meaning of the conditions they fold       *)
(* (FilterBounds), for every width of the numeric type and every bound:    *)
(* each step of parseRangeForAnd intersects the interval with its          *)
(* condition, each step of parseRangeForOr unites the half-lines and       *)
(* points with it. The keys of a scalar index, which the ranges are looked *)
(* up in, keep the order of the values they encode (SortableKeys).         *)
(***************************************************************************)
EXTENDS FilterBounds, SortableKeys, MasterCache, FiniteSetTheorems, WellFoundedInduction, TLAPS

-----------------------------------------------------------------------------
(* The folds of filters.                                                   *)

(* Every bound stays a value of the type. *)
LEMMA NarrowType ==
  ASSUME NEW b \in Interval, NEW op \in RangeOps, NEW x \in Num
  PROVE  Narrow(b, op, x) \in Interval
BY Zenon DEF Interval, RangeOps, Narrow, AtLeast, Above, AtMost, Below

(* The four ways a bound moves, each exactly the condition it is for. *)
LEMMA BoundsExact ==
  ASSUME NEW b \in Interval, NEW x \in Num, NEW v \in Num
  PROVE  /\ Inside(AtLeast(b, x), v) <=> Inside(b, v) /\ v >= x
         /\ Inside(Above(b, x), v)   <=> Inside(b, v) /\ v > x
         /\ Inside(AtMost(b, x), v)  <=> Inside(b, v) /\ v <= x
         /\ Inside(Below(b, x), v)   <=> Inside(b, v) /\ v < x
         /\ AtLeast(b, x) \in Interval
<1> USE TopAssumption DEF Num
<1>1. Inside(AtLeast(b, x), v) <=> Inside(b, v) /\ v >= x
  BY DEF Inside, AtLeast, Interval
<1>2. Inside(Above(b, x), v) <=> Inside(b, v) /\ v > x
  BY DEF Inside, Above, Interval
<1>3. Inside(AtMost(b, x), v) <=> Inside(b, v) /\ v <= x
  BY DEF Inside, AtMost, Interval
<1>4. Inside(Below(b, x), v) <=> Inside(b, v) /\ v < x
  BY DEF Inside, Below, Interval
<1>5. AtLeast(b, x) \in Interval
  BY Zenon DEF AtLeast, Interval
<1> QED
  BY <1>1, <1>2, <1>3, <1>4, <1>5

(* parseRangeForAnd: a value is inside the narrowed interval exactly when  *)
(* it was inside before and satisfies the condition ("<>" narrows nothing: *)
(* it becomes a filter of its own).                                        *)
THEOREM NarrowIsExact ==
  ASSUME NEW b \in Interval, NEW op \in RangeOps \ {"<>"}, NEW x \in Num, NEW v \in Num
  PROVE  Inside(Narrow(b, op, x), v) <=> Inside(b, v) /\ Holds(op, x, v)
<1>1. CASE op = ">="
  BY <1>1, BoundsExact DEF Narrow, Holds
<1>2. CASE op = ">"
  BY <1>2, BoundsExact DEF Narrow, Holds
<1>3. CASE op = "<="
  BY <1>3, BoundsExact DEF Narrow, Holds
<1>4. CASE op = "<"
  BY <1>4, BoundsExact DEF Narrow, Holds
<1>5. CASE op = "="
  <2>1. AtLeast(b, x) \in Interval
    BY BoundsExact
  <2>2. Inside(AtMost(AtLeast(b, x), x), v) <=> Inside(AtLeast(b, x), v) /\ v <= x
    BY <2>1, BoundsExact
  <2>3. Inside(AtLeast(b, x), v) <=> Inside(b, v) /\ v >= x
    BY BoundsExact
  <2>4. v \in Int /\ x \in Int
    BY TopAssumption DEF Num
  <2> QED
    BY <1>5, <2>2, <2>3, <2>4 DEF Narrow, Holds
<1> QED
  BY <1>1, <1>2, <1>3, <1>4, <1>5 DEF RangeOps

-----------------------------------------------------------------------------

(* What the half-lines and the point of an equality select. *)
Selected(h, v) == InLeft(h, v) \/ InRight(h, v)

LEMMA WidenType ==
  ASSUME NEW h \in HalfLines, NEW op \in RangeOps, NEW x \in Num
  PROVE  Widen(h, op, x) \in HalfLines
BY Zenon DEF HalfLines, RangeOps, Widen

(* parseRangeForOr: a value is on the widened half-lines exactly when it   *)
(* was on them before or satisfies the condition.                          *)
THEOREM WidenIsExact ==
  ASSUME NEW h \in HalfLines, NEW op \in {">=", ">", "<=", "<"},
         NEW x \in Num, NEW v \in Num
  PROVE  Selected(Widen(h, op, x), v) <=> Selected(h, v) \/ Holds(op, x, v)
<1> USE TopAssumption DEF Num, HalfLines, Selected, InLeft, InRight, Widen, Holds
<1>1. CASE op = ">="
  BY <1>1
<1>2. CASE op = ">"
  BY <1>2
<1>3. CASE op = "<="
  BY <1>3
<1>4. CASE op = "<"
  BY <1>4
<1> QED
  BY <1>1, <1>2, <1>3, <1>4, Zenon

(* An equality folded afterwards adds its value and nothing else, as the   *)
(* end of a half-line or as a point between them: no equality is lost and  *)
(* none is kept twice.                                                     *)
THEOREM CloseIsExact ==
  ASSUME NEW h \in HalfLines, NEW x \in Num, NEW v \in Num
  PROVE  /\ Selected(Close(h, x), v) \/ (Point(h, x) /\ v = x)
              <=> Selected(h, v) \/ v = x
         /\ Point(h, x) => Close(h, x) = h
<1> USE TopAssumption DEF Num, HalfLines, Selected, InLeft, InRight, Close, Point
<1>1. CASE x < h.left \/ x > h.right
  BY <1>1
<1>2. CASE x = h.left
  BY <1>2
<1>3. CASE x = h.right /\ x # h.left
  BY <1>3
<1>4. CASE h.left < x /\ x < h.right
  BY <1>4
<1> QED
  BY <1>1, <1>2, <1>3, <1>4

(* The intervals parseRangeForOr sends select what the half-lines select:  *)
(* the whole type when they meet, else those of the two that are not       *)
(* empty. Nothing selected means nothing sent.                             *)
THEOREM SentIsSelected ==
  ASSUME NEW h \in HalfLines, NEW v \in Num
  PROVE  /\ Meet(h) => Selected(h, v)
         /\ InLeft(h, v) => HasLeft(h)
         /\ InRight(h, v) => HasRight(h)
         /\ ~Meet(h) => ~(InLeft(h, v) /\ InRight(h, v))
BY TopAssumption
   DEF Num, HalfLines, Selected, InLeft, InRight, Meet, HasLeft, HasRight

-----------------------------------------------------------------------------

(* The keys of integers are ordered as the integers, and two integers have *)
(* the same key only if they are equal: a RocksDB range over the keys is a *)
(* range of values (Int32ToSortableStr, Int64ToSortableStr).               *)
THEOREM IntKeysOrdered ==
  ASSUME NEW H \in Nat \ {0}, NEW u \in Bits(H), NEW v \in Bits(H)
  PROVE  /\ IntToSortable(H, u) \in Bits(H)
         /\ IntToSortable(H, u) < IntToSortable(H, v) <=> Signed(H, u) < Signed(H, v)
BY DEF Bits, IntToSortable, Signed

(* The keys of floating point numbers are ordered as the numbers; only the *)
(* two zeros, equal as numbers, have different keys                        *)
(* (FloatingToSortableStr).                                                *)
THEOREM FloatKeysOrdered ==
  ASSUME NEW H \in Nat \ {0}, NEW u \in Bits(H), NEW v \in Bits(H)
  PROVE  /\ FloatingToSortable(H, u) \in Bits(H)
         /\ FloatRank(H, u) < FloatRank(H, v)
              => FloatingToSortable(H, u) < FloatingToSortable(H, v)
         /\ FloatingToSortable(H, u) < FloatingToSortable(H, v)
              => FloatRank(H, u) < FloatRank(H, v) \/ (u = H /\ v = 0)
BY DEF Bits, FloatingToSortable, FloatRank

-----------------------------------------------------------------------------
(* The least and the greatest of a set of numbers.                         *)

LEMMA LeastNat ==
  ASSUME NEW T \in SUBSET Nat, T # {}
  PROVE  \E x \in T : \A y \in T : x <= y
<1>1. PICK x \in T : \A y \in T : ~(<<y, x>> \in OpToRel(<, Nat))
  BY NatLessThanWellFounded, WFMin
<1>2. ASSUME NEW y \in T, ~ (x <= y)
      PROVE  FALSE
  <2>1. x \in Nat /\ y \in Nat /\ y < x
    BY <1>2
  <2>2. <<y, x>> \in OpToRel(<, Nat)
    BY <2>1 DEF OpToRel
  <2> QED
    BY <1>1, <2>2
<1> QED
  BY <1>2

LEMMA MinIn ==
  ASSUME NEW T \in SUBSET Nat, T # {}
  PROVE  Min(T) \in T /\ \A y \in T : Min(T) <= y
BY LeastNat, Zenon DEF Min

LEMMA MaxIn ==
  ASSUME NEW n \in Nat, NEW T \in SUBSET (1 .. n), T # {}
  PROVE  Max(T) \in T /\ \A y \in T : Max(T) >= y
<1> DEFINE U == {u \in 0 .. n : n - u \in T}
<1>1. \A x \in T : n - x \in U
  OBVIOUS
<1>2. U \in SUBSET Nat /\ U # {}
  <2>1. PICK x \in T : TRUE
    BY Zenon
  <2>2. n - x \in U
    BY <1>1
  <2>3. \A u \in U : u \in Nat
    OBVIOUS
  <2> QED
    BY <2>2, <2>3, Zenon
<1>3. PICK u \in U : \A w \in U : u <= w
  BY <1>2, LeastNat, Zenon
<1>4. n - u \in T /\ \A y \in T : n - u >= y
  <2>1. \A y \in T : u <= n - y
    BY <1>1, <1>3, Zenon
  <2> QED
    BY <2>1, <1>3
<1> QED
  BY <1>4, Zenon DEF Max

-----------------------------------------------------------------------------
(* The log of etcd, as an argument: At, Found and Touched of MasterCache   *)
(* are these of log, before a step and after it.                           *)

Entry == [key : Keys \cup {"elsewhere"}, val : Value]

AtIn(L, r, k) ==
  LET I == {i \in 1 .. r : L[i].key = k} IN
  IF I = {} THEN NoValue ELSE L[Max(I)].val

FoundIn(L, r, s) ==
  LET V == {v \in {AtIn(L, r, k) : k \in Keys} : v.slot = s} IN
  IF V = {} THEN NoValue ELSE CHOOSE v \in V : TRUE

TouchedIn(L, i) ==
  IF L[i].key \notin Keys THEN {}
  ELSE {AtIn(L, j, L[i].key).slot : j \in {i - 1, i}} \ {None}

(* j is the last write of k among the first r. *)
LastWrite(L, r, k, j) ==
  j \in 1 .. r /\ L[j].key = k /\ \A i \in j + 1 .. r : L[i].key # k

LEMMA Same ==
  /\ \A r, k : At(r, k) = AtIn(log, r, k)
  /\ \A r, s : Found(r, s) = FoundIn(log, r, s)
  /\ \A i : Touched(i) = TouchedIn(log, i)
BY DEF At, Found, Touched, AtIn, FoundIn, TouchedIn

LEMMA AtIs ==
  ASSUME NEW L, NEW r \in Nat, NEW k, NEW j, LastWrite(L, r, k, j)
  PROVE  AtIn(L, r, k) = L[j].val
<1> DEFINE I == {i \in 1 .. r : L[i].key = k}
<1>1. j \in I /\ I \in SUBSET (1 .. r)
  BY DEF LastWrite
<1>2. Max(I) \in I /\ Max(I) >= j
  BY <1>1, MaxIn, Zenon
<1>3. Max(I) = j
  BY <1>1, <1>2 DEF LastWrite
<1> QED
  BY <1>1, <1>3 DEF AtIn

LEMMA AtCases ==
  ASSUME NEW L, NEW r \in Nat, NEW k
  PROVE  \/ AtIn(L, r, k) = NoValue /\ \A i \in 1 .. r : L[i].key # k
         \/ \E j \in 1 .. r : LastWrite(L, r, k, j) /\ AtIn(L, r, k) = L[j].val
<1> DEFINE I == {i \in 1 .. r : L[i].key = k}
<1>1. CASE I = {}
  BY <1>1 DEF AtIn
<1>2. CASE I # {}
  <2>1. Max(I) \in I /\ \A y \in I : Max(I) >= y
    BY <1>2, MaxIn, Zenon
  <2>2. LastWrite(L, r, k, Max(I))
    <3> DEFINE j == Max(I)
    <3>1. j \in 1 .. r /\ L[j].key = k
      BY <2>1
    <3>2. \A i \in 1 .. r : L[i].key = k => j >= i
      BY <2>1
    <3> HIDE DEF j
    <3>3. ASSUME NEW i \in j + 1 .. r, L[i].key = k
          PROVE  FALSE
      BY <3>1, <3>2, <3>3
    <3>4. LastWrite(L, r, k, j)
      BY <3>1, <3>3 DEF LastWrite
    <3> QED
      BY <3>4 DEF j
  <2> QED
    BY <2>1, <2>2, AtIs
<1> QED
  BY <1>1, <1>2

(* A key keeps its value until it is written. *)
LEMMA AtSame ==
  ASSUME NEW L, NEW p \in Nat, NEW q \in Nat, p <= q, NEW k,
         \A i \in p + 1 .. q : L[i].key # k
  PROVE  AtIn(L, p, k) = AtIn(L, q, k)
<1>1. CASE AtIn(L, p, k) = NoValue /\ \A i \in 1 .. p : L[i].key # k
  <2>1. \A i \in 1 .. q : L[i].key # k
    BY <1>1
  <2>2. ~ \E j \in 1 .. q : LastWrite(L, q, k, j)
    BY <2>1 DEF LastWrite
  <2> QED
    BY <1>1, <2>2, AtCases
<1>2. ASSUME NEW j \in 1 .. p, LastWrite(L, p, k, j), AtIn(L, p, k) = L[j].val
      PROVE  AtIn(L, q, k) = L[j].val
  <2>1. LastWrite(L, q, k, j)
    BY <1>2 DEF LastWrite
  <2> QED
    BY <2>1, AtIs
<1> QED
  BY <1>1, <1>2, AtCases

(* A write gives its key its value and leaves the others alone. *)
LEMMA AtWrite ==
  ASSUME NEW L, NEW i \in Nat \ {0}
  PROVE  /\ AtIn(L, i, L[i].key) = L[i].val
         /\ \A k : k # L[i].key => AtIn(L, i, k) = AtIn(L, i - 1, k)
<1>1. LastWrite(L, i, L[i].key, i)
  BY DEF LastWrite
<1>2. ASSUME NEW k, k # L[i].key
      PROVE  AtIn(L, i - 1, k) = AtIn(L, i, k)
  BY <1>2, AtSame
<1> QED
  BY <1>1, <1>2, AtIs

(* What is written later changes nothing of what was. *)
LEMMA AtAppend ==
  ASSUME NEW L \in Seq(Entry), NEW x \in Entry, NEW r \in 0 .. Len(L), NEW k
  PROVE  AtIn(Append(L, x), r, k) = AtIn(L, r, k)
<1> DEFINE M == Append(L, x)
<1>1. \A i \in 1 .. Len(L) : M[i] = L[i]
  OBVIOUS
<1> HIDE DEF M
<1>2. CASE AtIn(L, r, k) = NoValue /\ \A i \in 1 .. r : L[i].key # k
  <2>1. \A i \in 1 .. r : M[i].key # k
    BY <1>1, <1>2
  <2>2. ~ \E j \in 1 .. r : LastWrite(M, r, k, j)
    BY <2>1 DEF LastWrite
  <2> QED
    BY <1>2, <2>2, AtCases DEF M
<1>3. ASSUME NEW j \in 1 .. r, LastWrite(L, r, k, j), AtIn(L, r, k) = L[j].val
      PROVE  AtIn(M, r, k) = L[j].val
  <2>1. LastWrite(M, r, k, j)
    BY <1>1, <1>3 DEF LastWrite
  <2> QED
    BY <1>1, <2>1, AtIs
<1> QED
  BY <1>2, <1>3, AtCases DEF M

LEMMA FoundAppend ==
  ASSUME NEW L \in Seq(Entry), NEW x \in Entry, NEW r \in 0 .. Len(L), NEW s
  PROVE  FoundIn(Append(L, x), r, s) = FoundIn(L, r, s)
<1>1. {AtIn(Append(L, x), r, k) : k \in Keys} = {AtIn(L, r, k) : k \in Keys}
  BY AtAppend
<1> QED
  BY <1>1, Zenon DEF FoundIn

LEMMA FoundCases ==
  ASSUME NEW L, NEW r, NEW s
  PROVE  \/ FoundIn(L, r, s) = NoValue /\ \A k \in Keys : AtIn(L, r, k).slot # s
         \/ \E k \in Keys : FoundIn(L, r, s) = AtIn(L, r, k) /\ AtIn(L, r, k).slot = s
<1> DEFINE V == {v \in {AtIn(L, r, k) : k \in Keys} : v.slot = s}
<1>1. CASE V = {}
  BY <1>1 DEF FoundIn
<1>2. CASE V # {}
  <2>1. (CHOOSE v \in V : TRUE) \in V
    BY <1>2
  <2> QED
    BY <1>2, <2>1 DEF FoundIn
<1> QED
  BY <1>1, <1>2

-----------------------------------------------------------------------------
(* What the writers keep true of the log.                                  *)

(* The value of a router's key is its ip. *)
Plain(k) == [key |-> k, slot |-> k, ver |-> 1, rev |-> 1]

(* A put is under a slot that no other key has at the time; a space under  *)
(* the same name again has a greater version, a partition the time of a    *)
(* master's clock that is not ahead.                                       *)
Sound(e, L, i) ==
  L[i].val # NoValue =>
    /\ L[i].key \in Keys /\ L[i].val.key = L[i].key
    /\ \A k \in Keys : AtIn(L, i - 1, k).slot = L[i].val.slot => k = L[i].key
    /\ e.kind # "space" => L[i].val.slot = L[i].key
    /\ e.kind = "space" =>
         /\ L[i].val.slot \in Names
         /\ AtIn(L, i - 1, L[i].key).slot = L[i].val.slot
              => AtIn(L, i - 1, L[i].key).ver < L[i].val.ver
    /\ e.kind = "partition" => L[i].val.rev = i /\ L[i].val.ver <= i
    /\ e.kind = "router" /\ L[i].key \notin e.limits => L[i].val = Plain(L[i].key)
    /\ e.kind = "server" => L[i].val.ver <= 2

(* No two keys have the same slot. *)
Distinct(L, r) ==
  \A k, m \in Keys : AtIn(L, r, k).slot = AtIn(L, r, m).slot /\ AtIn(L, r, k).slot # None => k = m

Hist(e, L) ==
  /\ e \in Setting
  /\ L \in Seq(Entry)
  /\ \A i \in 1 .. Len(L) : Sound(e, L, i)
  /\ \A r \in 0 .. Len(L) : Distinct(L, r)

(* The values of a kind: a server has one of two addresses. *)
Kept(e) == {v \in Value : e.kind = "server" => v.ver <= 2}

LEMMA NoValueFacts ==
  ASSUME NEW e
  PROVE  /\ NoValue \in Value /\ NoValue \in Kept(e)
         /\ NoValue.key = None /\ NoValue.slot = None /\ NoValue.ver = 0
         /\ \A v \in Value : v.key = None => v = NoValue
         /\ \A v \in Value : v.key \in Keys \cup {None} /\ v.slot \in Keys \cup Names \cup {None} /\ v.ver \in Nat
         /\ \A v \in Value : v.slot = None => v = NoValue
         /\ \A v \in Value : v # NoValue => v.key \in Keys /\ v.slot \in Keys \cup Names
<1>1. None \notin Keys \cup Names
  BY MasterCacheAssumption
<1> QED
  BY <1>1 DEF NoValue, Value, Kept

LEMMA EntryAt ==
  ASSUME NEW L \in Seq(Entry), NEW i \in 1 .. Len(L)
  PROVE  L[i].key \in Keys \cup {"elsewhere"} /\ L[i].val \in Value
<1>1. L[i] \in Entry
  OBVIOUS
<1> QED
  BY <1>1 DEF Entry

LEMMA AtSound ==
  ASSUME NEW e, NEW L, Hist(e, L), NEW r \in 0 .. Len(L), NEW k \in Keys
  PROVE  /\ AtIn(L, r, k) \in Value
         /\ e.kind = "server" => AtIn(L, r, k).ver <= 2
         /\ e.kind = "partition" => AtIn(L, r, k).ver <= r
         /\ AtIn(L, r, k) # NoValue =>
              /\ AtIn(L, r, k).key = k
              /\ e.kind # "space" => AtIn(L, r, k).slot = k
              /\ e.kind = "space" => AtIn(L, r, k).slot \in Names
              /\ e.kind = "router" /\ k \notin e.limits => AtIn(L, r, k) = Plain(k)
<1>1. CASE AtIn(L, r, k) = NoValue
  BY <1>1, NoValueFacts
<1>2. ASSUME NEW j \in 1 .. r, LastWrite(L, r, k, j), AtIn(L, r, k) = L[j].val,
             AtIn(L, r, k) # NoValue
      PROVE  /\ AtIn(L, r, k) \in Value
             /\ e.kind = "server" => AtIn(L, r, k).ver <= 2
             /\ e.kind = "partition" => AtIn(L, r, k).ver <= r
             /\ AtIn(L, r, k) # NoValue =>
                  /\ AtIn(L, r, k).key = k
                  /\ e.kind # "space" => AtIn(L, r, k).slot = k
                  /\ e.kind = "space" => AtIn(L, r, k).slot \in Names
                  /\ e.kind = "router" /\ k \notin e.limits => AtIn(L, r, k) = Plain(k)
  <2>1. L \in Seq(Entry) /\ j \in 1 .. Len(L) /\ Sound(e, L, j)
    BY DEF Hist
  <2>2. L[j].key = k /\ L[j].val \in Value
    BY <1>2, <2>1, EntryAt DEF LastWrite
  <2>3. L[j].val.ver \in Nat
    BY <2>2, NoValueFacts
  <2> QED
    BY <1>2, <2>1, <2>2, <2>3 DEF Sound
<1> QED
  BY <1>1, <1>2, AtCases

(* Under a slot there is what its key has. *)
LEMMA FoundIs ==
  ASSUME NEW e, NEW L, Hist(e, L), NEW r \in 0 .. Len(L), NEW k \in Keys,
         AtIn(L, r, k).slot # None
  PROVE  FoundIn(L, r, AtIn(L, r, k).slot) = AtIn(L, r, k)
<1>1. Distinct(L, r)
  BY DEF Hist
<1> QED
  BY <1>1, FoundCases DEF Distinct

LEMMA FoundType ==
  ASSUME NEW e, NEW L, Hist(e, L), NEW r \in 0 .. Len(L), NEW s
  PROVE  FoundIn(L, r, s) \in Kept(e)
BY FoundCases, AtSound, NoValueFacts DEF Kept

(* Other than a space, an entry is found under its key. *)
LEMMA FoundKey ==
  ASSUME NEW e, NEW L, Hist(e, L), NEW r \in 0 .. Len(L), NEW k \in Keys, e.kind # "space"
  PROVE  FoundIn(L, r, k) = AtIn(L, r, k)
<1>1. k # None
  BY MasterCacheAssumption
<1>2. CASE AtIn(L, r, k) # NoValue
  BY <1>1, <1>2, AtSound, FoundIs
<1>3. CASE AtIn(L, r, k) = NoValue
  <2>1. \A m \in Keys : AtIn(L, r, m).slot # k
    BY <1>1, <1>3, AtSound, NoValueFacts
  <2> QED
    BY <1>3, <2>1, FoundCases
<1> QED
  BY <1>2, <1>3

(* A write changes what is found under the slots it touches only. *)
LEMMA FoundStep ==
  ASSUME NEW e, NEW L, Hist(e, L), NEW i \in 1 .. Len(L), NEW s, s # None,
         s \notin TouchedIn(L, i)
  PROVE  FoundIn(L, i - 1, s) = FoundIn(L, i, s)
<1> DEFINE k == L[i].key
<1>1. \A m : m # k => AtIn(L, i, m) = AtIn(L, i - 1, m)
  BY AtWrite
<1>2. k \in Keys => AtIn(L, i - 1, k).slot # s /\ AtIn(L, i, k).slot # s
  BY DEF TouchedIn
<1> HIDE DEF k
<1>3. \A m \in Keys : AtIn(L, i - 1, m).slot = s \/ AtIn(L, i, m).slot = s
                        => AtIn(L, i, m) = AtIn(L, i - 1, m)
  BY <1>1, <1>2
<1>4. \A m \in Keys : AtIn(L, i - 1, m).slot = s <=> AtIn(L, i, m).slot = s
  BY <1>3
<1>5. CASE \A m \in Keys : AtIn(L, i, m).slot # s
  BY <1>4, <1>5, FoundCases
<1>6. ASSUME NEW m \in Keys, AtIn(L, i, m).slot = s
      PROVE  FoundIn(L, i - 1, s) = FoundIn(L, i, s)
  <2>1. AtIn(L, i - 1, m) = AtIn(L, i, m)
    BY <1>3, <1>6
  <2>2. FoundIn(L, i, s) = AtIn(L, i, m)
    BY <1>6, FoundIs
  <2>3. FoundIn(L, i - 1, s) = AtIn(L, i - 1, m)
    BY <1>6, <2>1, FoundIs
  <2> QED
    BY <2>1, <2>2, <2>3
<1> QED
  BY <1>5, <1>6

LEMMA FoundSame ==
  ASSUME NEW e, NEW L, Hist(e, L), NEW p \in 0 .. Len(L), NEW q \in 0 .. Len(L), p <= q,
         NEW s, s # None, \A i \in p + 1 .. q : s \notin TouchedIn(L, i)
  PROVE  FoundIn(L, p, s) = FoundIn(L, q, s)
<1> DEFINE T == {r \in p .. q : FoundIn(L, r, s) # FoundIn(L, p, s)}
<1>1. SUFFICES ASSUME T # {} PROVE FALSE
  OBVIOUS
<1>2. Len(L) \in Nat
  BY DEF Hist
<1>3. T \in SUBSET Nat
  BY <1>2
<1>4. PICK r \in T : \A y \in T : r <= y
  BY <1>1, <1>3, LeastNat, Zenon
<1>5. r # p /\ r \in p + 1 .. q
  BY <1>2, <1>4
<1>6. r - 1 \in p .. q /\ r - 1 \notin T
  BY <1>2, <1>4, <1>5
<1>7. FoundIn(L, r - 1, s) = FoundIn(L, p, s)
  BY <1>6
<1>8. FoundIn(L, r - 1, s) = FoundIn(L, r, s)
  BY <1>2, <1>5, FoundStep
<1> QED
  BY <1>4, <1>7, <1>8

(* What is found in the log at p or after. *)
Seen(L, p, s, v) == \E r \in p .. Len(L) : v = FoundIn(L, r, s)

LEMMA SeenAhead ==
  ASSUME NEW e, NEW L, Hist(e, L), NEW p \in 0 .. Len(L), NEW q \in 0 .. Len(L),
         NEW s, s # None, NEW v,
         \A i \in p + 1 .. q : s \notin TouchedIn(L, i), Seen(L, p, s, v)
  PROVE  Seen(L, q, s, v)
<1>1. PICK r \in p .. Len(L) : v = FoundIn(L, r, s)
  BY DEF Seen
<1>2. Len(L) \in Nat
  BY DEF Hist
<1>3. CASE r >= q
  BY <1>1, <1>2, <1>3 DEF Seen
<1>4. CASE r < q
  <2>1. r \in 0 .. Len(L) /\ r <= q /\ \A i \in r + 1 .. q : i \in p + 1 .. q
    BY <1>2, <1>4
  <2>2. FoundIn(L, r, s) = FoundIn(L, q, s)
    BY <2>1, FoundSame
  <2> QED
    BY <1>1, <1>2, <2>2 DEF Seen
<1> QED
  BY <1>2, <1>3, <1>4

LEMMA SeenAppend ==
  ASSUME NEW L \in Seq(Entry), NEW x \in Entry, NEW p \in 0 .. Len(L), NEW s, NEW v,
         Seen(L, p, s, v)
  PROVE  Seen(Append(L, x), p, s, v)
<1>1. PICK r \in p .. Len(L) : v = FoundIn(L, r, s)
  BY DEF Seen
<1>2. r \in 0 .. Len(L) /\ r \in p .. Len(Append(L, x))
  OBVIOUS
<1> QED
  BY <1>1, <1>2, FoundAppend DEF Seen

(* Other than of a space, a write touches the slot of its key only, and    *)
(* what is found there then is its value.                                  *)
LEMMA KeyTouched ==
  ASSUME NEW e, NEW L, Hist(e, L), NEW i \in 1 .. Len(L), e.kind # "space", L[i].key \in Keys
  PROVE  /\ \A s : s # L[i].key => s \notin TouchedIn(L, i)
         /\ FoundIn(L, i, L[i].key) = L[i].val
<1>1. AtIn(L, i, L[i].key) = L[i].val
  BY AtWrite
<1>2. \A j \in {i - 1, i} : AtIn(L, j, L[i].key).slot \in {None, L[i].key}
  BY AtSound, NoValueFacts
<1>3. FoundIn(L, i, L[i].key) = AtIn(L, i, L[i].key)
  BY FoundKey
<1> QED
  BY <1>1, <1>2, <1>3 DEF TouchedIn

-----------------------------------------------------------------------------
(* The writers keep the log sound.                                         *)

LEMMA HistAppend ==
  ASSUME NEW e, NEW L, Hist(e, L), NEW x \in Entry,
         Sound(e, Append(L, x), Len(L) + 1)
  PROVE  Hist(e, Append(L, x))
<1> DEFINE M == Append(L, x)
           n == Len(L)
<1>1. L \in Seq(Entry) /\ n \in Nat
  BY DEF Hist
<1>2. /\ M \in Seq(Entry) /\ Len(M) = n + 1 /\ M[n + 1] = x
      /\ \A i \in 1 .. n : M[i] = L[i]
  BY <1>1
<1>3. \A r \in 0 .. n, k \in Keys : AtIn(M, r, k) = AtIn(L, r, k)
  BY <1>1, AtAppend
<1>4. Sound(e, M, n + 1)
  BY Zenon
<1> HIDE DEF M, n
<1>5. ASSUME NEW i \in 1 .. n
      PROVE  Sound(e, M, i)
  <2>1. Sound(e, L, i) /\ M[i] = L[i]
    BY <1>2 DEF Hist, n
  <2>2. \A k \in Keys : AtIn(M, i - 1, k) = AtIn(L, i - 1, k)
    BY <1>1, <1>3
  <2> QED
    BY <2>1, <2>2 DEF Sound
<1>6. ASSUME NEW r \in 0 .. n
      PROVE  Distinct(M, r)
  <2>1. Distinct(L, r)
    BY DEF Hist, n
  <2> QED
    BY <1>3, <2>1 DEF Distinct
<1>7. Distinct(M, n + 1)
  <2>1. \A k : k # x.key => AtIn(M, n + 1, k) = AtIn(M, n, k)
    BY <1>1, <1>2, AtWrite
  <2>2. AtIn(M, n + 1, x.key) = x.val
    BY <1>1, <1>2, AtWrite
  <2>3. Distinct(M, n)
    BY <1>1, <1>6
  <2>4. CASE x.val = NoValue
    BY <2>1, <2>2, <2>3, <2>4, NoValueFacts DEF Distinct
  <2>5. CASE x.val # NoValue
    <3>1. \A k \in Keys : AtIn(M, n, k).slot = x.val.slot => k = x.key
      BY <1>1, <1>2, <1>4, <2>5 DEF Sound
    <3> QED
      BY <2>1, <2>2, <2>3, <3>1, Zenon DEF Distinct
  <2> QED
    BY <2>4, <2>5
<1>8. \A i \in 1 .. n + 1 : Sound(e, M, i)
  BY <1>1, <1>4, <1>5
<1>9. \A r \in 0 .. n + 1 : Distinct(M, r)
  BY <1>1, <1>6, <1>7, SMTT(30)
<1> QED
  BY <1>2, <1>8, <1>9 DEF Hist, M

(* What is put: for a space the name it has, or one that no space has. *)
LEMMA NewValue ==
  ASSUME Hist(env, log), NEW k \in Keys, NEW v \in NewValues(k)
  PROVE  /\ v \in Value /\ v.key = k
         /\ env.kind # "space" => v.slot = k
         /\ env.kind = "space" =>
              /\ v.slot \in Names
              /\ \/ /\ AtIn(log, Len(log), k) # NoValue
                    /\ v.slot = AtIn(log, Len(log), k).slot
                    /\ v.ver = AtIn(log, Len(log), k).ver + 1
                 \/ \A m \in Keys : AtIn(log, Len(log), m).slot # v.slot
         /\ env.kind = "partition" => v.rev = Len(log) + 1 /\ v.ver <= Len(log) + 1
         /\ env.kind = "router" /\ k \notin env.limits => v = Plain(k)
         /\ env.kind = "server" => v.ver <= 2
<1> DEFINE n == Len(log)
           old == AtIn(log, n, k)
           Val(s, u) == [key |-> k, slot |-> s, ver |-> u, rev |-> n + 1]
<1>1. n \in Nat /\ n \in 0 .. Len(log) /\ env \in Setting
  BY SMTT(30) DEF Hist
<1>2. old = At(Now, k) /\ n = Now /\ Taken = {AtIn(log, n, m).slot : m \in Keys}
  BY Same DEF Now, Taken
<1>3. old \in Value /\ old.ver \in Nat /\ (env.kind = "space" /\ old # NoValue => old.slot \in Names)
  BY <1>1, AtSound, NoValueFacts
<1> HIDE DEF n, old
<1>4. CASE env.kind = "space" /\ old # NoValue
  <2>1. PICK s \in {old.slot} \cup (Names \ Taken) : v = Val(s, old.ver + 1)
    BY <1>2, <1>4 DEF NewValues
  <2>2. v.slot = s /\ v.key = k /\ v.ver = old.ver + 1 /\ v.rev = n + 1
    BY <2>1
  <2>3. v \in Value
    BY <1>1, <1>3, <1>4, <2>1 DEF Value
  <2> QED
    BY <1>2, <1>3, <1>4, <2>1, <2>2, <2>3 DEF n, old
<1>5. CASE env.kind = "space" /\ old = NoValue
  <2>1. PICK s \in Names \ Taken : v = Val(s, 1)
    BY <1>2, <1>5 DEF NewValues
  <2>2. v.slot = s /\ v.key = k
    BY <2>1
  <2>3. v \in Value
    BY <1>1, <2>1 DEF Value
  <2> QED
    BY <1>2, <1>5, <2>1, <2>2, <2>3 DEF n
<1>6. CASE env.kind = "partition"
  <2>1. PICK u \in 0 .. n + 1 : v = Val(k, u)
    BY <1>2, <1>6 DEF NewValues
  <2> QED
    BY <1>1, <1>6, <2>1 DEF Value, n
<1>7. CASE env.kind = "server"
  <2>1. PICK u \in 1 .. 2 : v = Val(k, u)
    BY <1>2, <1>7, Zenon DEF NewValues
  <2> QED
    BY <1>1, <1>7, <2>1 DEF Value, n
<1>8. CASE env.kind = "router" /\ k \notin env.limits
  <2>1. v = Plain(k)
    BY <1>2, <1>8, Zenon DEF NewValues, Plain
  <2> QED
    BY <1>8, <2>1 DEF Plain, Value
<1>9. CASE /\ env.kind \notin {"space", "partition", "server"}
           /\ ~ (env.kind = "router" /\ k \notin env.limits)
  <2>1. v = Val(k, 1)
    BY <1>2, <1>9 DEF NewValues
  <2> QED
    BY <1>1, <1>9, <2>1 DEF Value
<1> QED
  BY <1>4, <1>5, <1>6, <1>7, <1>8, <1>9, Zenon

LEMMA PutSound ==
  ASSUME Hist(env, log), NEW k \in Keys, NEW v \in NewValues(k)
  PROVE  /\ [key |-> k, val |-> v] \in Entry
         /\ Hist(env, Append(log, [key |-> k, val |-> v]))
<1> DEFINE x == [key |-> k, val |-> v]
           M == Append(log, x)
           n == Len(log)
<1>1. log \in Seq(Entry) /\ n \in Nat /\ n \in 0 .. Len(log) /\ Distinct(log, n)
  BY DEF Hist
<1>2. x \in Entry
  BY NewValue, Zenon DEF Entry
<1>3. M[n + 1] = x /\ x.key = k /\ x.val = v
  BY <1>1, <1>2
<1>4. \A m \in Keys : AtIn(M, n, m) = AtIn(log, n, m)
  BY <1>1, <1>2, AtAppend
<1>5. \A m \in Keys : AtIn(log, n, m).slot = v.slot => m = k
  <2>1. CASE env.kind = "space"
    <3>1. v.slot # None
      BY <2>1, NewValue, MasterCacheAssumption, Zenon
    <3> QED
      BY <1>1, <2>1, <3>1, NewValue, SMTT(30) DEF Distinct
  <2>2. CASE env.kind # "space"
    <3>1. v.slot = k /\ k # None
      BY <2>2, NewValue, MasterCacheAssumption, Zenon
    <3> QED
      BY <1>1, <2>2, <3>1, AtSound, NoValueFacts, SMTT(30)
  <2> QED
    BY <2>1, <2>2, Zenon
<1>6. AtIn(log, n, k).ver \in Nat /\ (AtIn(log, n, k) = NoValue => AtIn(log, n, k).slot = None)
  BY <1>1, AtSound, NoValueFacts, Zenon
<1>7. env.kind = "space" => /\ v.slot \in Names
                            /\ AtIn(log, n, k).slot = v.slot => AtIn(log, n, k).ver < v.ver
  BY <1>6, NewValue
<1> HIDE DEF M, x, n
<1>8. Sound(env, M, n + 1)
  <2>1. n + 1 - 1 = n
    BY <1>1
  <2> QED
    BY <1>3, <1>4, <1>5, <1>7, <2>1, NewValue DEF Sound, n
<1> QED
  BY <1>2, <1>8, HistAppend DEF M, x, n

LEMMA DeleteSound ==
  ASSUME NEW e, NEW L, Hist(e, L), NEW k \in Keys \cup {"elsewhere"}
  PROVE  /\ [key |-> k, val |-> NoValue] \in Entry
         /\ Hist(e, Append(L, [key |-> k, val |-> NoValue]))
<1> DEFINE x == [key |-> k, val |-> NoValue]
<1>1. x \in Entry
  BY NoValueFacts DEF Entry
<1>2. Append(L, x)[Len(L) + 1] = x /\ x.val = NoValue
  BY <1>1 DEF Hist
<1> HIDE DEF x
<1>3. Sound(e, Append(L, x), Len(L) + 1)
  BY <1>2 DEF Sound
<1> QED
  BY <1>1, <1>3, HistAppend DEF x

-----------------------------------------------------------------------------
(* The types of the state, and the soundness of its log.                   *)

Types ==
  /\ env \in Settings /\ Hist(env, log) /\ Len(log) <= env.writes
  /\ watch \in {"init", "off", "on"} /\ recovering \in BOOLEAN
  /\ pos \in 0 .. Len(log)
  /\ hand \in [slot : Slot \cup {None}, val : Kept(env)]
  /\ cache \in [Slot -> Kept(env)]
  /\ reload \in [Worker -> [pc : {"idle", "asked", "read"}, val : Kept(env)]]
  /\ rpc \in [Keys -> 0 .. 2]
  /\ dial \in [key : Keys \cup {None}, addr : 0 .. 2]
  /\ fails \in 0 .. MaxFails
  /\ marked \subseteq Slot /\ late \subseteq Keys

LEMMA Slots ==
  /\ Keys \subseteq Slot /\ Names \subseteq Slot
  /\ \A k \in Keys : UserKey(k) \in Slot /\ UserKey(k) \notin Keys \cup Names
  /\ Keys \cup Names \cup {UserKey(k) : k \in Keys} = Slot
  /\ None \notin Keys /\ None \notin Names
BY MasterCacheAssumption DEF Slot

LEMMA ReadableType ==
  ASSUME Hist(env, log)
  PROVE  /\ Readable \subseteq Keys \cup Names /\ Readable \subseteq Slot /\ None \notin Readable
         /\ env.kind # "space" => Readable \subseteq Keys
         /\ env.kind = "space" => Readable = Names
         /\ env.keys \subseteq Keys
BY Slots DEF Readable, Hist, Setting

LEMMA TypesInit == Init => Types
<1> SUFFICES ASSUME Init PROVE Types
  OBVIOUS
<1>1. env \in Setting /\ env.writes \in Nat /\ MaxFails \in Nat
  BY MasterCacheAssumption DEF Init, Setting
<1>2. log \in Seq(Entry) /\ Len(log) = 0
  BY DEF Init
<1>3. \A k \in Keys : AtIn(log, 0, k) = NoValue
  BY AtCases
<1>4. Hist(env, log)
  BY <1>1, <1>2, <1>3, NoValueFacts DEF Hist, Distinct
<1>5. NoValue \in Kept(env)
  BY NoValueFacts
<1>6. /\ cache \in [Slot -> Kept(env)] /\ hand \in [slot : Slot \cup {None}, val : Kept(env)]
      /\ reload \in [Worker -> [pc : {"idle", "asked", "read"}, val : Kept(env)]]
  BY <1>5 DEF Init, NoHand, NoReload
<1>7. /\ rpc \in [Keys -> 0 .. 2] /\ dial \in [key : Keys \cup {None}, addr : 0 .. 2]
      /\ pos \in 0 .. Len(log) /\ Len(log) <= env.writes /\ fails \in 0 .. MaxFails
  BY <1>1, <1>2 DEF Init, NoDial
<1>8. /\ watch \in {"init", "off", "on"} /\ recovering \in BOOLEAN
      /\ marked \subseteq Slot /\ late \subseteq Keys /\ env \in Settings
  BY Zenon DEF Init
<1> QED
  BY <1>4, <1>6, <1>7, <1>8 DEF Types

LEMMA Between ==
  ASSUME NEW n \in Nat, NEW p \in 0 .. n, NEW q \in p + 1 .. n
  PROVE  /\ q \in 1 .. n /\ q \in 0 .. n /\ q - 1 \in 0 .. n /\ q \in q .. n /\ q \in Nat
         /\ \A r \in p .. n : r < q => r \in 0 .. n /\ r <= q - 1
         /\ \A j \in p + 1 .. q : j \in p + 1 .. q - 1 \/ j = q
         /\ \A j \in p + 1 .. q - 1 : j \in p + 1 .. n /\ ~ (q <= j)
         /\ \A r \in p .. n : \A j \in r + 1 .. q - 1 : j \in p + 1 .. q - 1
OBVIOUS

(* The next event of the watch. *)
LEMMA TakesEvent ==
  ASSUME Types, NEW k, Takes(k)
  PROVE  /\ env.kind = k /\ watch = "on" /\ hand = NoHand
         /\ pos' \in pos + 1 .. Len(log) /\ pos' \in 1 .. Len(log)
         /\ pos' - 1 \in 0 .. Len(log) /\ pos' \in 0 .. Len(log) /\ pos' \in pos' .. Len(log)
         /\ Event = log[pos'] /\ Event.key \in Keys /\ Event.val \in Kept(env) /\ Event.val \in Value
         /\ \A j \in pos + 1 .. pos' - 1 : log[j].key \notin Keys
         /\ Sound(env, log, pos')
<1>1. Pending \in SUBSET Nat /\ Pending # {} /\ pos' = Min(Pending)
  BY DEF Takes, Pending, Now, Types, Hist
<1>2. pos' \in Pending /\ \A j \in Pending : pos' <= j
  BY <1>1, MinIn
<1>3. Len(log) \in Nat /\ pos \in 0 .. Len(log) /\ log \in Seq(Entry)
  BY DEF Types, Hist
<1>9. pos' \in pos + 1 .. Len(log) /\ log[pos'].key \in Keys
  BY <1>2 DEF Pending, Now
<1>4. /\ pos' \in 1 .. Len(log) /\ pos' - 1 \in 0 .. Len(log) /\ pos' \in 0 .. Len(log)
      /\ pos' \in pos' .. Len(log)
      /\ \A j \in pos + 1 .. pos' - 1 : j \in pos + 1 .. Len(log) /\ ~ (pos' <= j)
  BY <1>3, <1>9, Between, Zenon
<1>5. \A j \in pos + 1 .. pos' - 1 : log[j].key \notin Keys
  BY <1>2, <1>4, Zenon DEF Pending, Now
<1>6. Sound(env, log, pos')
  BY <1>4 DEF Types, Hist
<1>7. log[pos'].val \in Value
  BY <1>3, <1>4, EntryAt
<1>8. log[pos'].val \in Kept(env)
  BY <1>6, <1>7, NoValueFacts, Zenon DEF Sound, Kept
<1> QED
  BY <1>1, <1>4, <1>5, <1>6, <1>7, <1>8, <1>9 DEF Takes, Event

(* The slots that a write touches are slots. *)
LEMMA TouchedType ==
  ASSUME Hist(env, log), NEW i \in 1 .. Len(log)
  PROVE  Touched(i) \subseteq Slot
<1>1. \A j \in {i - 1, i} : j \in 0 .. Len(log)
  BY DEF Hist
<1>2. \A j \in {i - 1, i}, k \in Keys : AtIn(log, j, k).slot \in Slot \cup {None}
  BY <1>1, AtSound, NoValueFacts, Slots, Zenon
<1> QED
  BY <1>2, Same DEF TouchedIn

LEMMA WriteTypes ==
  ASSUME Types, NEW k \in Keys \cup {"elsewhere"}, NEW v, Write(k, v),
         Hist(env, Append(log, [key |-> k, val |-> v])), [key |-> k, val |-> v] \in Entry
  PROVE  Types'
<1> DEFINE M == Append(log, [key |-> k, val |-> v])
<1>1. log' = M /\ Hist(env, M) /\ env' = env
  BY Zenon DEF Write
<1>2. Len(log) \in Nat /\ Len(M) = Len(log) + 1 /\ env.writes \in Nat
  BY MasterCacheAssumption DEF Types, Hist, Setting
<1>3. Len(log) < env.writes
  BY DEF Write, Now
<1> HIDE DEF M
<1>4. Hist(env', log') /\ Len(log') <= env'.writes /\ pos' \in 0 .. Len(log')
  BY <1>1, <1>2, <1>3 DEF Types, Write
<1>5. marked' \subseteq Slot
  BY DEF Write, Mark, Types
<1> QED
  BY <1>1, <1>4, <1>5 DEF Types, Write, watchVars, rpcVars

LEMMA WriterTypes ==
  ASSUME Types, Writers
  PROVE  /\ Types'
         /\ \E k, v : /\ Write(k, v) /\ [key |-> k, val |-> v] \in Entry
<1>1. Hist(env, log) /\ env.keys \subseteq Keys
  BY ReadableType DEF Types
<1>2. ASSUME NEW k \in env.keys, Put(k)
      PROVE  /\ Types'
             /\ \E m, v : /\ Write(m, v) /\ [key |-> m, val |-> v] \in Entry
  <2>1. PICK v \in NewValues(k) : Write(k, v)
    BY <1>2 DEF Put
  <2> QED
    BY <1>1, <2>1, PutSound, WriteTypes, Zenon
<1>3. ASSUME NEW k \in env.keys, Delete(k)
      PROVE  /\ Types'
             /\ \E m, v : /\ Write(m, v) /\ [key |-> m, val |-> v] \in Entry
  <2>1. Write(k, NoValue)
    BY <1>3 DEF Delete
  <2> QED
    BY <1>1, <2>1, DeleteSound, WriteTypes, Zenon
<1>4. CASE PutElsewhere
  <2>1. Write("elsewhere", NoValue)
    BY <1>4 DEF PutElsewhere
  <2> QED
    BY <1>1, <2>1, DeleteSound, WriteTypes, Zenon
<1> QED
  BY <1>2, <1>3, <1>4 DEF Writers

LEMMA WatchTypes ==
  ASSUME Types, Scan \/ StartWatch \/ Cancel \/ RecoveryEnds
  PROVE  Types'
<1>1. Len(log) \in Nat /\ Hist(env, log) /\ MaxFails \in Nat /\ NoValue \in Kept(env)
  BY MasterCacheAssumption, NoValueFacts DEF Types, Hist
<1>2. \A f : Fault(f) => fails' \in 0 .. MaxFails
  BY <1>1, SMTT(30) DEF Fault, Types
<1>3. CASE Scan
  <2>1. fails' \in 0 .. MaxFails
    BY <1>2, <1>3 DEF Scan, Types
  <2>2. \A s : Found(Now, s) \in Kept(env)
    BY <1>1, Same, FoundType DEF Now
  <2>3. cache' \in [Slot -> Kept(env)]
    BY <1>1, <1>3, <2>2 DEF Scan
  <2> QED
    BY <1>1, <1>3, <2>1, <2>3, SMTT(30) DEF Scan, Types, Now, rpcVars
<1>4. CASE StartWatch
  <2>1. fails' \in 0 .. MaxFails
    BY <1>2, <1>4, Zenon DEF StartWatch, Types
  <2>2. pos' \in 0 .. Len(log)
    BY <1>1, <1>4 DEF StartWatch, From, Now
  <2>3. \A i \in pos + 1 .. pos' : i \in 1 .. Len(log)
    BY <1>1, <2>2 DEF Types
  <2>4. UNION {Touched(i) : i \in pos + 1 .. pos'} \subseteq Slot
    BY <1>1, <2>3, TouchedType
  <2>5. marked' \subseteq Slot
    BY <1>4, <2>4, Zenon DEF StartWatch, Mark, Types
  <2>6. recovering' \in BOOLEAN
    BY <1>1, <1>4 DEF StartWatch, Hist, Setting
  <2> QED
    BY <1>1, <1>4, <2>1, <2>2, <2>5, <2>6, Zenon DEF StartWatch, Types
<1>5. CASE Cancel
  BY <1>2, <1>5 DEF Cancel, Types, rpcVars
<1>6. CASE RecoveryEnds
  BY <1>2, <1>6, Zenon DEF RecoveryEnds, Types, rpcVars
<1> QED
  BY <1>3, <1>4, <1>5, <1>6

LEMMA EventTypes ==
  ASSUME Types, Handler \/ EventDropped
  PROVE  Types'
<1>1. Len(log) \in Nat /\ Hist(env, log) /\ MaxFails \in Nat /\ NoValue \in Kept(env)
  BY MasterCacheAssumption, NoValueFacts, SMTT(30) DEF Types, Hist
<1>2. \A k : Takes(k) => /\ pos' \in 0 .. Len(log) /\ pos' \in 1 .. Len(log)
                         /\ Event.key \in Keys /\ Event.key \in Slot
                         /\ Event.val \in Kept(env) /\ Event.val.slot \in Slot \cup {None}
                         /\ Event.val.ver \in Nat
  <2>1. \A k : Takes(k) => /\ pos' \in 1 .. Len(log) /\ Event.key \in Keys
                           /\ Event.val \in Kept(env) /\ Event.val \in Value
    BY TakesEvent
  <2> QED
    BY <1>1, <2>1, NoValueFacts, Slots
<1>3. \A S : Mark(S) /\ S \subseteq Slot => marked' \subseteq Slot
  BY DEF Mark, Types
<1>4. NoHand \in [slot : Slot \cup {None}, val : Kept(env)]
  BY <1>1, Zenon DEF NoHand
<1>5. ASSUME NEW k, KeyedEvent(k)
      PROVE  Types'
  <2>1. Takes(k)
    BY <1>5 DEF KeyedEvent
  <2>2. cache' \in [Slot -> Kept(env)]
    BY <1>2, <1>5, <2>1, Slots DEF KeyedEvent, Types
  <2>3. marked' \subseteq Slot
    BY <1>2, <1>3, <1>5, <2>1, Zenon DEF KeyedEvent
  <2> QED
    BY <1>2, <1>5, <2>1, <2>2, <2>3 DEF KeyedEvent, Types, watchVars, rpcVars
<1>6. CASE AliasEvent
  <2>1. Takes("alias")
    BY <1>6, Zenon DEF AliasEvent
  <2>2. cache' \in [Slot -> Kept(env)]
    BY <1>2, <1>6, <2>1 DEF AliasEvent, Types
  <2>3. marked' \subseteq Slot
    BY <1>3, <1>6, Zenon DEF AliasEvent
  <2> QED
    BY <1>2, <1>6, <2>1, <2>2, <2>3 DEF AliasEvent, Types, watchVars, rpcVars
<1>7. CASE RouterEvent
  <2>1. Takes("router")
    BY <1>7, Zenon DEF RouterEvent
  <2>2. cache' \in [Slot -> Kept(env)]
    BY <1>2, <1>7, <2>1 DEF RouterEvent, Types
  <2>3. marked' \subseteq Slot
    BY <1>3, <1>7, Zenon DEF RouterEvent
  <2> QED
    BY <1>2, <1>7, <2>1, <2>2, <2>3 DEF RouterEvent, Types, watchVars, rpcVars
<1>8. CASE SpaceEvent
  <2>1. Takes("space")
    BY <1>8 DEF SpaceEvent
  <2>2. hand' \in [slot : Slot \cup {None}, val : Kept(env)]
    <3>1. CASE IsPut
      <4>1. hand' \in {[slot |-> Event.val.slot, val |-> Event.val], NoHand}
        BY <1>8, <3>1 DEF SpaceEvent
      <4> QED
        BY <1>2, <1>4, <2>1, <4>1, SMTT(30)
    <3>2. CASE ~ IsPut
      <4>1. hand' = NoHand \/ \E s \in Names : hand' = [slot |-> s, val |-> NoValue]
        BY <1>8, <3>2 DEF SpaceEvent
      <4> QED
        BY <1>1, <1>4, <4>1, Slots
    <3> QED
      BY <3>1, <3>2
  <2>3. \A k, s : Elsewhere(k, s) \subseteq Slot
    BY <1>1, ReadableType DEF Elsewhere
  <2>4. marked' \subseteq Slot
    BY <1>3, <1>8, <2>3, Zenon DEF SpaceEvent
  <2> QED
    BY <1>2, <1>8, <2>1, <2>2, <2>4, Zenon DEF SpaceEvent, Types, watchVars, rpcVars
<1>9. CASE PartitionEvent
  <2>1. Takes("partition")
    BY <1>9 DEF PartitionEvent
  <2>2. hand' \in {[slot |-> Event.key, val |-> Event.val], NoHand}
    BY <1>9 DEF PartitionEvent
  <2>3. hand' \in [slot : Slot \cup {None}, val : Kept(env)]
    BY <1>2, <1>4, <2>1, <2>2
  <2>4. marked' \subseteq Slot
    BY <1>2, <1>3, <1>9, <2>1, Zenon DEF PartitionEvent
  <2> QED
    BY <1>2, <1>9, <2>1, <2>3, <2>4, Zenon DEF PartitionEvent, Types, watchVars, rpcVars
<1>10. CASE ServerEvent
  <2>1. Takes("server")
    BY <1>10 DEF ServerEvent
  <2>2. hand' \in [slot : Slot \cup {None}, val : Kept(env)]
    BY <1>2, <1>10, <2>1 DEF ServerEvent
  <2>3. rpc' \in [Keys -> 0 .. 2] /\ late' \subseteq Keys
    <3>1. rpc' \in {rpc, [rpc EXCEPT ![Event.key] = 0]} /\ late' \subseteq late
      BY <1>10 DEF ServerEvent
    <3> QED
      BY <3>1 DEF Types
  <2>4. marked' \subseteq Slot
    BY <1>3, <1>10 DEF ServerEvent
  <2> QED
    BY <1>2, <1>10, <2>1, <2>2, <2>3, <2>4, Zenon DEF ServerEvent, Types, watchVars
<1>11. CASE Apply
  <2>1. cache' \in [Slot -> Kept(env)] /\ marked' \subseteq Slot
    BY <1>3, <1>11, Zenon DEF Apply, Types
  <2> QED
    BY <1>4, <1>11, <2>1 DEF Apply, Types, watchVars, rpcVars
<1>12. CASE EventDropped
  <2>1. Takes(env.kind) /\ Fault("query") /\ Mark(Touched(pos'))
    BY <1>12 DEF EventDropped
  <2>2. marked' \subseteq Slot
    BY <1>1, <1>2, <1>3, <2>1, TouchedType, Zenon
  <2>3. fails' \in 0 .. MaxFails
    BY <1>1, <2>1 DEF Fault, Types
  <2> QED
    BY <1>2, <1>12, <2>1, <2>2, <2>3 DEF EventDropped, Types, watchVars, rpcVars
<1> QED
  BY <1>5, <1>6, <1>7, <1>8, <1>9, <1>10, <1>11, <1>12, Zenon DEF Handler, UserEvent, RoleEvent

LEMMA RequestTypes ==
  ASSUME Types, NEW w \in Worker, Ask(w) \/ Reload(w)
  PROVE  Types'
<1> DEFINE R == [pc : {"idle", "asked", "read"}, val : Kept(env)]
<1>1. Len(log) \in Nat /\ Hist(env, log) /\ MaxFails \in Nat /\ NoReload \in R
  BY MasterCacheAssumption, NoValueFacts DEF Types, Hist, NoReload
<1>2. reload[w] \in R /\ reload \in [Worker -> R]
  BY DEF Types
<1>3. Answer(w) \in Kept(env)
  BY <1>1, Same, FoundType DEF Answer, Now
<1>4. w[1] \in Slot
  BY Slots DEF Worker
<1>5. CASE Ask(w)
  <2>1. reload' \in [Worker -> R]
    BY <1>2, <1>5 DEF Ask
  <2> QED
    BY <1>5, <2>1 DEF Ask, Types, watchVars, rpcVars
<1>6. CASE QueryEmpty(w)
  BY <1>1, <1>2, <1>6, Zenon DEF QueryEmpty, Types, watchVars, rpcVars
<1>7. CASE QueryFails(w)
  BY <1>1, <1>2, <1>7 DEF QueryFails, Fault, Types, watchVars, rpcVars
<1>8. CASE Query(w)
  <2>1. reload' \in [Worker -> R]
    BY <1>2, <1>3, <1>8, Zenon DEF Query
  <2> QED
    BY <1>8, <2>1 DEF Query, Types, watchVars, rpcVars
<1>9. CASE Store(w)
  <2>1. cache' \in [Slot -> Kept(env)] /\ reload' \in [Worker -> R]
    BY <1>1, <1>2, <1>4, <1>9 DEF Store, Types
  <2>2. marked' \subseteq Slot
    BY <1>4, <1>9 DEF Store, Mark, Types
  <2> QED
    BY <1>9, <2>1, <2>2 DEF Store, Types, watchVars, rpcVars
<1> QED
  BY <1>5, <1>6, <1>7, <1>8, <1>9, Zenon DEF Reload

LEMMA DialTypes ==
  ASSUME Types, NEW k \in Keys, Dial(k) \/ \E made \in BOOLEAN : DialEnd(k, made)
  PROVE  Types'
<1>1. CASE Dial(k)
  <2>1. cache[k] \in Kept(env) /\ env.kind = "server"
    BY <1>1, Slots, Zenon DEF Types, Dial
  <2>2. cache[k].ver \in 0 .. 2
    BY <2>1, NoValueFacts DEF Kept
  <2> QED
    BY <1>1, <2>2, Zenon DEF Dial, Types, watchVars
<1>2. ASSUME NEW made \in BOOLEAN, DialEnd(k, made)
      PROVE  Types'
  <2>1. rpc' \in [Keys -> 0 .. 2] /\ dial' \in [key : Keys \cup {None}, addr : 0 .. 2]
    BY <1>2 DEF DialEnd, Types, NoDial
  <2>2. late' \subseteq Keys
    BY <1>2 DEF DialEnd, Types
  <2> QED
    BY <1>2, <2>1, <2>2, Zenon DEF DialEnd, Types, watchVars
<1> QED
  BY <1>1, <1>2, Zenon

LEMMA TypesNext ==
  ASSUME Types, [Next]_vars
  PROVE  Types'
<1>1. CASE UNCHANGED vars
  BY <1>1 DEF vars, Types
<1>2. CASE Next
  BY <1>2, WriterTypes, WatchTypes, EventTypes, RequestTypes, DialTypes DEF Next
<1> QED
  BY <1>1, <1>2, Zenon

LEMMA TypesAlways == Spec => []Types
BY TypesInit, TypesNext, PTL DEF Spec

-----------------------------------------------------------------------------
(* The cache follows the log.                                              *)

(* Current, for a cache, a log and a position. *)
Cur(e, L, p, c, s) ==
  \/ c[s] = NoValue /\ e.kind \notin {"alias", "router"}
  \/ Seen(L, p, s, c[s])

(* The address a is one that the server k has at p or after. *)
HadIn(L, p, k, a) == \E r \in p .. Len(L) : a = FoundIn(L, r, k).ver

LEMMA CurrentForm ==
  /\ \A s : Current(s) <=> Cur(env, log, pos, cache, s)
  /\ \A s : Current(s)' <=> Cur(env', log', pos', cache', s)
BY DEF Current, Cur, Seen, Found, FoundIn, At, AtIn, Reloads, Now

LEMMA AddressedForm ==
  /\ \A k : Addressed(k) <=> HadIn(log, pos, k, rpc[k])
  /\ \A k : Addressed(k)' <=> HadIn(log', pos', k, rpc'[k])
BY DEF Addressed, HadIn, Found, FoundIn, At, AtIn, Now

(* What the handler of a space, a partition or a server is about to store  *)
(* is what etcd had where the watch is.                                    *)
HandKnown ==
  hand # NoHand =>
    /\ watch = "on" /\ env.kind \in {"space", "partition", "server"}
    /\ hand.slot \in Keys \cup Names
    /\ hand.val = NoValue \/ hand.val = FoundIn(log, pos, hand.slot)

ReloadsOnly == \A w \in Worker : reload[w].pc # "idle" => Reloads

RoutersPlain ==
  env.kind = "router" => \A k \in Keys \ env.limits : cache[k] \in {NoValue, Plain(k)}

(* The routers that the cache has. *)
Known(c) == {k \in Keys \ env.limits : c[k] # NoValue}

Counted == count = IF env.kind = "router" THEN Cardinality(Known(cache)) ELSE 0

ClientsHad ==
  /\ dial # NoDial => env.kind = "server" /\ watch # "init"
  /\ \A k \in Keys : rpc[k] # 0 =>
       env.kind = "server" /\ watch # "init" /\ (k \in late \/ HadIn(log, pos, k, rpc[k]))

Follow == HandKnown /\ ReloadsOnly /\ RoutersPlain /\ Counted /\ CacheCurrent /\ ClientsHad

(* What is not marked and not at hand is to be shown current. *)
LEMMA Remarked ==
  ASSUME NEW S, Mark(S), env' = env,
         \A s \in Readable : s \in marked \cup S \/ s = hand'.slot
                               \/ Cur(env, log', pos', cache', s)
  PROVE  CacheCurrent'
<1>1. \A s : s \in marked' <=> s \in marked \cup S /\ ~ Current(s)'
  BY DEF Mark
<1>2. Readable' = Readable
  BY DEF Readable
<1>3. \A s \in Readable : s \in marked' \/ s = hand'.slot \/ Current(s)'
  BY <1>1, CurrentForm
<1> QED
  BY <1>2, <1>3 DEF CacheCurrent

LEMMA Unmarked ==
  ASSUME CacheCurrent, UNCHANGED <<env, log, pos, cache, hand, marked>>,
         watch' # "init" => watch # "init"
  PROVE  CacheCurrent'
<1>1. Readable' = Readable
  BY DEF Readable
<1>2. \A s : Current(s)' <=> Current(s)
  BY CurrentForm
<1> QED
  BY <1>1, <1>2 DEF CacheCurrent

(* An event that does not touch a slot leaves it current. *)
LEMMA EventAhead ==
  ASSUME Types, NEW k, Takes(k), NEW s, s # None, NEW v, Seen(log, pos, s, v),
         s \notin TouchedIn(log, pos')
  PROVE  Seen(log, pos', s, v)
<1>1. /\ pos \in 0 .. Len(log) /\ pos' \in 0 .. Len(log) /\ pos' \in pos + 1 .. Len(log)
      /\ Len(log) \in Nat /\ Hist(env, log)
      /\ \A j \in pos + 1 .. pos' - 1 : log[j].key \notin Keys
  BY TakesEvent DEF Types, Hist
<1>2. \A j \in pos + 1 .. pos' - 1 : TouchedIn(log, j) = {}
  BY <1>1, Zenon DEF TouchedIn
<1>3. \A j \in pos + 1 .. pos' : s \notin TouchedIn(log, j)
  <2>1. \A j \in pos + 1 .. pos' : j \in pos + 1 .. pos' - 1 \/ j = pos'
    BY <1>1, Between, Zenon
  <2> QED
    BY <1>2, <2>1
<1> QED
  BY <1>1, <1>3, SeenAhead, Zenon

(* What was seen and is no more is what was there before the event. *)
LEMMA EventBehind ==
  ASSUME Types, NEW k, Takes(k), NEW s, s # None, NEW v, Seen(log, pos, s, v),
         ~ Seen(log, pos', s, v)
  PROVE  v = FoundIn(log, pos' - 1, s)
<1>1. /\ pos \in 0 .. Len(log) /\ pos' \in 0 .. Len(log) /\ pos' \in pos + 1 .. Len(log)
      /\ Len(log) \in Nat /\ Hist(env, log)
      /\ \A j \in pos + 1 .. pos' - 1 : log[j].key \notin Keys
  BY TakesEvent DEF Types, Hist
<1>2. PICK r \in pos .. Len(log) : v = FoundIn(log, r, s)
  BY DEF Seen
<1>3. r < pos'
  BY <1>1, <1>2 DEF Seen
<1>4. r \in 0 .. Len(log) /\ pos' - 1 \in 0 .. Len(log) /\ r <= pos' - 1
  BY <1>1, <1>3, Between, Zenon
<1>5. \A j \in r + 1 .. pos' - 1 : s \notin TouchedIn(log, j)
  <2>1. \A j \in r + 1 .. pos' - 1 : j \in pos + 1 .. pos' - 1
    BY <1>1, Between, Zenon
  <2> QED
    BY <1>1, <2>1 DEF TouchedIn
<1>6. FoundIn(log, r, s) = FoundIn(log, pos' - 1, s)
  BY <1>1, <1>4, <1>5, FoundSame, Zenon
<1> QED
  BY <1>2, <1>6, Zenon

LEMMA CurrentWrite ==
  ASSUME Types, CacheCurrent, NEW k, NEW v, Write(k, v), [key |-> k, val |-> v] \in Entry
  PROVE  CacheCurrent'
<1>1. CASE watch = "init"
  BY <1>1 DEF CacheCurrent, Write, watchVars
<1>2. CASE watch # "init"
  <2>1. log \in Seq(Entry) /\ pos \in 0 .. Len(log)
    BY DEF Types, Hist
  <2>2. log' = Append(log, [key |-> k, val |-> v]) /\ UNCHANGED <<env, pos, cache, hand>> /\ Mark({})
    BY DEF Write
  <2>3. \A s : Cur(env, log, pos, cache, s) => Cur(env, log', pos', cache', s)
    BY <2>1, <2>2, SeenAppend DEF Cur
  <2>4. \A s \in Readable : s \in marked \/ s = hand.slot \/ Cur(env, log, pos, cache, s)
    BY <1>2, CurrentForm DEF CacheCurrent
  <2> QED
    BY <2>2, <2>3, <2>4, Remarked, Zenon
<1> QED
  BY <1>1, <1>2

LEMMA CurrentScan ==
  ASSUME Types, Scan
  PROVE  CacheCurrent'
<1>1. Len(log) \in Nat /\ Hist(env, log) /\ Readable \subseteq Slot
  BY ReadableType, SMTT(30) DEF Types, Hist
<1>2. PICK skip \in {None} \cup Keys :
        /\ skip \in Keys => env.kind \in {"space", "partition"}
        /\ cache' = [s \in Slot |-> IF Found(Now, s).key = skip THEN NoValue ELSE Found(Now, s)]
  BY DEF Scan
<1>3. \A s : Found(Now, s) = FoundIn(log, Len(log), s) /\ Found(Now, s) \in Value
  BY <1>1, Same, FoundType, SMTT(30) DEF Now, Kept
<1>4. log' = log /\ pos' = Len(log) /\ env' = env
  BY DEF Scan, Now
<1>5. ASSUME NEW s \in Readable
      PROVE  Cur(env', log', pos', cache', s)
  <2>1. s \in Slot
    BY <1>1
  <2>2. CASE Found(Now, s).key = skip
    <3>1. cache'[s] = NoValue
      BY <1>2, <2>1, <2>2
    <3>2. CASE skip \in Keys
      BY <1>2, <1>4, <3>1, <3>2 DEF Cur
    <3>3. CASE skip = None
      <4>1. NoValue = FoundIn(log, Len(log), s)
        BY <1>3, <2>2, <3>3, NoValueFacts, Zenon
      <4> QED
        BY <1>1, <1>4, <3>1, <4>1, SMTT(30) DEF Cur, Seen
    <3> QED
      BY <3>2, <3>3
  <2>3. CASE Found(Now, s).key # skip
    <3>1. cache'[s] = FoundIn(log, Len(log), s)
      BY <1>2, <1>3, <2>1, <2>3
    <3> QED
      BY <1>1, <1>4, <3>1 DEF Cur, Seen
  <2> QED
    BY <2>2, <2>3
<1>6. Readable' = Readable
  BY <1>4 DEF Readable
<1> QED
  BY <1>5, <1>6, CurrentForm, Zenon DEF CacheCurrent

LEMMA LogLength ==
  ASSUME Types
  PROVE  Len(log) \in Nat
<1>1. log \in Seq(Entry)
  BY DEF Types, Hist
<1> QED
  BY <1>1

(* Where a watch starts. *)
LEMMA StartsAt ==
  ASSUME Types, StartWatch
  PROVE  pos' \in 0 .. Len(log)
<1>1. PICK ok \in BOOLEAN : pos' = From(ok)
  BY Zenon DEF StartWatch
<1>2. From(ok) \in 0 .. Len(log)
  BY LogLength DEF From, Now
<1> QED
  BY <1>1, <1>2

LEMMA CurrentStart ==
  ASSUME Types, CacheCurrent, StartWatch
  PROVE  CacheCurrent'
<1>1. Len(log) \in Nat /\ Hist(env, log) /\ None \notin Readable /\ pos \in 0 .. Len(log)
  BY ReadableType, LogLength, Zenon DEF Types
<1>2. pos' \in 0 .. Len(log)
  BY StartsAt
<1>3. /\ UNCHANGED <<env, log, cache, hand>> /\ watch # "init"
      /\ Mark(UNION {Touched(i) : i \in pos + 1 .. pos'})
  BY DEF StartWatch
<1> DEFINE S == UNION {Touched(i) : i \in pos + 1 .. pos'}
<1>4. ASSUME NEW s \in Readable, Cur(env, log, pos, cache, s), s \notin S
      PROVE  Cur(env, log, pos', cache, s)
  <2>1. \A i \in pos + 1 .. pos' : s \notin TouchedIn(log, i)
    BY <1>4, Same
  <2>2. Seen(log, pos, s, cache[s]) => Seen(log, pos', s, cache[s])
    BY <1>1, <1>2, <2>1, SeenAhead, Zenon
  <2> QED
    BY <1>4, <2>2 DEF Cur
<1>5. \A s \in Readable : s \in marked \/ s = hand.slot \/ Cur(env, log, pos, cache, s)
  BY <1>3, CurrentForm DEF CacheCurrent
<1>6. \A s \in Readable : s \in marked \cup S \/ s = hand'.slot \/ Cur(env, log', pos', cache', s)
  BY <1>3, <1>4, <1>5
<1> QED
  BY <1>3, <1>6, Remarked, Zenon

(* What holds when a handler takes an event. *)
LEMMA EventCurrent ==
  ASSUME Types, CacheCurrent, NEW k, Takes(k)
  PROVE  \A s \in Readable : s \in marked \/ Cur(env, log, pos, cache, s)
<1>1. watch = "on" /\ hand = NoHand
  BY Zenon DEF Takes
<1>2. hand.slot = None /\ None \notin Readable
  BY <1>1, ReadableType, Zenon DEF NoHand, Types
<1> QED
  BY <1>1, <1>2, CurrentForm DEF CacheCurrent

LEMMA KeyEvent ==
  ASSUME Types, NEW k, k # "space", Takes(k)
  PROVE  /\ FoundIn(log, pos', Event.key) = Event.val
         /\ \A s : s # Event.key => s \notin TouchedIn(log, pos')
         /\ Readable \subseteq Keys
         /\ Event.key \in Keys /\ Event.key \in Slot
<1>1. /\ Hist(env, log) /\ env.kind = k /\ pos' \in 1 .. Len(log) /\ Event = log[pos']
      /\ Event.key \in Keys
  BY TakesEvent, Zenon DEF Types
<1>2. Readable \subseteq Keys
  BY <1>1, ReadableType
<1>3. /\ FoundIn(log, pos', Event.key) = Event.val
      /\ \A s : s # Event.key => s \notin TouchedIn(log, pos')
  BY <1>1, KeyTouched, Zenon
<1> QED
  BY <1>1, <1>2, <1>3, Slots, Zenon

(* A slot that neither the event nor its handler touches stays current. *)
LEMMA CurAhead ==
  ASSUME Types, NEW k, Takes(k), NEW s \in Readable, NEW c, c[s] = cache[s],
         Cur(env, log, pos, cache, s), s \notin TouchedIn(log, pos')
  PROVE  Cur(env, log, pos', c, s)
<1>1. s # None
  BY ReadableType, Zenon DEF Types
<1> QED
  BY <1>1, EventAhead, Zenon DEF Cur

LEMMA CurrentKeyed ==
  ASSUME Types, CacheCurrent, NEW k \in {"user", "role"}, KeyedEvent(k)
  PROVE  CacheCurrent'
<1> DEFINE S == IF IsPut THEN {Event.key} ELSE {}
           t == IF IsPut THEN UserKey(Event.key) ELSE Event.key
<1>1. /\ Takes(k) /\ cache' = [cache EXCEPT ![t] = Event.val] /\ Mark(S)
      /\ log' = log /\ hand' = hand /\ env' = env
  BY DEF KeyedEvent
<1>2. /\ \A s \in Readable : s \in marked \/ Cur(env, log, pos, cache, s)
      /\ \A s : s # Event.key => s \notin TouchedIn(log, pos')
      /\ Readable \subseteq Keys /\ Event.key \in Keys /\ env.kind = k
  BY <1>1, EventCurrent, KeyEvent, Zenon DEF Takes
<1>3. t \in Slot /\ cache \in [Slot -> Kept(env)]
  BY <1>2, Slots DEF Types
<1>4. ASSUME NEW s \in Readable, s \notin marked \cup S
      PROVE  Cur(env, log', pos', cache', s)
  <2>1. CASE s = Event.key
    <3>1. ~ IsPut
      BY <1>4, <2>1
    <3>2. cache'[s] = NoValue
      BY <1>1, <1>3, <2>1, <3>1, Zenon DEF IsPut
    <3> QED
      BY <1>2, <3>2 DEF Cur
  <2>2. CASE s # Event.key
    <3>1. s # t
      BY <1>2, <2>2, Slots
    <3>2. cache'[s] = cache[s]
      BY <1>1, <1>3, <3>1
    <3> QED
      BY <1>1, <1>2, <1>4, <2>2, <3>2, CurAhead, Zenon
  <2> QED
    BY <2>1, <2>2, Zenon
<1> QED
  BY <1>1, <1>4, Remarked, Zenon

(* The event's value is stored under its key. *)
LEMMA CurrentStored ==
  ASSUME Types, CacheCurrent, NEW k, k # "space", Takes(k),
         cache' = [cache EXCEPT ![Event.key] = Event.val], Mark({}),
         UNCHANGED <<env, log, hand>>
  PROVE  CacheCurrent'
<1>1. /\ \A s \in Readable : s \in marked \/ Cur(env, log, pos, cache, s)
      /\ \A s : s # Event.key => s \notin TouchedIn(log, pos')
      /\ Event.key \in Slot /\ FoundIn(log, pos', Event.key) = Event.val
      /\ pos' \in pos' .. Len(log)
  BY EventCurrent, KeyEvent, TakesEvent, Zenon
<1>2. cache \in [Slot -> Kept(env)]
  BY DEF Types
<1>3. ASSUME NEW s \in Readable, s \notin marked
      PROVE  Cur(env, log', pos', cache', s)
  <2>1. CASE s = Event.key
    <3>1. cache'[s] = Event.val
      BY <1>1, <1>2, <2>1, Zenon
    <3> QED
      BY <1>1, <2>1, <3>1 DEF Cur, Seen
  <2>2. CASE s # Event.key
    <3>1. cache'[s] = cache[s]
      BY <1>2, <2>2
    <3> QED
      BY <1>1, <1>3, <2>2, <3>1, CurAhead, Zenon
  <2> QED
    BY <2>1, <2>2
<1> QED
  BY <1>3, Remarked, Zenon

(* A router that is known already has the value of the event. *)
LEMMA RouterStored ==
  ASSUME Types, Follow, RouterEvent
  PROVE  cache' = [cache EXCEPT ![Event.key] = Event.val]
<1>1. /\ Takes("router")
      /\ cache' = IF IsKnown = IsPut /\ ~ IsLimit THEN cache
                  ELSE [cache EXCEPT ![Event.key] = Event.val]
  BY DEF RouterEvent
<1>2. /\ env.kind = "router" /\ Event = log[pos'] /\ Event.key \in Keys /\ Sound(env, log, pos')
      /\ cache \in [Slot -> Kept(env)] /\ Event.key \in Slot
  BY <1>1, TakesEvent, Slots, Zenon DEF Types
<1>3. CASE IsKnown = IsPut /\ ~ IsLimit
  <2>1. cache[Event.key] \in {NoValue, Plain(Event.key)}
    BY <1>2, <1>3, Zenon DEF Follow, RoutersPlain, IsLimit
  <2>2. Event.val \in {NoValue, Plain(Event.key)}
    BY <1>2, <1>3 DEF Sound, IsLimit
  <2>3. (cache[Event.key] # NoValue) <=> (Event.val # NoValue)
    BY <1>3 DEF IsKnown, IsPut
  <2>4. cache[Event.key] = Event.val
    BY <2>1, <2>2, <2>3
  <2>5. cache = [cache EXCEPT ![Event.key] = Event.val]
    BY <1>2, <2>4
  <2> QED
    BY <1>1, <1>3, <2>5, Zenon
<1>4. CASE ~ (IsKnown = IsPut /\ ~ IsLimit)
  BY <1>1, <1>4, Zenon
<1> QED
  BY <1>3, <1>4

(* Another name, whose entry has not the id of the event's space: what it  *)
(* shows is not what the event replaces.                                   *)
LEMMA SpaceOther ==
  ASSUME Types, Takes("space"), NEW s \in Readable, Cur(env, log, pos, cache, s),
         cache[s].key # Event.key, s # Event.val.slot
  PROVE  Cur(env, log, pos', cache, s)
<1> DEFINE k == Event.key
<1>1. /\ Hist(env, log) /\ pos' \in 1 .. Len(log) /\ pos' - 1 \in 0 .. Len(log)
      /\ Event = log[pos'] /\ k \in Keys /\ env.kind = "space"
  BY TakesEvent, Zenon DEF Types
<1>2. s # None
  BY <1>1, ReadableType, Zenon
<1>3. CASE s \notin TouchedIn(log, pos')
  BY <1>3, CurAhead, Zenon
<1>4. CASE s \in TouchedIn(log, pos') /\ ~ Cur(env, log, pos', cache, s)
  <2>1. Seen(log, pos, s, cache[s]) /\ ~ Seen(log, pos', s, cache[s])
    BY <1>4, Zenon DEF Cur
  <2>2. cache[s] = FoundIn(log, pos' - 1, s)
    BY <1>2, <2>1, EventBehind, Zenon
  <2>3. AtIn(log, pos', k) = Event.val
    BY <1>1, AtWrite
  <2>4. AtIn(log, pos' - 1, k).slot = s
    BY <1>1, <1>4, <2>3, Zenon DEF TouchedIn
  <2>5. cache[s] = AtIn(log, pos' - 1, k)
    BY <1>1, <1>2, <2>2, <2>4, FoundIs, Zenon
  <2>6. AtIn(log, pos' - 1, k) # NoValue
    BY <1>2, <2>4, NoValueFacts, Zenon
  <2>7. AtIn(log, pos' - 1, k).key = k
    BY <1>1, <2>6, AtSound, Zenon
  <2> QED
    BY <2>5, <2>7
<1> QED
  BY <1>3, <1>4

(* A put that is not newer than what is there under its name has been      *)
(* overtaken by a reload.                                                  *)
LEMMA SpaceOvertaken ==
  ASSUME Types, Takes("space"), IsPut, Event.val.slot \in Readable,
         Cur(env, log, pos, cache, Event.val.slot), ~ Newer(Event.val, Event.val.slot)
  PROVE  Cur(env, log, pos', cache, Event.val.slot)
<1> DEFINE s == Event.val.slot
<1>1. /\ Hist(env, log) /\ pos' \in 1 .. Len(log) /\ pos' - 1 \in 0 .. Len(log)
      /\ Event = log[pos'] /\ env.kind = "space" /\ Sound(env, log, pos')
      /\ Event.key \in Keys /\ Event.val \in Value
  BY TakesEvent, Zenon DEF Types
<1>2. s # None
  BY <1>1, ReadableType, Zenon
<1>3. cache[s] # NoValue /\ ~ (Event.val.ver > cache[s].ver)
  BY DEF Newer
<1>4. SUFFICES ASSUME ~ Cur(env, log, pos', cache, s) PROVE FALSE
  BY Zenon
<1>5. Seen(log, pos, s, cache[s]) /\ ~ Seen(log, pos', s, cache[s])
  BY <1>4, Zenon DEF Cur
<1>6. cache[s] = FoundIn(log, pos' - 1, s)
  BY <1>2, <1>5, EventBehind, Zenon
<1> HIDE DEF s
<1>7. PICK m \in Keys : cache[s] = AtIn(log, pos' - 1, m) /\ AtIn(log, pos' - 1, m).slot = s
  BY <1>3, <1>6, FoundCases, SMTT(30)
<1>8. m = Event.key /\ cache[s].ver < Event.val.ver
  BY <1>1, <1>7, Zenon DEF Sound, IsPut, s
<1>9. cache[s].ver \in Nat /\ Event.val.ver \in Nat
  BY <1>1, <1>7, AtSound, NoValueFacts, Zenon
<1> QED
  BY <1>3, <1>8, <1>9, Zenon

LEMMA CurrentSpace ==
  ASSUME Types, CacheCurrent, SpaceEvent
  PROVE  CacheCurrent'
<1> DEFINE t == IF IsPut THEN Event.val.slot ELSE hand'.slot
<1>1. /\ Takes("space") /\ Mark(Elsewhere(Event.key, t))
      /\ UNCHANGED <<env, log, cache>>
  BY Zenon DEF SpaceEvent
<1>2. /\ \A s \in Readable : s \in marked \/ Cur(env, log, pos, cache, s)
      /\ None \notin Readable /\ env.kind = "space" /\ Event.val \in Value
  BY <1>1, EventCurrent, TakesEvent, ReadableType, Zenon DEF Types
<1>3. ASSUME NEW s \in Readable, s \notin marked \cup Elsewhere(Event.key, t), s # hand'.slot
      PROVE  Cur(env, log', pos', cache', s)
  <2>1. Cur(env, log, pos, cache, s)
    BY <1>2, <1>3, Zenon
  <2>2. CASE s # t
    <3>1. cache[s].key # Event.key
      BY <1>3, <2>2 DEF Elsewhere
    <3>2. s # Event.val.slot
      <4>1. CASE IsPut
        BY <2>2, <4>1, Zenon
      <4>2. CASE ~ IsPut
        BY <1>2, <4>2, NoValueFacts DEF IsPut
      <4> QED
        BY <4>1, <4>2
    <3> QED
      BY <1>1, <2>1, <3>1, <3>2, SpaceOther, Zenon
  <2>3. CASE s = t
    <3>1. IsPut /\ s = Event.val.slot
      BY <1>3, <2>3
    <3>2. ~ Newer(Event.val, Event.val.slot)
      <4>1. Newer(Event.val, Event.val.slot) => hand' = [slot |-> Event.val.slot, val |-> Event.val]
        BY <3>1, Zenon DEF SpaceEvent
      <4> QED
        BY <1>3, <3>1, <4>1, SMTT(30)
    <3> QED
      BY <1>1, <2>1, <3>1, <3>2, SpaceOvertaken, Zenon
  <2> QED
    BY <2>2, <2>3, Zenon
<1> HIDE DEF t
<1> QED
  BY <1>1, <1>3, Remarked, Zenon

LEMMA CurrentPartition ==
  ASSUME Types, CacheCurrent, PartitionEvent
  PROVE  CacheCurrent'
<1> DEFINE S == IF IsPut /\ Event.val.ver < Event.val.rev THEN {Event.key} ELSE {}
<1>1. /\ Takes("partition") /\ Mark(S) /\ UNCHANGED <<env, log, cache>>
      /\ hand' = IF IF IsPut THEN Newer(Event.val, Event.key) ELSE cache[Event.key] # NoValue
                 THEN [slot |-> Event.key, val |-> Event.val] ELSE NoHand
  BY DEF PartitionEvent
<1>2. /\ \A s \in Readable : s \in marked \/ Cur(env, log, pos, cache, s)
      /\ \A s : s # Event.key => s \notin TouchedIn(log, pos')
      /\ None \notin Readable /\ env.kind = "partition" /\ Event.val \in Value
      /\ Hist(env, log) /\ pos' \in 1 .. Len(log) /\ pos' - 1 \in 0 .. Len(log)
      /\ Event = log[pos'] /\ Sound(env, log, pos') /\ Event.key \in Keys
  <2>1. \A s \in Readable : s \in marked \/ Cur(env, log, pos, cache, s)
    BY <1>1, EventCurrent, Zenon
  <2>2. \A s : s # Event.key => s \notin TouchedIn(log, pos')
    BY <1>1, KeyEvent, Zenon
  <2>3. /\ env.kind = "partition" /\ Event.val \in Value
        /\ pos' \in 1 .. Len(log) /\ pos' - 1 \in 0 .. Len(log)
        /\ Event = log[pos'] /\ Sound(env, log, pos') /\ Event.key \in Keys
    BY <1>1, TakesEvent
  <2> QED
    BY <2>1, <2>2, <2>3, ReadableType, Zenon DEF Types
<1>3. ASSUME NEW s \in Readable, s \notin marked \cup S, s # hand'.slot
      PROVE  Cur(env, log', pos', cache', s)
  <2>1. Cur(env, log, pos, cache, s)
    BY <1>2, <1>3
  <2>2. CASE s # Event.key
    BY <1>1, <1>2, <2>1, <2>2, CurAhead, Zenon
  <2>3. CASE s = Event.key
    <3>1. ~ IF IsPut THEN Newer(Event.val, Event.key) ELSE cache[Event.key] # NoValue
      BY <1>1, <1>3, <2>3, Zenon
    <3>2. CASE ~ IsPut
      BY <1>1, <1>2, <2>3, <3>1, <3>2, Zenon DEF Cur
    <3>3. CASE IsPut
      <4>1. cache[s] # NoValue /\ ~ (Event.val.ver > cache[s].ver)
        BY <2>3, <3>1, <3>3, Zenon DEF Newer
      <4>2. ~ (Event.val.ver < Event.val.rev) /\ Event.val.rev = pos'
        BY <1>2, <1>3, <2>3, <3>3, Zenon DEF Sound, IsPut
      <4>3. SUFFICES ASSUME ~ Cur(env, log, pos', cache, s) PROVE FALSE
        BY <1>1, Zenon
      <4>4. Seen(log, pos, s, cache[s]) /\ ~ Seen(log, pos', s, cache[s])
        BY <2>1, <4>1, <4>3, Zenon DEF Cur
      <4>5. cache[s] = FoundIn(log, pos' - 1, s)
        BY <1>1, <1>2, <4>4, EventBehind, Zenon
      <4>6. cache[s] = AtIn(log, pos' - 1, s)
        BY <1>2, <2>3, <4>5, FoundKey, Zenon
      <4>7. cache[s].ver <= pos' - 1 /\ cache[s].ver \in Nat /\ Event.val.ver \in Nat
        <5>1. AtIn(log, pos' - 1, s) \in Value /\ AtIn(log, pos' - 1, s).ver <= pos' - 1
          BY <1>2, <2>3, AtSound, Zenon
        <5> QED
          BY <1>2, <4>6, <5>1, NoValueFacts, Zenon
      <4>8. pos' \in Nat
        BY <1>2, SMTT(30)
      <4> QED
        BY <4>1, <4>2, <4>7, <4>8
    <3> QED
      BY <3>2, <3>3, Zenon
  <2> QED
    BY <2>2, <2>3, Zenon
<1> HIDE DEF S
<1> QED
  BY <1>1, <1>3, Remarked, Zenon

LEMMA CurrentServer ==
  ASSUME Types, CacheCurrent, ServerEvent
  PROVE  CacheCurrent'
<1>1. /\ Takes("server") /\ Mark({}) /\ UNCHANGED <<env, log, cache>> /\ hand'.slot = Event.key
  BY DEF ServerEvent
<1>2. /\ \A s \in Readable : s \in marked \/ Cur(env, log, pos, cache, s)
      /\ \A s : s # Event.key => s \notin TouchedIn(log, pos')
  <2>1. \A s \in Readable : s \in marked \/ Cur(env, log, pos, cache, s)
    BY <1>1, EventCurrent, Zenon
  <2>2. \A s : s # Event.key => s \notin TouchedIn(log, pos')
    BY <1>1, KeyEvent, Zenon
  <2> QED
    BY <2>1, <2>2, Zenon
<1>3. \A s \in Readable : s \in marked \/ s = hand'.slot \/ Cur(env, log, pos', cache, s)
  BY <1>1, <1>2, CurAhead, Zenon
<1> QED
  BY <1>1, <1>3, Remarked, Zenon

LEMMA CurrentDropped ==
  ASSUME Types, CacheCurrent, EventDropped
  PROVE  CacheCurrent'
<1>1. /\ Takes(env.kind) /\ Mark(Touched(pos')) /\ UNCHANGED <<env, log, cache, hand>>
  BY Zenon DEF EventDropped
<1>2. \A s \in Readable : s \in marked \/ Cur(env, log, pos, cache, s)
  BY <1>1, EventCurrent, Zenon
<1>3. \A s \in Readable : s \in marked \cup Touched(pos') \/ Cur(env, log, pos', cache, s)
  BY <1>1, <1>2, CurAhead, Same
<1> QED
  BY <1>1, <1>3, Remarked

LEMMA CurrentApply ==
  ASSUME Types, HandKnown, CacheCurrent, Apply
  PROVE  CacheCurrent'
<1>1. /\ hand # NoHand /\ cache' = [cache EXCEPT ![hand.slot] = hand.val] /\ Mark({})
      /\ UNCHANGED <<env, log, pos, watch>>
  BY DEF Apply, watchVars
<1>2. /\ watch # "init" /\ env.kind \notin {"alias", "router"} /\ hand.slot \in Keys \cup Names
      /\ hand.val = NoValue \/ hand.val = FoundIn(log, pos, hand.slot)
  BY <1>1, Zenon DEF HandKnown
<1>8. Len(log) \in Nat /\ pos \in 0 .. Len(log)
  BY SMTT(30) DEF Types, Hist
<1>3. hand.slot \in Slot /\ cache \in [Slot -> Kept(env)] /\ pos \in pos .. Len(log)
  BY <1>2, <1>8, Slots, SMTT(30) DEF Types
<1>4. Cur(env, log, pos, cache', hand.slot)
  BY <1>1, <1>2, <1>3, Zenon DEF Cur, Seen
<1>5. \A s \in Readable : s # hand.slot => cache'[s] = cache[s]
  BY <1>1, <1>3, ReadableType, Zenon DEF Types
<1>6. \A s \in Readable : s \in marked \/ s = hand.slot \/ Cur(env, log, pos, cache, s)
  BY <1>2, CurrentForm, Zenon DEF CacheCurrent
<1>7. \A s \in Readable : s \in marked \/ Cur(env, log, pos, cache', s)
  BY <1>4, <1>5, <1>6 DEF Cur
<1> QED
  BY <1>1, <1>7, Remarked, Zenon

LEMMA CurrentStore ==
  ASSUME Types, CacheCurrent, NEW w \in Worker, Store(w)
  PROVE  CacheCurrent'
<1>1. /\ cache' = [cache EXCEPT ![w[1]] = reload[w].val] /\ Mark({w[1]})
      /\ UNCHANGED <<env, log, pos, watch, hand>>
  BY Zenon DEF Store, watchVars
<1>2. CASE watch = "init"
  BY <1>1, <1>2, Zenon DEF CacheCurrent
<1>3. CASE watch # "init"
  <2>1. \A s \in Readable : s \in marked \/ s = hand.slot \/ Cur(env, log, pos, cache, s)
    BY <1>3, CurrentForm, Zenon DEF CacheCurrent
  <2>2. \A s \in Slot : s # w[1] => cache'[s] = cache[s]
    BY <1>1, Zenon DEF Types
  <2>3. Readable \subseteq Slot
    BY ReadableType, Zenon DEF Types
  <2>4. \A s \in Readable : s \in marked \cup {w[1]} \/ s = hand.slot \/ Cur(env, log, pos, cache', s)
    BY <2>1, <2>2, <2>3 DEF Cur
  <2> QED
    BY <1>1, <2>4, Remarked, Zenon
<1> QED
  BY <1>2, <1>3, Zenon

-----------------------------------------------------------------------------
(* The rest of Follow.                                                     *)

(* What a step leaves alone stays. *)
LEMMA FollowStays ==
  ASSUME env' = env, Follow
  PROVE  /\ UNCHANGED <<log, watch, pos, hand>> => HandKnown'
         /\ hand' = NoHand => HandKnown'
         /\ UNCHANGED reload => ReloadsOnly'
         /\ UNCHANGED cache => RoutersPlain'
         /\ env.kind # "router" => RoutersPlain'
         /\ UNCHANGED <<cache, count>> => Counted'
         /\ env.kind # "router" /\ UNCHANGED count => Counted'
         /\ UNCHANGED <<log, watch, pos, rpc, dial, late>> => ClientsHad'
         /\ env.kind # "server" /\ UNCHANGED <<rpc, dial>> => ClientsHad'
<1>1. Reloads' <=> Reloads
  BY DEF Reloads
<1>2. UNCHANGED <<log, watch, pos, hand>> => HandKnown'
  BY DEF Follow, HandKnown
<1>3. hand' = NoHand => HandKnown'
  BY Zenon DEF HandKnown
<1>4. UNCHANGED reload => ReloadsOnly'
  BY <1>1 DEF Follow, ReloadsOnly
<1>5. /\ UNCHANGED cache => RoutersPlain'
      /\ env.kind # "router" => RoutersPlain'
  BY DEF Follow, RoutersPlain
<1>6. /\ UNCHANGED <<cache, count>> => Counted'
      /\ env.kind # "router" /\ UNCHANGED count => Counted'
  BY DEF Follow, Counted, Known
<1>7. /\ UNCHANGED <<log, watch, pos, rpc, dial, late>> => ClientsHad'
      /\ env.kind # "server" /\ UNCHANGED <<rpc, dial>> => ClientsHad'
  BY DEF Follow, ClientsHad
<1> QED
  BY <1>2, <1>3, <1>4, <1>5, <1>6, <1>7, Zenon

LEMMA FollowInit == Init => Follow
<1> SUFFICES ASSUME Init PROVE Follow
  OBVIOUS
<1>1. Known(cache) = {}
  BY Slots DEF Init, Known
<1>2. Counted
  BY <1>1, FS_EmptySet, Zenon DEF Init, Counted
<1>3. RoutersPlain
  BY Slots, Zenon DEF Init, RoutersPlain
<1>4. ReloadsOnly /\ HandKnown /\ ClientsHad /\ CacheCurrent
  BY DEF Init, ReloadsOnly, NoReload, HandKnown, ClientsHad, CacheCurrent
<1> QED
  BY <1>2, <1>3, <1>4, Zenon DEF Follow

(* An address that a server had is one it has while it is not touched. *)
LEMMA HadSeen ==
  ASSUME NEW L, NEW p, NEW k, NEW a
  PROVE  HadIn(L, p, k, a) <=> \E v : Seen(L, p, k, v) /\ a = v.ver
BY Zenon DEF HadIn, Seen

LEMMA FollowWrite ==
  ASSUME Types, Follow, NEW k, NEW v, Write(k, v), [key |-> k, val |-> v] \in Entry
  PROVE  Follow'
<1>1. /\ log' = Append(log, [key |-> k, val |-> v])
      /\ UNCHANGED <<env, watch, pos, hand, cache, reload, rpc, dial, late, count>>
  BY Zenon DEF Write, watchVars, rpcVars
<1>2. log \in Seq(Entry) /\ pos \in 0 .. Len(log)
  BY Zenon DEF Types, Hist
<1>4. HandKnown'
  <2>1. \A s : FoundIn(log', pos, s) = FoundIn(log, pos, s)
    BY <1>1, <1>2, FoundAppend, Zenon
  <2> QED
    BY <1>1, <2>1 DEF Follow, HandKnown
<1>5. ClientsHad'
  <2>1. \A m, a : HadIn(log, pos, m, a) => HadIn(log', pos, m, a)
    BY <1>1, <1>2, HadSeen, SeenAppend, Zenon
  <2> QED
    BY <1>1, <2>1 DEF Follow, ClientsHad
<1>6. CacheCurrent'
  BY CurrentWrite DEF Follow
<1> QED
  BY <1>1, <1>4, <1>5, <1>6, FollowStays, Zenon DEF Follow

LEMMA FollowScan ==
  ASSUME Types, Follow, Scan
  PROVE  Follow'
<1>1. /\ watch = "init" /\ UNCHANGED <<env, log, hand, reload, rpc, dial, late>>
      /\ count' = IF env.kind = "router"
                  THEN Cardinality({k \in Keys \ env.limits : At(Now, k) # NoValue}) ELSE count
  BY Zenon DEF Scan, rpcVars
<1>2. hand = NoHand /\ dial = NoDial /\ \A k \in Keys : rpc[k] = 0
  BY <1>1 DEF Follow, HandKnown, ClientsHad
<1>3. ClientsHad'
  BY <1>1, <1>2, Zenon DEF ClientsHad
<1>4. ASSUME env.kind = "router"
      PROVE  \A k \in Keys : cache'[k] = At(Now, k)
  <2>1. Hist(env, log) /\ Len(log) \in 0 .. Len(log)
    BY DEF Types, Hist
  <2>2. cache' = [s \in Slot |-> IF Found(Now, s).key = None THEN NoValue ELSE Found(Now, s)]
    BY <1>4, Zenon DEF Scan
  <2>5. env.kind # "space"
    BY <1>4
  <2>4. ASSUME NEW k \in Keys
        PROVE  FoundIn(log, Len(log), k) = AtIn(log, Len(log), k)
    BY <2>1, <2>5, FoundKey, Zenon
  <2>6. ASSUME NEW k \in Keys
        PROVE  AtIn(log, Len(log), k) \in Value
    BY <2>1, AtSound
  <2>3. \A k \in Keys : Found(Now, k) = At(Now, k) /\ At(Now, k) \in Value
    BY <2>4, <2>6, Same, Zenon DEF Now
  <2> QED
    BY <2>2, <2>3, NoValueFacts, Slots, Zenon
<1>5. RoutersPlain'
  <2>1. CASE env.kind = "router"
    <3>2. Hist(env, log) /\ Len(log) \in 0 .. Len(log)
      BY DEF Types, Hist
    <3>3. \A k \in Keys \ env.limits : AtIn(log, Len(log), k) \in {NoValue, Plain(k)}
      BY <2>1, <3>2, AtSound, Zenon
    <3>1. \A k \in Keys \ env.limits : At(Now, k) \in {NoValue, Plain(k)}
      BY <3>3, Same, Zenon DEF Now
    <3> QED
      BY <1>1, <1>4, <2>1, <3>1, Zenon DEF RoutersPlain
  <2> QED
    BY <1>1, <2>1, FollowStays, Zenon
<1>6. Counted'
  <2>1. CASE env.kind = "router"
    <3>1. Known(cache') = {k \in Keys \ env.limits : At(Now, k) # NoValue}
      BY <1>4, <2>1, Zenon DEF Known
    <3>2. Known(cache)' = Known(cache')
      BY <1>1, Zenon DEF Known
    <3> QED
      BY <1>1, <2>1, <3>1, <3>2, Zenon DEF Counted
  <2>2. CASE env.kind # "router"
    BY <1>1, <2>2, FollowStays
  <2> QED
    BY <2>1, <2>2
<1>7. CacheCurrent'
  BY CurrentScan
<1> QED
  BY <1>1, <1>2, <1>3, <1>5, <1>6, <1>7, FollowStays, ZenonT(30) DEF Follow

LEMMA FollowStart ==
  ASSUME Types, Follow, StartWatch
  PROVE  Follow'
<1>1. /\ watch = "off" /\ watch' = "on"
      /\ UNCHANGED <<env, log, hand, cache, reload, rpc, dial, count>>
      /\ late' = late \cup {k \in Keys : rpc[k] # 0 /\ \E i \in pos + 1 .. pos' : log[i].key = k}
  BY DEF StartWatch
<1>2. hand = NoHand
  BY <1>1, Zenon DEF Follow, HandKnown
<1>3. /\ Hist(env, log) /\ Len(log) \in Nat /\ pos \in 0 .. Len(log) /\ pos' \in 0 .. Len(log)
  BY StartsAt, LogLength, Zenon DEF Types
<1>4. ASSUME NEW k \in Keys, rpc[k] # 0, k \notin late'
      PROVE  HadIn(log, pos', k, rpc[k])
  <2>1. env.kind = "server" /\ HadIn(log, pos, k, rpc[k]) /\ k # None
    BY <1>1, <1>4, Slots DEF Follow, ClientsHad
  <2>2. \A i \in pos + 1 .. pos' : i \in 1 .. Len(log) /\ log[i].key # k
    <3> TAKE i \in pos + 1 .. pos'
    <3>1. i \in 1 .. Len(log)
      BY <1>3, SMTT(30)
    <3>2. log[i].key # k
      BY <1>1, <1>4
    <3> QED
      BY <3>1, <3>2
  <2>3. \A i \in pos + 1 .. pos' : k \notin TouchedIn(log, i)
    <3> TAKE i \in pos + 1 .. pos'
    <3>1. CASE log[i].key \in Keys
      BY <1>3, <2>1, <2>2, <3>1, KeyTouched, Zenon
    <3>2. CASE log[i].key \notin Keys
      BY <3>2, Zenon DEF TouchedIn
    <3> QED
      BY <3>1, <3>2
  <2> QED
    BY <1>3, <2>1, <2>3, HadSeen, SeenAhead, Zenon
<1>5. ClientsHad'
  BY <1>1, <1>4 DEF Follow, ClientsHad
<1>6. CacheCurrent'
  BY CurrentStart DEF Follow
<1> QED
  BY <1>1, <1>2, <1>5, <1>6, FollowStays, Zenon DEF Follow

LEMMA FollowWatch ==
  ASSUME Types, Follow, Cancel \/ RecoveryEnds
  PROVE  Follow'
<1>1. CASE Cancel
  <2>1. /\ watch = "on" /\ watch' = "off" /\ hand = NoHand
        /\ UNCHANGED <<env, log, pos, hand, cache, reload, rpc, dial, late, count, marked>>
    BY <1>1 DEF Cancel, rpcVars
  <2>2. ClientsHad'
    BY <2>1 DEF Follow, ClientsHad
  <2>3. CacheCurrent'
    BY <2>1, Unmarked, Zenon DEF Follow
  <2> QED
    BY <2>1, <2>2, <2>3, FollowStays, Zenon DEF Follow
<1>2. CASE RecoveryEnds
  <2>1. UNCHANGED <<env, log, watch, pos, hand, cache, reload, rpc, dial, late, count, marked>>
    BY <1>2 DEF RecoveryEnds, rpcVars
  <2>2. CacheCurrent'
    BY <2>1, Unmarked DEF Follow
  <2> QED
    BY <2>1, <2>2, FollowStays, Zenon DEF Follow
<1> QED
  BY <1>1, <1>2

LEMMA FollowStored ==
  ASSUME Types, Follow, UserEvent \/ RoleEvent \/ AliasEvent
  PROVE  Follow'
<1>1. ASSUME NEW k \in {"user", "role"}, KeyedEvent(k)
      PROVE  Follow'
  <2>1. /\ Takes(k) /\ UNCHANGED <<env, log, watch, hand, reload, rpc, dial, late, count>>
    BY <1>1 DEF KeyedEvent, watchVars, rpcVars
  <2>2. env.kind = k /\ hand = NoHand
    BY <2>1 DEF Takes
  <2>3. CacheCurrent'
    BY <1>1, CurrentKeyed DEF Follow
  <2> QED
    BY <2>1, <2>2, <2>3, FollowStays, Zenon DEF Follow
<1>2. CASE AliasEvent
  <2>1. /\ Takes("alias") /\ cache' = [cache EXCEPT ![Event.key] = Event.val] /\ Mark({})
        /\ UNCHANGED <<env, log, watch, hand, reload, rpc, dial, late, count>>
    BY <1>2 DEF AliasEvent, watchVars, rpcVars
  <2>2. env.kind = "alias" /\ hand = NoHand
    BY <2>1 DEF Takes
  <2>3. CacheCurrent'
    BY <2>1, CurrentStored DEF Follow
  <2> QED
    BY <2>1, <2>2, <2>3, FollowStays, Zenon DEF Follow
<1> QED
  BY <1>1, <1>2, Zenon DEF UserEvent, RoleEvent

(* A router more or less in the cache, one more or less in the count. *)
LEMMA FollowRouter ==
  ASSUME Types, Follow, RouterEvent
  PROVE  Follow'
<1> DEFINE k == Event.key
<1>1. /\ Takes("router") /\ Mark({})
      /\ IF IsLimit \/ IsKnown = IsPut THEN UNCHANGED count ELSE SetRouterCount(IsPut)
      /\ UNCHANGED <<env, log, watch, hand, reload, rpc, dial, late>>
  BY DEF RouterEvent, watchVars, rpcVars
<1>2. cache' = [cache EXCEPT ![k] = Event.val]
  BY RouterStored, Zenon
<1>3. /\ env.kind = "router" /\ hand = NoHand /\ k \in Keys /\ k \in Slot
      /\ Event = log[pos'] /\ Sound(env, log, pos') /\ cache \in [Slot -> Kept(env)]
  BY <1>1, TakesEvent, Slots, Zenon DEF Types
<1>4. CacheCurrent'
  BY <1>1, <1>2, CurrentStored, Zenon DEF Follow
<1>5. k \notin env.limits => Event.val \in {NoValue, Plain(k)}
  BY <1>3, Zenon DEF Sound
<1>6. cache'[k] = Event.val /\ \A m \in Keys : m # k => cache'[m] = cache[m]
  BY <1>2, <1>3, Slots, ZenonT(30)
<1> HIDE DEF k
<1>7. RoutersPlain'
  BY <1>1, <1>5, <1>6, Zenon DEF Follow, RoutersPlain
<1>8. Counted'
  <2>1. Known(cache)' = Known(cache')
    BY <1>1 DEF Known
  <2>2. IsFiniteSet(Known(cache)) /\ IsFiniteSet(Known(cache'))
    BY FS_Subset, MasterCacheAssumption DEF Known
  <2>3. count = Cardinality(Known(cache)) /\ Cardinality(Known(cache)) \in Nat
    BY <1>3, <2>2, FS_CardinalityType, Zenon DEF Follow, Counted
  <2>4. /\ IsKnown <=> cache[k] # NoValue
        /\ IsPut <=> cache'[k] # NoValue
        /\ IsLimit <=> k \in env.limits
    BY <1>6 DEF IsKnown, IsPut, IsLimit, k
  <2>5. CASE IsLimit \/ (IsKnown <=> IsPut)
    <3>1. Known(cache') = Known(cache)
      BY <1>6, <2>4, <2>5, Zenon DEF Known
    <3>2. count' = count
      <4>1. IsLimit \/ IsKnown = IsPut
        BY <2>5 DEF IsKnown, IsPut
      <4> QED
        BY <1>1, <4>1, Zenon
    <3> QED
      BY <1>1, <1>3, <2>1, <2>3, <3>1, <3>2, Zenon DEF Counted
  <2>6. CASE ~ IsLimit /\ ~ IsKnown /\ IsPut
    <3>1. Known(cache') = Known(cache) \cup {k} /\ k \notin Known(cache)
      BY <1>3, <1>6, <2>4, <2>6, Zenon DEF Known
    <3>2. Cardinality(Known(cache')) = Cardinality(Known(cache)) + 1
      BY <2>2, <3>1, FS_AddElement, Zenon
    <3>3. count' = count + 1
      BY <1>1, <2>6, Zenon DEF SetRouterCount
    <3> QED
      BY <1>1, <1>3, <2>1, <2>3, <3>2, <3>3, Zenon DEF Counted
  <2>7. CASE ~ IsLimit /\ IsKnown /\ ~ IsPut
    <3>1. Known(cache') = Known(cache) \ {k} /\ k \in Known(cache)
      BY <1>3, <1>6, <2>4, <2>7, Zenon DEF Known
    <3>2. Cardinality(Known(cache')) = Cardinality(Known(cache)) - 1
      BY <2>2, <3>1, FS_RemoveElement, Zenon
    <3>3. count' = count - 1
      BY <1>1, <2>7, Zenon DEF SetRouterCount
    <3> QED
      BY <1>1, <1>3, <2>1, <2>3, <3>2, <3>3, Zenon DEF Counted
  <2> QED
    BY <2>5, <2>6, <2>7
<1>9. HandKnown' /\ ReloadsOnly' /\ ClientsHad'
  BY <1>1, <1>3, FollowStays, Zenon
<1> QED
  BY <1>4, <1>7, <1>8, <1>9, Zenon DEF Follow

(* What a handler takes in hand is what the log has at the event. *)
LEMMA FollowSpace ==
  ASSUME Types, Follow, SpaceEvent
  PROVE  Follow'
<1>1. Takes("space") /\ UNCHANGED <<env, log, watch, cache, reload, rpc, dial, late, count>>
  BY Zenon DEF SpaceEvent, watchVars, rpcVars
<1>2. /\ Hist(env, log) /\ env.kind = "space" /\ watch = "on" /\ pos' \in 1 .. Len(log)
      /\ pos' \in 0 .. Len(log) /\ Event = log[pos'] /\ Event.key \in Keys
      /\ Sound(env, log, pos')
  BY <1>1, TakesEvent DEF Types
<1>4. HandKnown'
  <2>1. CASE IsPut
    <3>1. hand' \in {[slot |-> Event.val.slot, val |-> Event.val], NoHand}
      BY <2>1, Zenon DEF SpaceEvent
    <3>2. Event.val.slot \in Names /\ Event.val.slot # None
      BY <1>2, <2>1, Slots, Zenon DEF Sound, IsPut
    <3>3. AtIn(log, pos', Event.key) = Event.val
      BY <1>2, AtWrite
    <3>4. FoundIn(log, pos', Event.val.slot) = Event.val
      BY <1>2, <3>2, <3>3, FoundIs, Zenon
    <3> QED
      BY <1>1, <1>2, <3>1, <3>2, <3>4, SMTT(30), Zenon DEF HandKnown
  <2>2. CASE ~ IsPut
    <3>1. hand' = NoHand \/ \E s \in Names : hand' = [slot |-> s, val |-> NoValue]
      BY <2>2, Zenon DEF SpaceEvent
    <3> QED
      BY <1>1, <1>2, <3>1 DEF HandKnown
  <2> QED
    BY <2>1, <2>2, Zenon
<1>5. CacheCurrent'
  BY CurrentSpace DEF Follow
<1> QED
  BY <1>1, <1>2, <1>4, <1>5, FollowStays DEF Follow

LEMMA FollowPartition ==
  ASSUME Types, Follow, PartitionEvent \/ EventDropped
  PROVE  Follow'
<1>1. CASE PartitionEvent
  <2>1. Takes("partition") /\ UNCHANGED <<env, log, watch, cache, reload, rpc, dial, late, count>>
    BY <1>1 DEF PartitionEvent, watchVars, rpcVars
  <2>2. /\ env.kind = "partition" /\ watch = "on" /\ Event.key \in Keys
        /\ FoundIn(log, pos', Event.key) = Event.val
    BY <2>1, KeyEvent, Zenon DEF Takes
  <2>3. hand' \in {[slot |-> Event.key, val |-> Event.val], NoHand}
    BY <1>1, Zenon DEF PartitionEvent
  <2>4. HandKnown'
    BY <2>1, <2>2, <2>3 DEF HandKnown
  <2>5. CacheCurrent'
    BY <1>1, CurrentPartition, Zenon DEF Follow
  <2> QED
    BY <2>1, <2>2, <2>4, <2>5, FollowStays, Zenon DEF Follow
<1>2. CASE EventDropped
  <2>1. /\ env.kind \in {"space", "partition"} /\ Takes(env.kind)
        /\ UNCHANGED <<env, log, watch, hand, cache, reload, rpc, dial, late, count>>
    BY <1>2 DEF EventDropped, watchVars, rpcVars
  <2>2. hand = NoHand
    BY <2>1 DEF Takes
  <2>3. CacheCurrent'
    BY <1>2, CurrentDropped, Zenon DEF Follow
  <2> QED
    BY <2>1, <2>2, <2>3, FollowStays, Zenon DEF Follow
<1> QED
  BY <1>1, <1>2

LEMMA FollowServer ==
  ASSUME Types, Follow, ServerEvent
  PROVE  Follow'
<1> DEFINE k == Event.key
<1>1. /\ Takes("server") /\ UNCHANGED <<env, log, watch, cache, reload, dial, count>>
      /\ hand' = [slot |-> k, val |-> Event.val] /\ late' = late \ {k}
      /\ rpc' = IF IsPut /\ rpc[k] = Event.val.ver THEN rpc ELSE [rpc EXCEPT ![k] = 0]
  BY DEF ServerEvent, watchVars
<1>2. /\ env.kind = "server" /\ watch = "on" /\ k \in Keys /\ FoundIn(log, pos', k) = Event.val
      /\ pos' \in pos' .. Len(log)
      /\ \A s : s # k => s \notin TouchedIn(log, pos')
  <2>1. /\ FoundIn(log, pos', k) = Event.val
        /\ \A s : s # k => s \notin TouchedIn(log, pos')
    BY <1>1, KeyEvent, Zenon
  <2>2. env.kind = "server" /\ watch = "on" /\ k \in Keys /\ pos' \in pos' .. Len(log)
    BY <1>1, TakesEvent, Zenon
  <2> QED
    BY <2>1, <2>2, Zenon
<1>3. rpc \in [Keys -> 0 .. 2]
  BY Zenon DEF Types
<1> HIDE DEF k
<1>4. HandKnown'
  BY <1>1, <1>2, Zenon DEF HandKnown
<1>5. rpc'[k] # 0 => HadIn(log, pos', k, rpc'[k])
  BY <1>1, <1>2, <1>3, Zenon DEF HadIn
<1>6. ASSUME NEW m \in Keys, m # k, rpc'[m] # 0, m \notin late'
      PROVE  HadIn(log, pos', m, rpc'[m])
  <2>1. rpc'[m] = rpc[m] /\ HadIn(log, pos, m, rpc[m]) /\ m # None
    BY <1>1, <1>3, <1>6, Slots, Zenon DEF Follow, ClientsHad
  <2> QED
    BY <1>1, <1>2, <1>6, <2>1, HadSeen, EventAhead, Zenon
<1>7. ClientsHad'
  BY <1>1, <1>2, <1>5, <1>6, Zenon DEF Follow, ClientsHad
<1>8. CacheCurrent'
  BY CurrentServer DEF Follow
<1> QED
  BY <1>1, <1>2, <1>4, <1>7, <1>8, FollowStays, Zenon DEF Follow

LEMMA FollowApply ==
  ASSUME Types, Follow, Apply
  PROVE  Follow'
<1>1. /\ hand # NoHand /\ hand' = NoHand
      /\ UNCHANGED <<env, log, watch, pos, reload, rpc, dial, late, count>>
  BY DEF Apply, watchVars, rpcVars
<1>2. env.kind # "router"
  BY <1>1 DEF Follow, HandKnown
<1>3. CacheCurrent'
  BY CurrentApply, Zenon DEF Follow
<1> QED
  BY <1>1, <1>2, <1>3, FollowStays, Zenon DEF Follow

LEMMA FollowRequest ==
  ASSUME Types, Follow, NEW w \in Worker, Ask(w) \/ Reload(w)
  PROVE  Follow'
<1>1. UNCHANGED <<env, log, watch, pos, hand, rpc, dial, late, count>>
  BY DEF Ask, Reload, QueryEmpty, QueryFails, Query, Store, watchVars, rpcVars
<1>2. reload \in [Worker -> [pc : {"idle", "asked", "read"}, val : Kept(env)]]
  BY DEF Types
<1>3. Reloads
  <2>1. CASE Ask(w)
    BY <2>1 DEF Ask
  <2>2. CASE Reload(w)
    <3>1. reload[w].pc # "idle"
      BY <2>2 DEF Reload, QueryEmpty, QueryFails, Query, Store
    <3> QED
      BY <3>1 DEF Follow, ReloadsOnly
  <2> QED
    BY <2>1, <2>2
<1>4. ReloadsOnly' /\ env.kind # "router"
  BY <1>1, <1>3 DEF ReloadsOnly, Reloads
<1>5. CacheCurrent'
  <2>1. CASE Store(w)
    BY <2>1, CurrentStore DEF Follow
  <2>2. CASE ~ Store(w)
    <3>1. UNCHANGED <<cache, marked>>
      BY <2>2 DEF Ask, Reload, QueryEmpty, QueryFails, Query
    <3> QED
      BY <1>1, <3>1, Unmarked DEF Follow
  <2> QED
    BY <2>1, <2>2
<1> QED
  BY <1>1, <1>4, <1>5, FollowStays, Zenon DEF Follow

LEMMA FollowDial ==
  ASSUME Types, Follow, NEW k \in Keys, Dial(k) \/ \E made \in BOOLEAN : DialEnd(k, made)
  PROVE  Follow'
<1>1. UNCHANGED <<env, log, watch, pos, hand, cache, reload, count, marked>>
  BY DEF Dial, DialEnd, watchVars
<1>2. CacheCurrent'
  BY <1>1, Unmarked DEF Follow
<1>3. CASE Dial(k)
  <2>1. env.kind = "server" /\ watch # "init" /\ UNCHANGED <<rpc, late>>
    BY <1>3 DEF Dial
  <2>2. ClientsHad'
    BY <1>1, <2>1, Zenon DEF Follow, ClientsHad
  <2> QED
    BY <1>1, <1>2, <2>2, FollowStays, Zenon DEF Follow
<1>4. ASSUME NEW made \in BOOLEAN, DialEnd(k, made)
      PROVE  Follow'
  <2>1. dial.key = k /\ dial' = NoDial
    BY <1>4 DEF DialEnd
  <2>2. dial # NoDial
    BY <2>1, Slots DEF NoDial
  <2>3. env.kind = "server" /\ watch # "init"
    BY <2>2, Zenon DEF Follow, ClientsHad
  <2>4. rpc \in [Keys -> 0 .. 2] /\ \A m \in Keys : m # k => rpc'[m] = rpc[m]
    BY <1>4 DEF DialEnd, Types
  <2>5. late \subseteq late'
    BY <1>4 DEF DialEnd
  <2>6. k \in late' \/ HadIn(log', pos', k, rpc'[k]) \/ rpc' = rpc
    BY <1>4, AddressedForm, Zenon DEF DialEnd
  <2>7. ClientsHad'
    BY <1>1, <2>1, <2>3, <2>4, <2>5, <2>6, Zenon DEF Follow, ClientsHad
  <2> QED
    BY <1>1, <1>2, <2>7, FollowStays, Zenon DEF Follow
<1> QED
  BY <1>3, <1>4, Zenon

LEMMA FollowNext ==
  ASSUME Types, Follow, [Next]_vars
  PROVE  Follow'
<1>1. CASE UNCHANGED vars
  <2>1. UNCHANGED <<env, log, watch, pos, hand, cache, reload, rpc, dial, late, count, marked>>
    BY <1>1 DEF vars
  <2>2. CacheCurrent'
    BY <2>1, Unmarked DEF Follow
  <2> QED
    BY <2>1, <2>2, FollowStays, Zenon DEF Follow
<1>2. CASE Writers
  BY <1>2, WriterTypes, FollowWrite, Zenon
<1>3. CASE Scan \/ StartWatch \/ Cancel \/ RecoveryEnds
  BY <1>3, FollowScan, FollowStart, FollowWatch
<1>4. CASE Handler \/ EventDropped
  BY <1>4, FollowStored, FollowRouter, FollowSpace, FollowPartition, FollowServer, FollowApply
     DEF Handler
<1> QED
  BY <1>1, <1>2, <1>3, <1>4, FollowRequest, FollowDial, Zenon DEF Next

LEMMA FollowAlways == Spec => []Follow
<1>1. Types /\ Follow /\ [Next]_vars => Follow'
  BY FollowNext
<1> QED
  BY <1>1, TypesAlways, FollowInit, PTL DEF Spec

-----------------------------------------------------------------------------

(* However many keys, names, requests and writes there are and whatever    *)
(* fails, what requests are served from the router's cache is what etcd    *)
(* held when the watch was last there, or later, outside the marked slots, *)
(* and the number of routers is that of the routers in the cache           *)
(* (clientCache, watcherJob).                                              *)
THEOREM CacheFollowsEtcd == Spec => []CacheFollows
<1>1. Types /\ Follow => CacheFollows
  <2> SUFFICES ASSUME Types, Follow PROVE CacheFollows
    OBVIOUS
  <2>1. RoutersCounted
    BY Zenon DEF Follow, Counted, Known, RoutersCounted
  <2>2. TypeOK
    <3>1. env \in Setting /\ env.writes \in 0 .. MaxLog /\ log \in Seq(Entry) /\ MaxLog \in Nat
      BY MasterCacheAssumption DEF Types, Setting, Hist
    <3>7. Now <= env.writes /\ pos \in 0 .. Now
      BY Zenon DEF Types, Now
    <3>8. Now \in Nat
      BY LogLength DEF Now
    <3>2. Now <= MaxLog /\ pos \in 0 .. Now
      BY <3>1, <3>7, <3>8
    <3>3. \A i \in 1 .. Now : log[i].key \in Keys \cup {"elsewhere"} /\ log[i].val \in Value
      BY <3>1, EntryAt DEF Now
    <3>4. Kept(env) \subseteq Value
      BY DEF Kept
    <3>5. /\ hand.val \in Value /\ cache \in [Slot -> Value]
          /\ \A w \in Worker : reload[w].pc \in {"idle", "asked", "read"} /\ reload[w].val \in Value
      BY <3>4 DEF Types
    <3>6. count \in Nat
      <4>1. IsFiniteSet(Known(cache))
        BY FS_Subset, MasterCacheAssumption DEF Known
      <4> QED
        BY <4>1, FS_CardinalityType, Zenon DEF Follow, Counted
    <3> QED
      BY <3>2, <3>3, <3>5, <3>6, ZenonT(30) DEF Types, TypeOK
  <2> QED
    BY <2>1, <2>2 DEF Follow, CacheFollows
<1> QED
  BY <1>1, TypesAlways, FollowAlways, PTL

(* However many servers there are and whatever fails, the address of an    *)
(* rpc client is one that its server had when the watch was last there, or *)
(* later, unless its event was passed over or the client was made of an    *)
(* entry that was out of date by then (GetOrCreateRPCClient).              *)
THEOREM ClientsFollowEtcd == Spec => []ClientCurrent
<1>1. Follow => ClientCurrent
  BY AddressedForm, Zenon DEF Follow, ClientsHad, ClientCurrent
<1> QED
  BY <1>1, FollowAlways, PTL

=============================================================================
