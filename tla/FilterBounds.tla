---------------------------- MODULE FilterBounds ----------------------------
(***************************************************************************)
(* The router folds the conditions a request puts on one numeric field     *)
(* into interval filters (router/document/doc_query.go): parseRangeForAnd  *)
(* narrows one interval, parseRangeForOr widens two half-lines and keeps   *)
(* the points between them. The code repeats both folds for INT, LONG,     *)
(* FLOAT, DOUBLE and DATE; here a numeric type is its ordered values       *)
(* 0 .. Top, 0 being the type's smallest value (math.MinInt32, ...) and    *)
(* Top its largest.                                                        *)
(***************************************************************************)
EXTENDS Integers

CONSTANT Top

ASSUME TopAssumption == Top \in Nat \ {0}

Num == 0 .. Top

RangeOps == {">=", ">", "=", "<=", "<", "<>"}

(* What a condition means. *)
Holds(op, x, v) ==
  CASE op = ">=" -> v >= x
    [] op = ">"  -> v > x
    [] op = "="  -> v = x
    [] op = "<=" -> v <= x
    [] op = "<"  -> v < x
    [] op = "<>" -> v # x

-----------------------------------------------------------------------------
(* AND: one interval, narrowed condition by condition.                     *)

Interval == [lo : Num, hi : Num, incLo : BOOLEAN, incHi : BOOLEAN]

Everything == [lo |-> 0, hi |-> Top, incLo |-> TRUE, incHi |-> TRUE]

Inside(b, v) ==
  /\ IF b.incLo THEN v >= b.lo ELSE v > b.lo
  /\ IF b.incHi THEN v <= b.hi ELSE v < b.hi

AtLeast(b, x) == IF x > b.lo  THEN [b EXCEPT !.lo = x, !.incLo = TRUE]  ELSE b
Above(b, x)   == IF x >= b.lo THEN [b EXCEPT !.lo = x, !.incLo = FALSE] ELSE b
AtMost(b, x)  == IF x < b.hi  THEN [b EXCEPT !.hi = x, !.incHi = TRUE]  ELSE b
Below(b, x)   == IF x <= b.hi THEN [b EXCEPT !.hi = x, !.incHi = FALSE] ELSE b

Narrow(b, op, x) ==
  CASE op = ">=" -> AtLeast(b, x)
    [] op = ">"  -> Above(b, x)
    [] op = "="  -> AtMost(AtLeast(b, x), x)
    [] op = "<=" -> AtMost(b, x)
    [] op = "<"  -> Below(b, x)
    [] op = "<>" -> b

-----------------------------------------------------------------------------
(* OR: [smallest, left] and [right, largest], widened condition by         *)
(* condition. Both start empty.                                            *)

HalfLines == [left : Num, incLeft : BOOLEAN, right : Num, incRight : BOOLEAN]

Nothing == [left |-> 0, incLeft |-> FALSE, right |-> Top, incRight |-> FALSE]

InLeft(h, v)  == v < h.left \/ (h.incLeft /\ v = h.left)
InRight(h, v) == v > h.right \/ (h.incRight /\ v = h.right)

Widen(h, op, x) ==
  CASE op = ">=" -> IF x <= h.right
                    THEN [h EXCEPT !.right = x, !.incRight = TRUE] ELSE h
    [] op = ">"  -> IF x < h.right
                    THEN [h EXCEPT !.right = x, !.incRight = FALSE] ELSE h
    [] op = "<=" -> IF x >= h.left
                    THEN [h EXCEPT !.left = x, !.incLeft = TRUE] ELSE h
    [] op = "<"  -> IF x > h.left
                    THEN [h EXCEPT !.left = x, !.incLeft = FALSE] ELSE h
    [] op \in {"=", "<>"} -> h

(* An equality is folded after the half-lines: it closes an end, or is a   *)
(* point of its own between them, or is covered already.                   *)
Close(h, x) ==
  CASE x < h.left \/ x > h.right -> h
    [] x = h.left                -> [h EXCEPT !.incLeft = TRUE]
    [] x = h.right /\ x # h.left -> [h EXCEPT !.incRight = TRUE]
    [] h.left < x /\ x < h.right -> h

Point(h, x) == h.left < x /\ x < h.right

(* The half-lines cover the whole type. *)
Meet(h) == h.left > h.right \/ (h.left = h.right /\ (h.incLeft \/ h.incRight))

HasLeft(h)  == 0 < h.left \/ h.incLeft
HasRight(h) == h.right < Top \/ h.incRight
=============================================================================
