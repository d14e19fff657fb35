---------------------------- MODULE SortableKeys ----------------------------
(***************************************************************************)
(* Scalar values as RocksDB keys, which are read in the order of their     *)
(* bytes (scalar_index_utils.cc). A number is its bit pattern 0 .. 2H - 1, *)
(* H = 2^31 or 2^63 being the sign bit; big-endian bytes keep the order of *)
(* the pattern.                                                            *)
(***************************************************************************)
EXTENDS Integers, Sequences

Bits(H) == 0 .. 2 * H - 1

(* What a pattern stands for: two's complement, and the order of IEEE 754  *)
(* numbers (both zeros are 0).                                             *)
Signed(H, u) == IF u < H THEN u ELSE u - 2 * H
FloatRank(H, u) == IF u < H THEN u ELSE H - u

(* Int32ToSortableStr, Int64ToSortableStr flip the sign bit. *)
IntToSortable(H, u) == IF u < H THEN u + H ELSE u - H

(* FloatingToSortableStr inverts the bits of a negative number. *)
FloatingToSortable(H, u) == IF u >= H THEN 2 * H - 1 - u ELSE u + H

-----------------------------------------------------------------------------
(* A key is a sequence of bytes 0 .. FF.                                   *)

BytesLess(k, l) ==
  \/ \E i \in 1 .. Len(k) : /\ i <= Len(l) /\ k[i] < l[i]
                            /\ \A j \in 1 .. i - 1 : k[j] = l[j]
  \/ Len(k) < Len(l) /\ \A j \in 1 .. Len(k) : k[j] = l[j]

StartsWith(p, k) == Len(p) <= Len(k) /\ \A j \in 1 .. Len(p) : k[j] = p[j]

(* AdvancePrefix: the last byte below FF incremented, the rest cut off;    *)
(* empty when there is none.                                               *)
AdvancePrefix(FF, p) ==
  LET low == {i \in 1 .. Len(p) : p[i] < FF}
      i == CHOOSE m \in low : \A j \in low : j <= m
  IN IF low = {} THEN <<>> ELSE Append(SubSeq(p, 1, i - 1), p[i] + 1)

(* What DropAll deletes: DeleteRange from the prefix of the index up to    *)
(* AdvancePrefix of it.                                                    *)
Dropped(FF, p, k) == ~BytesLess(k, p) /\ BytesLess(k, AdvancePrefix(FF, p))

(* An index's prefix ends with "_", so a byte below FF. *)
ExactDrop(FF, Prefixes, Stored) ==
  \A p \in Prefixes, k \in Stored :
    p[Len(p)] < FF => (Dropped(FF, p, k) <=> StartsWith(p, k))

=============================================================================
