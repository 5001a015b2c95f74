--------------------------------- MODULE Ksl ---------------------------------
(***************************************************************************)
(* The sorted container of lib/nghttp3_ksl.c, a B+-tree whose blocks are   *)
(* split and filled up on the way down and whose separators are only upper *)
(* bounds, and what lib/nghttp3_gaptr.c and nghttp3_idtr.c build on it.    *)
(*                                                                         *)
(* A block is [leaf, keys, nodes]; a key is a range [b, e) of numbers.     *)
(* The links between the leaves are the order of the leaves, and an        *)
(* iterator is a position in their keys.                                   *)
(***************************************************************************)
EXTENDS Integers, SequencesExt

CONSTANT Degr     \* NGHTTP3_KSL_DEGR

ASSUME KslAssumption == Degr \in Nat \ {0}

MinBlk == Degr
MaxBlk == 2 * Degr

Leaf(keys) == [leaf |-> TRUE, keys |-> keys, nodes |-> <<>>]
Biggest(blk) == Last(blk.keys)
Inner(nodes) == [leaf |-> FALSE, nodes |-> nodes, keys |-> [i \in DOMAIN nodes |-> Biggest(nodes[i])]]
NoTree == Leaf(<<>>)
Blocks(blk) == Len(blk.keys)

RECURSIVE Flat(_)
Flat(blk) ==
  IF blk.leaf THEN blk.keys
  ELSE FlattenSeq([i \in DOMAIN blk.nodes |-> Flat(blk.nodes[i])])

RangeLess(a, k) == a.b < k.b
Meets(a, k) == Max({a.b, k.b}) < Min({a.e, k.e})
RangeExclusive(a, k) == a.b < k.b /\ ~Meets(a, k)

\* the first node that is not less than key, Blocks + 1 if there is none
Search(blk, key) ==
  Min({i \in 1..Blocks(blk) : ~RangeLess(blk.keys[i], key)} \cup {Blocks(blk) + 1})
SearchExclusive(blk, key) ==
  Min({i \in 1..Blocks(blk) : ~RangeExclusive(blk.keys[i], key)} \cup {Blocks(blk) + 1})

-----------------------------------------------------------------------------
(* Insertion.                                                              *)

\* nodes i..j of a block
Slice(blk, i, j) ==
  [blk EXCEPT !.keys = SubSeq(@, i, j), !.nodes = IF blk.leaf THEN @ ELSE SubSeq(@, i, j)]
LeftHalf(blk) == Slice(blk, 1, Blocks(blk) - Blocks(blk) \div 2)
RightHalf(blk) == Slice(blk, Blocks(blk) - Blocks(blk) \div 2 + 1, Blocks(blk))

SplitNode(blk, i) ==
  LET l == LeftHalf(blk.nodes[i]) IN
  [blk EXCEPT !.keys = InsertAt(@, i, Biggest(l)),
              !.nodes = InsertAt([@ EXCEPT ![i] = l], i + 1, RightHalf(blk.nodes[i]))]
SplitRoot(blk) == Inner(<<LeftHalf(blk), RightHalf(blk)>>)
Full(blk) == Blocks(blk) = MaxBlk
RoomAt(blk, i) == IF Full(blk.nodes[i]) THEN SplitNode(blk, i) ELSE blk

\* key is bigger than every separator of this block
RECURSIVE InsertLast(_, _)
InsertLast(blk, key) ==
  LET b == RoomAt(blk, Blocks(blk))
      n == Blocks(b)
  IN  IF blk.leaf THEN Leaf(Append(blk.keys, key))
      ELSE [b EXCEPT !.keys[n] = key, !.nodes[n] = InsertLast(@, key)]

\* [ok, blk]: a key that is there stays, but blocks were split
RECURSIVE InsertBelow(_, _)
InsertBelow(blk, key) ==
  LET i == Search(blk, key)
      b == RoomAt(blk, i)
      j == IF RangeLess(b.keys[i], key) THEN i + 1 ELSE i
      below == InsertBelow(b.nodes[j], key)
  IN  IF blk.leaf
      THEN IF i <= Blocks(blk) /\ ~RangeLess(key, blk.keys[i]) THEN [ok |-> FALSE, blk |-> blk]
           ELSE [ok |-> TRUE, blk |-> Leaf(InsertAt(blk.keys, i, key))]
      ELSE IF i > Blocks(blk) THEN [ok |-> TRUE, blk |-> InsertLast(blk, key)]
      ELSE [ok |-> below.ok, blk |-> [b EXCEPT !.nodes[j] = below.blk]]

InsertKey(root, key) == InsertBelow(IF Full(root) THEN SplitRoot(root) ELSE root, key)

-----------------------------------------------------------------------------
(* Removal.                                                                *)

\* nodes i and i + 1 share their nodes again, the left one taking k
Share(blk, i, k) ==
  LET l == blk.nodes[i]
      r == blk.nodes[i + 1]
      all == [l EXCEPT !.keys = @ \o r.keys, !.nodes = @ \o r.nodes]
      left == Slice(all, 1, k)
  IN  [blk EXCEPT !.keys[i] = Biggest(left),
                  !.nodes[i] = left, !.nodes[i + 1] = Slice(all, k + 1, Blocks(all))]
Sum2(blk, i) == Blocks(blk.nodes[i]) + Blocks(blk.nodes[i + 1])
ShiftLeft(blk, i) == Share(blk, i, (Sum2(blk, i) + 1) \div 2)
ShiftRight(blk, i) == Share(blk, i, Sum2(blk, i) - (Sum2(blk, i) + 1) \div 2)

\* without the separator of the merged block
Merge_Bug(blk, i) ==
  LET l == blk.nodes[i]
      r == blk.nodes[i + 1]
      all == [l EXCEPT !.keys = @ \o r.keys, !.nodes = @ \o r.nodes]
  IN  [blk EXCEPT !.keys = RemoveAt(@, i + 1), !.nodes = RemoveAt([@ EXCEPT ![i] = all], i + 1)]
Merge(blk, i) ==
  LET l == blk.nodes[i]
      r == blk.nodes[i + 1]
      all == [l EXCEPT !.keys = @ \o r.keys, !.nodes = @ \o r.nodes]
  IN  [blk EXCEPT !.keys = RemoveAt([@ EXCEPT ![i] = Biggest(all)], i + 1),
                  !.nodes = RemoveAt([@ EXCEPT ![i] = all], i + 1)]

\* the block and the index where the search goes on, when node i is minimal
Refill(blk, i) ==
  LET spare(j) == j \in 1..Blocks(blk) /\ Blocks(blk.nodes[j]) > MinBlk
  IN  IF spare(i) THEN <<blk, i>>
      ELSE IF spare(i + 1) THEN <<ShiftLeft(blk, i), i>>
      ELSE IF spare(i - 1) THEN <<ShiftRight(blk, i - 1), i>>
      ELSE IF i + 1 <= Blocks(blk) THEN <<Merge(blk, i), i>>
      ELSE <<Merge(blk, i - 1), i - 1>>

\* a root whose only two nodes are merged goes away
RECURSIVE RemoveBelow(_, _, _)
RemoveBelow(blk, key, isRoot) ==
  LET i == Search(blk, key)
      rest == Refill(blk, i)
      b == rest[1]
      below == RemoveBelow(b.nodes[rest[2]], key, FALSE)
  IN  IF i > Blocks(blk) THEN [ok |-> FALSE, blk |-> blk]
      ELSE IF blk.leaf
      THEN IF RangeLess(key, blk.keys[i]) THEN [ok |-> FALSE, blk |-> blk]
           ELSE [ok |-> TRUE, blk |-> Leaf(RemoveAt(blk.keys, i))]
      ELSE IF isRoot /\ Blocks(b) = 1 THEN RemoveBelow(b.nodes[1], key, TRUE)
      ELSE [ok |-> below.ok, blk |-> [b EXCEPT !.nodes[rest[2]] = below.blk]]

RemoveKey(root, key) ==
  IF ~root.leaf /\ Blocks(root) = 2 /\ \A i \in 1..2 : Blocks(root.nodes[i]) = MinBlk
  THEN RemoveBelow(Merge(root, 1).nodes[1], key, TRUE)
  ELSE RemoveBelow(root, key, TRUE)

\* nghttp3_ksl_remove_hint: in place, unless the leaf is minimal
RECURSIVE InPlace(_, _, _)
InPlace(blk, key, isRoot) ==
  LET i == CHOOSE j \in DOMAIN blk.nodes : key \in Range(Flat(blk.nodes[j]))
      below == InPlace(blk.nodes[i], key, FALSE)
  IN  IF blk.leaf
      THEN [ok |-> isRoot \/ Blocks(blk) # MinBlk,
            blk |-> Leaf(RemoveAt(blk.keys, CHOOSE j \in DOMAIN blk.keys : blk.keys[j] = key))]
      ELSE [ok |-> below.ok, blk |-> [blk EXCEPT !.nodes[i] = below.blk]]
RemoveHint(root, key) ==
  LET r == InPlace(root, key, TRUE) IN IF r.ok THEN r ELSE RemoveKey(root, key)

-----------------------------------------------------------------------------
(* nghttp3_ksl_lower_bound_search, a position in Flat; update_key.         *)

RECURSIVE LowerBound(_, _, _)
LowerBound(blk, key, exclusive) ==
  LET i == IF exclusive THEN SearchExclusive(blk, key) ELSE Search(blk, key)
      before == FoldLeft(LAMBDA n, b : n + Len(Flat(b)), 0, SubSeq(blk.nodes, 1, i - 1))
  IN  IF blk.leaf THEN i
      ELSE IF i > Blocks(blk) THEN Len(Flat(blk)) + 1
      ELSE before + LowerBound(blk.nodes[i], key, exclusive)

RECURSIVE UpdateKey(_, _, _)
UpdateKey(blk, old, new) ==
  LET i == Search(blk, old)
      key == blk.keys[i]
  IN  IF blk.leaf THEN [blk EXCEPT !.keys[i] = new]
      ELSE [blk EXCEPT !.keys[i] = IF key.b = old.b \/ RangeLess(key, new) THEN new ELSE key,
                       !.nodes[i] = UpdateKey(@, old, new)]

-----------------------------------------------------------------------------
(* lib/nghttp3_gaptr.c: the ranges that were not seen, up to Infinity.     *)

CONSTANT Infinity     \* UINT64_MAX

GapInit(root) == IF Flat(root) = <<>> THEN Leaf(<<[b |-> 0, e |-> Infinity]>>) ELSE root

RECURSIVE PushFrom(_, _, _)
PushFrom(root, q, pos) ==
  LET k == Flat(root)[pos]
      l == [b |-> k.b, e |-> Max({k.b, q.b})]
      r == [b |-> Min({k.e, q.e}), e |-> k.e]
      cut == UpdateKey(root, k, IF l.b < l.e THEN l ELSE r)
  IN  IF pos > Len(Flat(root)) \/ ~Meets(q, k) THEN root
      ELSE IF q.b <= k.b /\ k.e <= q.e THEN PushFrom(RemoveHint(root, k).blk, q, pos)
      ELSE IF l.b < l.e /\ r.b < r.e THEN PushFrom(InsertKey(cut, r).blk, q, pos + 2)
      ELSE PushFrom(cut, q, pos + 1)

GapPush(root, q) ==
  LET g == GapInit(root) IN PushFrom(g, q, LowerBound(g, q, TRUE))
GapIsPushed(root, q) ==
  /\ Flat(root) # <<>>
  /\ ~Meets(q, Flat(root)[LowerBound(root, q, TRUE)])
FirstGapOffset(root) == IF Flat(root) = <<>> THEN 0 ELSE Head(Flat(root)).b
DropFirstGap(root) == IF Flat(root) = <<>> THEN root ELSE RemoveHint(root, Head(Flat(root))).blk

\* lib/nghttp3_idtr.c, id a stream identifier
IdtrIsOpen(root, id) == GapIsPushed(root, [b |-> id \div 4, e |-> id \div 4 + 1])
IdtrOpen(root, id) ==
  LET q == [b |-> id \div 4, e |-> id \div 4 + 1]
  IN  IF GapIsPushed(root, q) THEN [ok |-> FALSE, blk |-> root]
      ELSE [ok |-> TRUE, blk |-> GapPush(root, q)]
=============================================================================
