------------------------------ MODULE Containers ------------------------------
(***************************************************************************)
(* The containers in use.  Each history of legal calls works on one of     *)
(* them, impl, next to what it stands for, abs: the set of its keys, or    *)
(* the sequence of its elements.                                           *)
(***************************************************************************)
EXTENDS Ksl, Tables

CONSTANTS
  Keys,        \* keys of the tree and of the hash table
  HeapKeys,    \* items of the heap
  Hashes,      \* hash functions on Keys
  MaxRing      \* bound: elements of the ring buffer

VARIABLES
  kind,        \* the container of this history
  impl,        \* the container
  abs          \* history: what it stands for
container_vars == <<kind, impl, abs>>

Point(n) == [b |-> n, e |-> n + 1]
Item(n) == [id |-> n, key |-> n \div 2]

ContainersInit ==
  /\ kind \in {"tree", "gaps", "heap", "ring", "map"}
  /\ abs = IF kind = "ring" THEN <<>> ELSE {}
  /\ \/ kind \in {"tree", "gaps"} /\ impl = NoTree
     \/ kind = "heap" /\ impl = EmptyHeap
     \/ kind = "ring" /\ impl = EmptyRing
     \/ kind = "map" /\ \E hash \in Hashes : impl = NewMap(hash)

Becomes(new, meaning) == impl' = new /\ abs' = meaning /\ UNCHANGED kind

\* a refused call changes what the container stands for only if it should
TreeOp ==
  /\ kind = "tree"
  /\ \E k \in Keys :
       \/ LET r == InsertKey(impl, Point(k))
          IN  Becomes(r.blk, IF r.ok THEN abs \cup {k} ELSE abs)
       \/ LET r == RemoveKey(impl, Point(k))
          IN  Becomes(r.blk, IF r.ok THEN abs \ {k} ELSE abs)

\* what was received: ranges of any length, and gaps that were given up
Cells(r) == {k \in Keys : r.b <= k /\ k < r.e}
GapsOp ==
  /\ kind = "gaps"
  /\ \/ \E k, n \in Keys : k + n <= Infinity - 1 /\ n > 0 /\
          Becomes(GapPush(impl, [b |-> k, e |-> k + n]), abs \cup Cells([b |-> k, e |-> k + n]))
     \/ Len(Flat(impl)) > 2 /\
          Becomes(DropFirstGap(impl), abs \cup Cells(Head(Flat(impl))))
     \/ \E k \in Keys :
          LET r == IdtrOpen(impl, 4 * k)
          IN  Becomes(r.blk, IF r.ok THEN abs \cup {k} ELSE abs)

HeapOp ==
  /\ kind = "heap"
  /\ \/ \E k \in HeapKeys \ abs : Becomes(PqPush(impl, Item(k)), abs \cup {k})
     \/ abs # {} /\ Becomes(PqPop(impl), abs \ {impl.q[0].id})
     \/ \E k \in abs : Becomes(PqRemove(impl, Item(k)), abs \ {k})

RingOp ==
  /\ kind = "ring"
  /\ \/ \E x \in {1, 2}, least \in {2, 4} :
          /\ Len(abs) < MaxRing
          /\ \/ Becomes(PushFront(WithRoom(impl, least), x), <<x>> \o abs)
             \/ Becomes(PushBack(WithRoom(impl, least), x), Append(abs, x))
     \/ abs # <<>> /\ (Becomes(PopFront(impl), Tail(abs)) \/ Becomes(PopBack(impl), Front(abs)))

MapOp ==
  /\ kind = "map"
  /\ \E k \in Keys \cap DOMAIN impl.hash :
       \/ LET r == MapInsert(impl, k) IN Becomes(r.map, IF r.ok THEN abs \cup {k} ELSE abs)
       \/ LET r == MapRemove(impl, k) IN Becomes(r.map, IF r.ok THEN abs \ {k} ELSE abs)

ContainersNext == TreeOp \/ GapsOp \/ HeapOp \/ RingOp \/ MapOp
-----------------------------------------------------------------------------

\* every separator bounds its subtree, every block but the root is filled
RECURSIVE Balanced(_, _)
Balanced(blk, isRoot) ==
  /\ Blocks(blk) <= MaxBlk
  /\ isRoot \/ Blocks(blk) >= MinBlk
  /\ ~blk.leaf => \A i \in DOMAIN blk.nodes :
       /\ Balanced(blk.nodes[i], FALSE)
       /\ blk.nodes[i].leaf = blk.nodes[1].leaf
       /\ \A k \in Range(Flat(blk.nodes[i])) :
            ~RangeLess(blk.keys[i], k) /\ (i > 1 => RangeLess(blk.keys[i - 1], k))

TreeAgrees ==
  /\ Balanced(impl, TRUE)
  /\ {Point(k) : k \in abs} = Range(Flat(impl))
  /\ \A k \in Keys :
       LET i == LowerBound(impl, Point(k), FALSE)
       IN  i = 1 + Cardinality({x \in abs : x < k}) /\ (k \in abs => Flat(impl)[i] = Point(k))

GapsAgree ==
  LET gaps == Flat(impl) IN
  /\ Balanced(impl, TRUE)
  /\ gaps # <<>> =>
       /\ Keys \ abs = {k \in Keys : \E i \in DOMAIN gaps : k \in Cells(gaps[i])}
       /\ \A i \in DOMAIN gaps : gaps[i].b < gaps[i].e /\ (i > 1 => gaps[i - 1].e < gaps[i].b)
       /\ \A k \in Keys : GapIsPushed(impl, Point(k)) <=> k \in abs
  /\ FirstGapOffset(impl) = Min((0..Infinity) \ abs)

HeapAgrees ==
  /\ {Item(k) : k \in abs} = Range(impl.q)
  /\ DOMAIN impl.q = 0..(Cardinality(abs) - 1)
  /\ \A i \in DOMAIN impl.q :
       /\ impl.index[impl.q[i].id] = i
       /\ \A j \in DOMAIN impl.q : ~ItemLess(impl.q[j], impl.q[0])

RingAgrees ==
  /\ impl.len = Len(abs)
  /\ \A i \in DOMAIN abs : RingGet(impl, i - 1) = abs[i]

MapAgrees ==
  /\ impl.size = Cardinality(abs)
  /\ \A k \in DOMAIN impl.hash : MapFind(impl, k) # -1 <=> k \in abs
  /\ \A i \in DOMAIN impl.slot : impl.slot[i].psl > 0 =>
       i = (MapIndex(impl, impl.slot[i].key) + impl.slot[i].psl - 1) % Slots(impl)

(* Whatever the history of insertions and removals, splits, merges, shifts *)
(* and resizes: a tree finds exactly its keys in order and stays balanced, *)
(* the gaps are what was not received, a heap's top is least and its items *)
(* know where they are, a ring keeps its order over the wrap, and a hash   *)
(* table finds exactly its keys.                                           *)
ContainersAgree ==
  CASE kind = "tree" -> TreeAgrees
    [] kind = "gaps" -> GapsAgree
    [] kind = "heap" -> HeapAgrees
    [] kind = "ring" -> RingAgrees
    [] kind = "map" -> MapAgrees
=============================================================================
