-------------------------------- MODULE Tables --------------------------------
(***************************************************************************)
(* The other containers: the heap of lib/nghttp3_pq.c, the ring buffer of  *)
(* lib/nghttp3_ringbuf.c and the hash table of lib/nghttp3_map.c.          *)
(***************************************************************************)
EXTENDS Integers, SequencesExt

-----------------------------------------------------------------------------
(* A heap: q holds items, an item [id, key] knows its index in q.  As in C *)
(* q and index start from 0.                                               *)

EmptyHeap == [q |-> <<>>, index |-> <<>>]    \* index[id]
Length(heap) == Cardinality(DOMAIN heap.q)
ItemLess(a, b) == a.key < b.key

Place(heap, i, item) ==
  [q |-> (i :> item) @@ heap.q, index |-> (item.id :> i) @@ heap.index]
Swap(heap, i, j) == Place(Place(heap, i, heap.q[j]), j, heap.q[i])
\* without the last place; an item that is out has no index
Shorter(heap) ==
  LET q == [i \in 0..(Length(heap) - 2) |-> heap.q[i]]
  IN  [q |-> q, index |-> Restrict(heap.index, {q[i].id : i \in DOMAIN q})]

RECURSIVE BubbleUp(_, _)
BubbleUp(heap, i) ==
  LET parent == (i - 1) \div 2
  IN  IF i = 0 \/ ~ItemLess(heap.q[i], heap.q[parent]) THEN heap
      ELSE BubbleUp(Swap(heap, parent, i), parent)

RECURSIVE BubbleDown(_, _)
BubbleDown(heap, i) ==
  LET below == {2 * i + 1, 2 * i + 2} \cap DOMAIN heap.q
      least == {j \in below \cup {i} : \A k \in below \cup {i} : ~ItemLess(heap.q[k], heap.q[j])}
      j == Min(least)
  IN  IF i \in least THEN heap ELSE BubbleDown(Swap(heap, i, j), j)

PqPush(heap, item) == BubbleUp(Place(heap, Length(heap), item), Length(heap))
PqPop(heap) ==
  LET moved == Shorter(Place(heap, 0, heap.q[Length(heap) - 1]))
  IN  IF Length(heap) = 1 THEN Shorter(heap) ELSE BubbleDown(moved, 0)
PqRemove(heap, item) ==
  LET i == heap.index[item.id]
      last == heap.q[Length(heap) - 1]
      moved == Shorter(Place(heap, i, last))
  IN  IF i = 0 THEN PqPop(heap)
      ELSE IF i = Length(heap) - 1 THEN Shorter(heap)
      ELSE IF ItemLess(item, last) THEN BubbleDown(moved, i) ELSE BubbleUp(moved, i)

-----------------------------------------------------------------------------
(* A ring buffer: nmemb is 0 or a power of 2, buf starts from 0.           *)

EmptyRing == [nmemb |-> 0, first |-> 0, len |-> 0, buf |-> <<>>]

RingGet(rb, offset) == rb.buf[(rb.first + offset) % rb.nmemb]
RingFull(rb) == rb.len = rb.nmemb
\* what lies outside first, first + 1, .. is not initialised: 0
Reserve(rb, nmemb) ==
  IF rb.nmemb >= nmemb THEN rb
  ELSE [nmemb |-> nmemb, first |-> 0, len |-> rb.len,
        buf |-> [i \in 0..(nmemb - 1) |-> IF i < rb.len THEN RingGet(rb, i) ELSE 0]]
\* as the callers do: room for twice as many
WithRoom(rb, least) == IF RingFull(rb) THEN Reserve(rb, Max({least, 2 * rb.len})) ELSE rb

PushFront(rb, x) ==
  LET first == (rb.first + rb.nmemb - 1) % rb.nmemb
  IN  [rb EXCEPT !.first = first, !.len = Min({rb.nmemb, @ + 1}), !.buf[first] = x]
PushBack(rb, x) ==
  LET at == (rb.first + rb.len) % rb.nmemb
  IN  IF RingFull(rb) THEN [rb EXCEPT !.first = (@ + 1) % rb.nmemb, !.buf[at] = x]
      ELSE [rb EXCEPT !.len = @ + 1, !.buf[at] = x]
PopFront(rb) == [rb EXCEPT !.first = (@ + 1) % rb.nmemb, !.len = @ - 1]
PopBack(rb) == [rb EXCEPT !.len = @ - 1]

-----------------------------------------------------------------------------
(* A hash table: bits is 0 until the first insertion; slot[i] is [key,     *)
(* psl], psl 0 for a free slot, otherwise 1 more than the distance from    *)
(* where the hash puts the key.                                            *)

CONSTANTS
  InitialBits,   \* NGHTTP3_INITIAL_HASHBITS
  HashBits,      \* bits of a hash, of which a table uses the high ones
  MaxPsl         \* NGHTTP3_MAX_PSL_RESIZE_THRESH

ASSUME TablesAssumption == InitialBits \in 1..HashBits /\ MaxPsl \in Nat

Free == [key |-> 0, psl |-> 0]
NewMap(hash) == [bits |-> 0, size |-> 0, slot |-> <<>>, hash |-> hash]
Slots(map) == 2 ^ map.bits
MapIndex(map, key) == map.hash[key] \div 2 ^ (HashBits - map.bits)
NextSlot(map, i) == (i + 1) % Slots(map)

\* map_insert: [ok, map, psl], the last psl of the displaced entry, as
\* the richer entry gives its slot to the poorer one
RECURSIVE InsertAtSlot(_, _, _)
InsertAtSlot(map, i, new) ==
  LET old == map.slot[i]
      poorer == new.psl > old.psl
      next == IF poorer THEN old ELSE new
  IN  IF old.psl = 0
      THEN [ok |-> TRUE, psl |-> new.psl,
            map |-> [map EXCEPT !.slot[i] = new, !.size = @ + 1]]
      ELSE IF ~poorer /\ old.key = new.key THEN [ok |-> FALSE, psl |-> 0, map |-> map]
      ELSE InsertAtSlot(IF poorer THEN [map EXCEPT !.slot[i] = new] ELSE map,
                        NextSlot(map, i), [next EXCEPT !.psl = @ + 1])
InsertEntry(map, key) == InsertAtSlot(map, MapIndex(map, key), [key |-> key, psl |-> 1])

Resize(map, bits) ==
  LET empty == [map EXCEPT !.bits = bits, !.size = 0, !.slot = [i \in 0..(2 ^ bits - 1) |-> Free]]
      \* the entries in the order of the old table
      Put(i, m) == IF map.slot[i].psl = 0 THEN m ELSE InsertEntry(m, map.slot[i].key).map
      from[i \in 0..Slots(map)] == IF i = 0 THEN empty ELSE Put(i - 1, from[i - 1])
  IN  IF map.size = 0 THEN empty ELSE from[Slots(map)]

MapInsert(map, key) ==
  LET loaded == map.size + 1 >= Slots(map) - Slots(map) \div 8
      roomy == Resize(map, IF map.bits = 0 THEN InitialBits ELSE map.bits + 1)
      r == InsertEntry(IF loaded THEN roomy ELSE map, key)
  IN  IF loaded \/ ~r.ok \/ r.psl - 1 < MaxPsl THEN [ok |-> r.ok, map |-> r.map]
      ELSE [ok |-> TRUE, map |-> Resize(r.map, map.bits + 1)]

\* the slot of key, or -1
MapFind(map, key) ==
  LET at(d) == (MapIndex(map, key) + d) % Slots(map)
      seen == {d \in 0..(Slots(map) - 1) :
                 /\ \A e \in 0..d : e < map.slot[at(e)].psl
                 /\ map.slot[at(d)].key = key}
  IN  IF map.size = 0 \/ seen = {} THEN -1 ELSE at(Min(seen))

\* the entries behind it move one slot back until one is where it belongs
RECURSIVE CloseHole(_, _)
CloseHole(map, i) ==
  LET next == map.slot[NextSlot(map, i)]
  IN  IF next.psl <= 1 THEN [map EXCEPT !.slot[i] = Free]
      ELSE CloseHole([map EXCEPT !.slot[i] = [next EXCEPT !.psl = @ - 1]], NextSlot(map, i))
MapRemove(map, key) ==
  LET i == MapFind(map, key)
  IN  IF i = -1 THEN [ok |-> FALSE, map |-> map]
      ELSE [ok |-> TRUE, map |-> CloseHole([map EXCEPT !.size = @ - 1], i)]
=============================================================================
