----------------------------- MODULE QpackTable -----------------------------
(***************************************************************************)
(* The QPACK dynamic table and the wire form of what refers to it, as pure *)
(* operators (lib/nghttp3_qpack.c, struct nghttp3_qpack_context).  The     *)
(* encoder and the decoder each keep one table; both use these operators.  *)
(*                                                                         *)
(* A table is a record                                                     *)
(*   first, next : the live absolute indices are first .. next - 1         *)
(*                 (next is ctx->next_absidx; first is next_absidx minus   *)
(*                 the length of the ring buffer ctx->dtable)              *)
(*   sum         : bytes ever inserted (ctx->dtable_sum)                   *)
(*   ent         : the live entries; an entry remembers the value sum had  *)
(*                 just before it was inserted, as in the code             *)
(* ctx->dtable_size is not kept: it is what the sums say (Size).           *)
(*                                                                         *)
(* Here and in the other modules a definition whose name ends in _Bug is a *)
(* broken variant of the one after it, with the mistake its comment names: *)
(* the properties are tried on it to see that they notice.                 *)
(***************************************************************************)
EXTENDS Integers, FiniteSetsExt

CONSTANTS
  Names, Values,   \* header field names and values
  NameLen,         \* [Names -> Nat]: their lengths in bytes
  ValueLen         \* [Values -> Nat]

ASSUME LenAssumption ==
  /\ NameLen \in [Names -> Nat]
  /\ ValueLen \in [Values -> Nat]

ENTRY_OVERHEAD == 32

TableSpace(n, v) == ENTRY_OVERHEAD + NameLen[n] + ValueLen[v]

Entry == [name : Names, value : Values, sum : Nat]

EmptyTable == [first |-> 0, next |-> 0, sum |-> 0, ent |-> [a \in {} |-> 0]]

Live(t) == t.first .. t.next - 1

IsTable(t) ==
  /\ t.first \in Nat /\ t.next \in Nat /\ t.first <= t.next
  /\ t.sum \in Nat
  /\ t.ent \in [Live(t) -> Entry]
  /\ \A a \in Live(t) : t.ent[a].sum <= t.sum
  /\ t = [first |-> t.first, next |-> t.next, sum |-> t.sum, ent |-> t.ent]

\* Bytes held by the entries from absolute index d on.
SizeFrom(t, d) == IF d < t.next THEN t.sum - t.ent[d].sum ELSE 0
Size(t) == SizeFrom(t, t.first)

\* Drop the entries older than d.
DropTo(t, d) ==
  [first |-> d, next |-> t.next, sum |-> t.sum,
   ent   |-> [a \in d .. t.next - 1 |-> t.ent[a]]]

\* The loop that pops the oldest entry until need more bytes fit into max.
FitPoints(t, need, max) == {d \in t.first .. t.next : SizeFrom(t, d) + need <= max}

\* The room for the new entry is forgotten.
EvictToFit_Bug(t, need, max) == DropTo(t, Min(FitPoints(t, 0, max)))

EvictToFit(t, need, max) == DropTo(t, Min(FitPoints(t, need, max)))

\* nghttp3_qpack_context_dtable_add; its callers guarantee space <= max.
TableAdd(t, n, v, max) ==
  LET u == EvictToFit(t, TableSpace(n, v), max)
  IN  [first |-> u.first, next |-> u.next + 1,
       sum   |-> u.sum + TableSpace(n, v),
       ent   |-> [a \in u.first .. u.next |->
                    IF a = u.next THEN [name |-> n, value |-> v, sum |-> u.sum]
                    ELSE u.ent[a]]]

\* qpack_context_can_reference: is the entry within the capacity in force,
\* which a pending reduction may have moved inside the table?
CanReference(t, a, max) == t.sum - t.ent[a].sum <= max

\* qpack_context_check_draining: is it among the oldest eighth?
CheckDraining(t, a, max) == t.sum - t.ent[a].sum > max - Min({512, max \div 8})

-----------------------------------------------------------------------------
(***************************************************************************)
(* The field section prefix.  max_ents counts the smallest possible        *)
(* entries that fit the hard capacity limit of whoever converts.           *)
(***************************************************************************)
MaxEnts(hardMax) == hardMax \div ENTRY_OVERHEAD

\* nghttp3_qpack_encoder_write_field_section_prefix
EncodePrefix(ricnt, base, hardMax) ==
  [encricnt |-> IF ricnt = 0 THEN 0 ELSE (ricnt % (2 * MaxEnts(hardMax))) + 1,
   sign     |-> base < ricnt,
   delta    |-> IF base < ricnt THEN ricnt - base - 1 ELSE base - ricnt]

NoRicnt == -1   \* the function fails with NGHTTP3_ERR_QPACK_DECOMPRESSION_FAILED

\* nghttp3_qpack_decoder_reconstruct_ricnt, at a decoder that has received
\* icnt insertions.  With a hard limit below 32 bytes full is 0 and every
\* nonzero encoded count is refused before the division.
ReconstructRicnt(encricnt, icnt, hardMax) ==
  LET full    == 2 * MaxEnts(hardMax)
      max     == icnt + MaxEnts(hardMax)
      wrapped == (max \div full) * full + encricnt - 1
      ricnt   == IF wrapped > max THEN wrapped - full ELSE wrapped
  IN  IF encricnt = 0 THEN 0
      ELSE IF encricnt > full THEN NoRicnt
      ELSE IF wrapped > max /\ wrapped <= full THEN NoRicnt
      ELSE IF ricnt = 0 THEN NoRicnt
      ELSE ricnt

\* The base computed from the prefix (RS_STATE_DBASE); NoRicnt when the
\* sign asks for a base below zero.
DecodeBase(ricnt, prefix) ==
  IF ~ prefix.sign THEN ricnt + prefix.delta
  ELSE IF ricnt <= prefix.delta THEN NoRicnt
  ELSE ricnt - prefix.delta - 1
=============================================================================
