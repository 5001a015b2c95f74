--------------------------- MODULE MCQpackEncoder ---------------------------
(***************************************************************************)
(* Small instances of the encoder.  Every entry takes 40 bytes, so that a  *)
(* capacity of 80 is two entries and its eighth is less than one entry:    *)
(* the oldest entry of a full table is draining.                           *)
(***************************************************************************)
EXTENDS QpackEncoderProps, TLC

MCNameLen == [n \in Names |-> 4]
MCValueLen == [v \in Values |-> 4]

Field(n, v, m) == [name |-> n, value |-> v, mode |-> m]

\* One name with every value (exact matches, name matches, duplicates), a
\* static name with and without its static value, a field never to be indexed.
MixedFields == {Field("n", v, "STORE") : v \in Values} \cup
               {Field("s", "v", "STORE"), Field("s", "w", "STORE"),
                Field("n", "w", "NEVER")}
StaticPair == {<<"s", "w">>}

StreamSymmetry == Permutations(Streams)
=============================================================================
