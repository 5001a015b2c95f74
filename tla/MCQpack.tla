------------------------------- MODULE MCQpack ------------------------------
(***************************************************************************)
(* Small instances of the joined encoder and decoder.  Entries take 40     *)
(* bytes: a capacity of 80 is two entries, the third insertion evicts, and *)
(* the encoded Required Insert Count wraps at four.                        *)
(***************************************************************************)
EXTENDS QpackProps

MCNameLen == [n \in Names |-> 4]
MCValueLen == [v \in Values |-> 4]

Field(n, v, m) == [name |-> n, value |-> v, mode |-> m]
\* One name with every value: exact matches, name matches, duplicates.
OneNameFields == {Field("n", v, "STORE") : v \in Values}
\* The same with a static field and one never to be indexed.
MixedFields == OneNameFields \cup {Field("s", "w", "STORE"), Field("n", "w", "NEVER")}
StaticPair == {<<"s", "w">>}

ValueSymmetry == Permutations(Values)
=============================================================================
