--------------------------- MODULE MCQpackDecoder ---------------------------
(***************************************************************************)
(* The decoder against a peer that sends any of a few instructions and     *)
(* section tokens, valid or not.  Entries take 40 bytes.                   *)
(***************************************************************************)
EXTENDS QpackDecoderProps, TLC

MCNameLen == [n \in Names |-> 4]
MCValueLen == [v \in Values |-> 4]

MCInstructions ==
  { [op |-> "SetCap", cap |-> 80], [op |-> "SetCap", cap |-> 160],
    [op |-> "InsertLiteral", name |-> "n", value |-> "v"],
    [op |-> "InsertDynamic", idx |-> 1, value |-> "w"],
    [op |-> "Duplicate", idx |-> 0] }

MCTokens ==
  [op : {"Ricnt"}, encricnt : {0, 2, 4}]
    \cup [op : {"Base"}, sign : {FALSE, TRUE}, delta : {0}, fin : BOOLEAN]
    \cup [op : {"Indexed"}, idx : {0}, fin : BOOLEAN]
    \cup [op : {"NamePB"}, idx : {0}, value : {"w"}, fin : {TRUE}]
    \cup [op : {"Literal"}, name : {"n"}, value : {"v"}, fin : {TRUE}]

Symmetry == Permutations(Streams)
=============================================================================
