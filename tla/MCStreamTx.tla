----------------------------- MODULE MCStreamTx -----------------------------
(***************************************************************************)
(* Chunks of 4 bytes, of which frame headers take 1 and small field        *)
(* sections 1 more; sections of 3 bytes are not copied.                    *)
(***************************************************************************)
EXTENDS StreamTxProps

MCBodies == {<<>>, <<2, 1>>}
MCOneByte == {<<>>, <<1>>}
=============================================================================
