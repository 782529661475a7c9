----------------------------- MODULE MCF1gQueue -----------------------------
(* Instances of F1gQueue for TLC.                                          *)
EXTENDS F1gQueue

CONSTANTS a, b

\* Two messages of which a torn reading is neither, and one that is a word
\* too long for the block (words = 2).
MCPayloads == {<<a, b>>, <<b>>, <<a, a, a>>}
=============================================================================
