---------------------------- MODULE MCServeLoop -----------------------------
(***************************************************************************)
(* ServeLoop on a small instance: requests of one byte, lines that end in   *)
(* CR LF, and one whose carriage return crosses the limit of two bytes.     *)
(***************************************************************************)
EXTENDS ServeLoop

CONSTANTS cr, lf, i, d, c, n

MCKind ==
  [b \in {<<i>>, <<d>>, <<c>>, <<n>>} |->
     CASE b = <<i>> -> "legacy" [] b = <<d>> -> "modern"
       [] b = <<c>> -> "call"   [] b = <<n>> -> "notification"]
MCBodies == {<<i>>, <<d>>, <<n>>, <<c>>, <<c, cr>>, <<c, c, cr>>}
=============================================================================
