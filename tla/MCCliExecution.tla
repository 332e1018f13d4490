---- MODULE MCCliExecution ----
(***************************************************************************)
(* CliExecution on small instances: one call that shares the admission      *)
(* with upstream requests, one chunk of output allowed.                     *)
(***************************************************************************)
EXTENDS CliExecution

CONSTANTS c1

OneCall == {c1}
====
