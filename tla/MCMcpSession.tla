---- MODULE MCMcpSession ----
(***************************************************************************)
(* McpSession on small instances: one call and one discovery that compete   *)
(* for the target, or two calls (of which one never ends), at most two      *)
(* processes, one unread reply per process.                                 *)
(***************************************************************************)
EXTENDS McpSession

CONSTANTS c1, c2, l1

CallAndList == {c1, l1}
TwoCalls == {c1, c2}
OneLister == {l1}
NoLister == {}
====
