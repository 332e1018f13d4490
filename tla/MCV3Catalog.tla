---- MODULE MCV3Catalog ----
(***************************************************************************)
(* V3Catalog on small instances: a list and two calls that meet on one of   *)
(* two targets, whose definition changes while the other's stays; and two   *)
(* calls that meet on a busy target.                                        *)
(***************************************************************************)
EXTENDS V3Catalog

CONSTANTS l1, c1, c2

OneList == {l1}
NoList == {}
TwoCalls == {c1, c2}
OneTarget == {1}
TwoTargets == {1, 2}
OnFirst == [c \in TwoCalls |-> 1]

\* In version 2 the tool is gone: discovered it is blocked, as an incompatible one
\* is, and in the cache it is unknown. Only target 1 gets to it, and only target 1
\* is in the cache and reconnects.
Compatible1 == <<"compatible">>
Missing2 == <<"compatible", "missing">>
One == <<1>>
TwoThenOne == <<2, 1>>
NothingStored == <<{}>>
FirstStored == <<{1, 2}, {}>>
====
