---------------------------- MODULE MCV2Catalog -----------------------------
(***************************************************************************)
(* V2Catalog on a small instance: one broker, a restricted tool and a proxy, *)
(* a list and a call, three definitions of which two fit each other.        *)
(***************************************************************************)
EXTENDS V2Catalog

CONSTANTS b1, r, p, list, call, d1, d2, d3

MCBrokers == {b1}
MCRestricted == {r}
MCProxies == {p}
MCLists == {list}
MCCalls == {call}
MCDefinitions == {d1, d2, d3}
MCDerivable == {d1, d2}
MCCompatible == {<<d1, d1>>, <<d2, d2>>, <<d1, d2>>}
=============================================================================
