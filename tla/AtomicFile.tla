----------------------------- MODULE AtomicFile -----------------------------
(***************************************************************************)
(* What the brokers expect of a cache file that several of them share: a    *)
(* store replaces the content at one moment or not at all, a load returns   *)
(* the content of one moment, or fails. A process may end at any time. A    *)
(* power loss may bring back an older content, as long as the directory is  *)
(* not yet settled on the disk, and never a mixture.                        *)
(***************************************************************************)
CONSTANTS Processes, Values, None

VARIABLES
  content,  \* what the file holds
  older,    \* contents that a power loss may bring back
  pending,  \* the value that a process is storing
  got       \* what a process loaded, until it stores
vars == <<content, older, pending, got>>

Contents == Values \cup {None}

Init ==
  /\ content \in Contents
  /\ older = {}
  /\ pending = [p \in Processes |-> None]
  /\ got = [p \in Processes |-> None]

Begin(p, v) ==
  /\ pending[p] = None
  /\ pending' = [pending EXCEPT ![p] = v]
  /\ got' = [got EXCEPT ![p] = None]
  /\ UNCHANGED <<content, older>>

Commit(p) ==
  /\ pending[p] # None
  /\ content' = pending[p]
  /\ older' \in {{content}, older \cup {content}}
  /\ pending' = [pending EXCEPT ![p] = None]
  /\ UNCHANGED got

Fail(p) ==
  /\ pending[p] # None
  /\ pending' = [pending EXCEPT ![p] = None]
  /\ UNCHANGED <<content, older, got>>

Load(p) ==
  /\ got' = [got EXCEPT ![p] = content]
  /\ UNCHANGED <<content, older, pending>>

\* A load that fails returns nothing, as if there were no content.
LoadFails(p) ==
  /\ got' = [got EXCEPT ![p] = None]
  /\ UNCHANGED <<content, older, pending>>

End(p) ==
  /\ pending' = [pending EXCEPT ![p] = None]
  /\ got' = [got EXCEPT ![p] = None]
  /\ UNCHANGED <<content, older>>

Settle ==
  /\ older' = {}
  /\ UNCHANGED <<content, pending, got>>

PowerLoss ==
  /\ content' \in older \cup {content}
  /\ older' = {}
  /\ pending' = [p \in Processes |-> None]
  /\ got' = [p \in Processes |-> None]

Next ==
  \/ \E p \in Processes, v \in Values : Begin(p, v)
  \/ \E p \in Processes : Commit(p) \/ Fail(p) \/ Load(p) \/ LoadFails(p) \/ End(p)
  \/ Settle \/ PowerLoss

Spec == Init /\ [][Next]_vars
=============================================================================
