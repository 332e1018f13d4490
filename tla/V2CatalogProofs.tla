-------------------------- MODULE V2CatalogProofs --------------------------
(***************************************************************************)
(* What V2Catalog guarantees for any tools, requests, definitions, changes  *)
(* and crashes. The inductive invariant is, for each broker,                *)
(*   TypeOK     and the type of what is staged; the upstream's definitions   *)
(*              are among those it had                                      *)
(*   Off        what a broker that does not run has                         *)
(*   Agrees     of the catalog, and of what is staged: snapshots, offers    *)
(*              and reasons fit each other                                  *)
(*   Extends    a staged snapshot keeps the public schemas that there are   *)
(*   Informs    an offer the client has not seen is one it is told of       *)
(* and, where one broker runs with a cache (two of them freeze different    *)
(* schemas, and the second store replaces the first),                       *)
(*   Durable    the file has the public schemas of the catalog, and of what *)
(*              is adopted; it may have others, which were not loaded       *)
(***************************************************************************)
EXTENDS V2Catalog, TLAPS

Staging == [cached : Snapshot, active : Offer, changed : SUBSET Tools]
Typed ==
  /\ TypeOK /\ staged \in [Brokers -> Staging]
  /\ \A t \in Tools : upstream[t] \in past[t]

Off(b) ==
  b \notin up =>
    /\ staged[b] = NothingStaged /\ owes[b] = {}
    /\ changed[b] = {} /\ view[b] = None
    /\ \A q \in Requests : pc[b][q] = "idle"

\* What is offered is the public schema of its snapshot; a snapshot without an offer has
\* a reason, and never one that every definition of its tool fits.
Stays(t, public) == \A d \in past[t] : d # None /\ <<public, d>> \in Compatible
Agree(snapshot, offer, reasons) ==
  /\ \A t \in Tools :
       /\ offer[t] # None => snapshot[t] # None /\ snapshot[t].public = offer[t]
       /\ (offer[t] = None /\ snapshot[t] # None) <=> t \in reasons
  /\ \A t \in Restricted :
       snapshot[t] # None /\ Stays(t, snapshot[t].public) => offer[t] # None
Agrees(b) ==
  /\ Agree(cached[b], active[b], changed[b])
  /\ Agree(staged[b].cached, staged[b].active, staged[b].changed)

\* A restricted tool that has a public schema keeps it, and no other has a reason.
Keeps(old, new) ==
  \A t \in Restricted : old[t] # None => new[t] # None /\ new[t].public = old[t].public
Extends(b) ==
  /\ \A t \in staged[b].changed : cached[b][t] # None
  /\ \A q \in Requests : pc[b][q] \in {"rename", "adopt"} => Keeps(cached[b], staged[b].cached)

\* A request that owes a notification is on its way to it. If none does, the client knows
\* the offer or was told to ask again; it knows one because there was a discovery.
Informs(b) ==
  /\ \A q \in owes[b] : pc[b][q] \in {"respond", "notify"}
  /\ view[b] # None /\ ~stale[b] =>
       /\ loaded[b] \/ unavailable[b]
       /\ owes[b] = {} => view[b] = active[b] \/ notice[b]

Local(b) == Off(b) /\ Agrees(b) /\ Extends(b) /\ Informs(b)

OneBroker == \A a, b \in Brokers : a = b
Durable(b) ==
  b \in up =>
    /\ Keeps(cached[b], disk)
    /\ \A q \in Requests : pc[b][q] = "adopt" => Keeps(staged[b].cached, disk)

IInv ==
  /\ Typed
  /\ \A b \in Brokers : Local(b)
  /\ OneBroker => \A b \in Brokers : Durable(b)

-----------------------------------------------------------------------------
(* Where requests are. *)

Points == {"idle", "lock", "discover", "rename", "adopt", "respond", "notify", "resolve", "execute",
           "done"}
Holding == {"discover", "rename", "adopt"}
Replies == {"none", "listed", "executed", "TARGET_UNAVAILABLE", "TOOL_DEFINITION_CHANGED"}

\* One value of one broker changes, and no other.
LEMMA OneOf ==
  ASSUME NEW S, NEW f \in [Brokers -> [Requests -> S]], NEW b \in Brokers, NEW q \in Requests,
         NEW v \in S
  PROVE  /\ [f EXCEPT ![b][q] = v] \in [Brokers -> [Requests -> S]]
         /\ [f EXCEPT ![b][q] = v][b][q] = v
         /\ \A r \in Requests \ {q} : [f EXCEPT ![b][q] = v][b][r] = f[b][r]
         /\ \A a \in Brokers \ {b} : [f EXCEPT ![b][q] = v][a] = f[a]
<1>1. f[b] \in [Requests -> S]  OBVIOUS
<1>2. [f EXCEPT ![b][q] = v] = [f EXCEPT ![b] = [f[b] EXCEPT ![q] = v]]  OBVIOUS
<1>3. [f[b] EXCEPT ![q] = v] \in [Requests -> S]  BY <1>1
<1>. QED  BY <1>1, <1>2, <1>3

\* A request moves; the others stay.
LEMMA Moves ==
  ASSUME TypeOK, NEW b \in Brokers, NEW q \in Requests, NEW point \in Points, Goto(b, q, point)
  PROVE  /\ pc' \in [Brokers -> [Requests -> Points]]
         /\ pc'[b][q] = point
         /\ \A r \in Requests \ {q} : pc'[b][r] = pc[b][r]
         /\ \A a \in Brokers \ {b} : pc'[a] = pc[a]
<1>1. pc \in [Brokers -> [Requests -> Points]]  BY DEF TypeOK, Points
<1>. QED  BY <1>1, OneOf DEF Goto

\* Where a request goes on to.
LEMMA Continues ==
  ASSUME NEW b \in Brokers, NEW q \in Requests, NEW owed \in BOOLEAN, Continue(b, q, owed)
  PROVE  \E point \in {"respond", "notify", "resolve", "done"} :
           /\ Goto(b, q, point)
           /\ owed => point \in {"respond", "notify"}
<1>1. CASE q \in Lists  BY <1>1 DEF Continue
<1>2. CASE q \notin Lists /\ owed  BY <1>2 DEF Continue
<1>3. CASE q \notin Lists /\ ~owed
  <2>1. Goto(b, q, "resolve") \/ Goto(b, q, "done")  BY <1>3 DEF Continue
  <2>. QED  BY <1>3, <2>1
<1>. QED  BY <1>1, <1>2, <1>3

\* Only the holder of the lock is at the points of a refresh.
Alone(b, q) == \A r \in Requests \ {q} : pc[b][r] \notin Holding
LEMMA HolderIsAlone ==
  ASSUME TypeOK, NEW b \in Brokers, NEW q \in Requests, pc[b][q] \in Holding
  PROVE  lock[b] = q /\ Alone(b, q)
BY DEF TypeOK, Holding, Alone

\* A request that moves holds the lock where it should.
Held == /\ pc' \in [Brokers -> [Requests -> Points]]
        /\ lock' \in [Brokers -> Requests \cup {None}]
        /\ \A b \in Brokers, q \in Requests : pc'[b][q] \in Holding => lock'[b] = q
LEMMA Holds ==
  ASSUME TypeOK, NEW b \in Brokers, NEW q \in Requests, NEW point \in Points, Goto(b, q, point),
         \/ lock' = lock /\ (point \in Holding => pc[b][q] \in Holding)
         \/ lock' = [lock EXCEPT ![b] = None] /\ pc[b][q] \in Holding /\ point \notin Holding
         \/ lock' = [lock EXCEPT ![b] = q] /\ lock[b] = None
  PROVE  Held
<1>1. /\ pc' \in [Brokers -> [Requests -> Points]]
      /\ pc'[b][q] = point
      /\ \A r \in Requests \ {q} : pc'[b][r] = pc[b][r]
      /\ \A a \in Brokers \ {b} : pc'[a] = pc[a]
  BY Moves
<1>2. /\ lock \in [Brokers -> Requests \cup {None}] /\ None \notin Requests
      /\ \A a \in Brokers, r \in Requests : pc[a][r] \in Holding => lock[a] = r
  BY SnapshotAssumption DEF TypeOK, Holding
<1>3. lock' \in [Brokers -> Requests \cup {None}] /\ \A a \in Brokers \ {b} : lock'[a] = lock[a]
  BY <1>2
<1>4. \A r \in Requests : pc'[b][r] \in Holding => lock'[b] = r  BY <1>1, <1>2
<1>. QED  BY <1>1, <1>2, <1>3, <1>4 DEF Held

-----------------------------------------------------------------------------
(* What a refresh stages. *)

\* An entry keeps its type, and a restricted one its public schema.
LEMMA Entries ==
  ASSUME NEW t \in Tools, NEW old \in Entry \cup {None}, NEW d \in Definitions
  PROVE  /\ Keep(t, old, d) \in Entry \cup {None}
         /\ t \in Restricted /\ old # None =>
              Keep(t, old, d) # None /\ Keep(t, old, d).public = old.public
         /\ Fits(t, old, d) => Keep(t, old, d) # None
         /\ ~Fits(t, old, d) /\ old = None => Keep(t, old, d) = None
<1>1. None \notin Entry /\ None \notin Definitions /\ Derivable \subseteq Definitions
      /\ Restricted \cap Proxies = {} /\ Tools = Restricted \cup Proxies
  BY SnapshotAssumption DEF Tools
<1>2. CASE t \in Proxies
  BY <1>1, <1>2 DEF Keep, Fits, Entry
<1>3. CASE t \in Restricted /\ old = None
  BY <1>1, <1>3 DEF Keep, Fits, Entry
<1>4. CASE t \in Restricted /\ old # None
  <2>1. old \in Entry /\ t \notin Proxies  BY <1>1, <1>4
  <2>2. [old EXCEPT !.upstream = d] \in Entry /\ [old EXCEPT !.upstream = d].public = old.public
    BY <2>1 DEF Entry
  <2>3. Keep(t, old, d) = IF <<old.public, d>> \in Compatible THEN [old EXCEPT !.upstream = d] ELSE old
    BY <1>4, <2>1 DEF Keep
  <2>. QED  BY <1>1, <1>4, <2>1, <2>2, <2>3
<1>. QED  BY <1>1, <1>2, <1>3, <1>4

\* What is staged is typed, agrees, and extends what there was.
LEMMA Stages ==
  ASSUME NEW old \in Snapshot, upstream \in Offer, \A t \in Tools : upstream[t] \in past[t]
  PROVE  /\ Stage(old, upstream) \in Staging
         /\ Agree(Stage(old, upstream).cached, Stage(old, upstream).active,
                  Stage(old, upstream).changed)
         /\ Keeps(old, Stage(old, upstream).cached)
         /\ \A t \in Stage(old, upstream).changed : old[t] # None
<1>. DEFINE New(t) == IF upstream[t] = None THEN old[t] ELSE Keep(t, old[t], upstream[t])
            Ok(t) == Fits(t, old[t], upstream[t])
            Shown(t) == IF Ok(t) THEN New(t).public ELSE None
<1>1. /\ Stage(old, upstream).cached = [t \in Tools |-> New(t)]
      /\ Stage(old, upstream).active = [t \in Tools |-> Shown(t)]
      /\ Stage(old, upstream).changed = {t \in Tools : ~Ok(t) /\ old[t] # None}
      /\ Stage(old, upstream) = [cached |-> Stage(old, upstream).cached,
                                 active |-> Stage(old, upstream).active,
                                 changed |-> Stage(old, upstream).changed]
  BY DEF Stage, Reasons
<1>2. ASSUME NEW t \in Tools
      PROVE  /\ New(t) \in Entry \cup {None}
             /\ Ok(t) => New(t) \in Entry
             /\ ~Ok(t) => (New(t) # None <=> old[t] # None)
             /\ t \in Restricted /\ old[t] # None => New(t) # None /\ New(t).public = old[t].public
  <2>1. old[t] \in Entry \cup {None} /\ upstream[t] \in Definitions \cup {None}
    BY DEF Snapshot, Offer
  <2>2. CASE upstream[t] = None
    BY <2>1, <2>2 DEF Fits
  <2>3. CASE upstream[t] # None
    <3>1. /\ New(t) \in Entry \cup {None}
          /\ t \in Restricted /\ old[t] # None => New(t) # None /\ New(t).public = old[t].public
          /\ Ok(t) => New(t) # None
          /\ ~Ok(t) /\ old[t] = None => New(t) = None
      BY <2>1, <2>3, Entries
    <3>2. ~Ok(t) /\ old[t] # None => New(t) # None
      <4>1. t \in Restricted \/ t \in Proxies  BY DEF Tools
      <4>2. t \in Proxies => Ok(t)  BY <2>3 DEF Fits
      <4>. QED  BY <3>1, <4>1, <4>2
    <3>. QED  BY <3>1, <3>2
  <2>. QED  BY <2>2, <2>3
<1>3. \A e \in Entry : e.public \in Definitions /\ e.public # None
  BY SnapshotAssumption DEF Entry
<1>4. \A t \in Tools : Shown(t) \in Definitions \cup {None} /\ (Shown(t) = None <=> ~Ok(t))
  BY <1>2, <1>3
<1>5. ASSUME NEW t \in Restricted, New(t) # None, Stays(t, New(t).public) PROVE Ok(t)
  <2>1. t \in Tools /\ t \notin Proxies  BY SnapshotAssumption DEF Tools
  <2>2. upstream[t] # None /\ <<New(t).public, upstream[t]>> \in Compatible
    BY <1>5, <2>1 DEF Stays
  <2>3. CASE old[t] = None
    <3>1. Keep(t, old[t], upstream[t]) # None  BY <1>5, <2>2
    <3>2. upstream[t] \in Derivable  BY <2>1, <2>3, <3>1 DEF Keep
    <3>. QED  BY <2>1, <2>2, <2>3, <3>2 DEF Fits
  <2>4. CASE old[t] # None
    <3>1. New(t).public = old[t].public  BY <1>2, <2>1, <2>4
    <3>. QED  BY <2>1, <2>2, <2>4, <3>1 DEF Fits
  <2>. QED  BY <2>3, <2>4
<1>. HIDE DEF New, Ok, Shown
<1>6. Stage(old, upstream) \in Staging
  <2>1. [t \in Tools |-> New(t)] \in Snapshot  BY <1>2 DEF Snapshot
  <2>2. [t \in Tools |-> Shown(t)] \in Offer  BY <1>4 DEF Offer
  <2>. QED  BY <1>1, <2>1, <2>2 DEF Staging
<1>7. Keeps(old, Stage(old, upstream).cached) /\ \A t \in Stage(old, upstream).changed : old[t] # None
  BY <1>1, <1>2 DEF Keeps, Tools
<1>8. Agree(Stage(old, upstream).cached, Stage(old, upstream).active, Stage(old, upstream).changed)
  <2>1. \A t \in Tools : Ok(t) => Shown(t) = New(t).public  BY DEF Shown
  <2>2. \A t \in Tools : Ok(t) => New(t) # None  BY <1>2, SnapshotAssumption
  <2>3. \A t \in Restricted : t \in Tools  BY DEF Tools
  <2>. QED  BY <1>1, <1>2, <1>4, <1>5, <2>1, <2>2, <2>3 DEF Agree
<1>. QED  BY <1>6, <1>7, <1>8

\* A staged snapshot and offer are replaced.
LEMMA Replaced ==
  ASSUME NEW r \in Staging, NEW c, NEW a
  PROVE  [r EXCEPT !.cached = c, !.active = a] = [cached |-> c, active |-> a, changed |-> r.changed]
<1>1. PICK x, y, z : r = [cached |-> x, active |-> y, changed |-> z]  BY DEF Staging
<1>2. [r EXCEPT !.cached = c] = [cached |-> c, active |-> y, changed |-> z]  BY <1>1
<1>3. [r EXCEPT !.cached = c, !.active = a] = [[r EXCEPT !.cached = c] EXCEPT !.active = a]
  OBVIOUS
<1>4. [[cached |-> c, active |-> y, changed |-> z] EXCEPT !.active = a]
        = [cached |-> c, active |-> a, changed |-> z]
  OBVIOUS
<1>5. r.changed = z  BY <1>1
<1>. QED  BY <1>2, <1>3, <1>4, <1>5, Zenon

\* Where the store fails, what would be frozen by it is left out.
Unfrozen(b) == {t \in Restricted : cached[b][t] = None}
Left(b) == [cached |-> [t \in Tools |-> IF t \in Unfrozen(b) THEN None ELSE staged[b].cached[t]],
            active |-> [t \in Tools |-> IF t \in Unfrozen(b) THEN None ELSE staged[b].active[t]],
            changed |-> staged[b].changed]
LEMMA Leaves ==
  ASSUME Typed, NEW b \in Brokers, NEW q \in Requests, StoreFails(b, q)
  PROVE  staged' = [staged EXCEPT ![b] = Left(b)] /\ Left(b) \in Staging
<1>1. staged[b] \in Staging /\ staged \in [Brokers -> Staging]  BY DEF Typed
<1>2. Left(b) \in Staging
  <2>1. [t \in Tools |-> IF t \in Unfrozen(b) THEN None ELSE staged[b].cached[t]] \in Snapshot
    BY <1>1 DEF Staging, Snapshot
  <2>2. [t \in Tools |-> IF t \in Unfrozen(b) THEN None ELSE staged[b].active[t]] \in Offer
    BY <1>1 DEF Staging, Offer
  <2>. QED  BY <1>1, <2>1, <2>2 DEF Left, Staging
<1>3. staged' = [staged EXCEPT
        ![b] = [staged[b] EXCEPT
          !.cached = [t \in Tools |-> IF t \in Unfrozen(b) THEN None ELSE staged[b].cached[t]],
          !.active = [t \in Tools |-> IF t \in Unfrozen(b) THEN None ELSE staged[b].active[t]]]]
  BY <1>1 DEF StoreFails, Unfrozen
<1>4. [staged[b] EXCEPT
          !.cached = [t \in Tools |-> IF t \in Unfrozen(b) THEN None ELSE staged[b].cached[t]],
          !.active = [t \in Tools |-> IF t \in Unfrozen(b) THEN None ELSE staged[b].active[t]]]
        = Left(b)
  BY <1>1, Replaced DEF Left
<1>. QED  BY <1>2, <1>3, <1>4

-----------------------------------------------------------------------------
(* Types. *)

\* Every step keeps the types.
LEMMA TypeStep ==
  ASSUME Typed, Next
  PROVE  Typed'
<1>. USE SnapshotAssumption DEF upstreamVars, catalogVars, refreshVars, requestVars, clientVars
<1>0. /\ TypeOK /\ staged \in [Brokers -> Staging]
      /\ \A t \in Tools : upstream[t] \in past[t]
      /\ pc \in [Brokers -> [Requests -> Points]] /\ lock \in [Brokers -> Requests \cup {None}]
      /\ answer \in [Brokers -> [Requests -> Replies]]
      /\ callee \in [Brokers -> [Requests -> Tools \cup {None}]]
  BY DEF Typed, TypeOK, Points, Replies
<1>1. Absent \in Snapshot /\ Absent \in Offer /\ NothingStaged \in Staging
  BY DEF Absent, Snapshot, Offer, NothingStaged, Staging
<1>3. ASSUME NEW b \in Brokers, Start(b) PROVE Typed'
  <2>1. PICK snapshot \in {disk, Absent} :
          /\ cached' = [cached EXCEPT ![b] = snapshot]
          /\ active' = [active EXCEPT ![b] = Offered(snapshot)]
          /\ loaded' = [loaded EXCEPT ![b] = snapshot # Absent]
    BY <1>3 DEF Start
  <2>2. snapshot \in Snapshot  BY <1>0, <1>1, <2>1 DEF TypeOK
  <2>3. Offered(snapshot) \in Offer
    <3>1. \A t \in Tools : snapshot[t] \in Entry \cup {None}  BY <2>2 DEF Snapshot
    <3>2. \A e \in Entry : e.public \in Definitions  BY DEF Entry
    <3>. QED  BY <3>1, <3>2 DEF Offered, Offer
  <2>4. /\ cached' \in [Brokers -> Snapshot] /\ active' \in [Brokers -> Offer]
        /\ loaded' \in [Brokers -> BOOLEAN]
    BY <1>0, <2>1, <2>2, <2>3 DEF TypeOK
  <2>5. /\ up' = up \cup {b}
        /\ UNCHANGED <<upstreamVars, disk, changed, unavailable, refreshVars, pc, requestVars,
                       clientVars, crashes>>
    BY <1>3 DEF Start
  <2>. QED  BY <1>0, <2>4, <2>5 DEF Typed, TypeOK
<1>4. ASSUME NEW b \in Brokers, Crash(b) PROVE Typed'
  <2>1. Held
    <3>1. /\ pc' = [pc EXCEPT ![b] = [q \in Requests |-> "idle"]]
          /\ lock' = [lock EXCEPT ![b] = None]
      BY <1>4 DEF Crash
    <3>2. [q \in Requests |-> "idle"] \in [Requests -> Points]  BY DEF Points
    <3>3. /\ pc' \in [Brokers -> [Requests -> Points]]
          /\ lock' \in [Brokers -> Requests \cup {None}]
          /\ \A q \in Requests : pc'[b][q] = "idle"
          /\ \A a \in Brokers \ {b} : pc'[a] = pc[a] /\ lock'[a] = lock[a]
      BY <1>0, <3>1, <3>2
    <3>4. \A a \in Brokers, q \in Requests : pc[a][q] \in Holding => lock[a] = q
      BY <1>0 DEF TypeOK, Holding
    <3>. QED  BY <3>3, <3>4 DEF Held, Holding
  <2>2. /\ answer' \in [Brokers -> [Requests -> Replies]]
        /\ callee' \in [Brokers -> [Requests -> Tools \cup {None}]]
    BY <1>0, <1>4 DEF Crash, Replies
  <2>3. /\ active' \in [Brokers -> Offer] /\ cached' \in [Brokers -> Snapshot]
        /\ loaded' \in [Brokers -> BOOLEAN] /\ unavailable' \in [Brokers -> BOOLEAN]
        /\ changed' \in [Brokers -> SUBSET Tools] /\ owes' \in [Brokers -> SUBSET Requests]
        /\ staged' \in [Brokers -> Staging]
        /\ view' \in [Brokers -> Offer \cup {None}]
        /\ notice' \in [Brokers -> BOOLEAN] /\ stale' \in [Brokers -> BOOLEAN]
    BY <1>0, <1>1, <1>4 DEF TypeOK, Crash
  <2>4. up' \subseteq Brokers /\ crashes' \in 0 .. MaxCrashes  BY <1>0, <1>4 DEF TypeOK, Crash
  <2>. QED  BY <1>0, <1>4, <2>1, <2>2, <2>3, <2>4 DEF Typed, TypeOK, Crash, Held, Points, Holding,
                                                   Replies
<1>5. ASSUME NEW b \in Brokers, NEW q \in Requests, Lock(b, q) PROVE Typed'
  <2>1. Held  BY <1>0, <1>5, Holds DEF Lock, Points
  <2>. QED  BY <1>0, <1>5, <2>1 DEF Typed, TypeOK, Lock, Held, Points, Holding
<1>6. ASSUME NEW b \in Brokers, NEW q \in Requests, NEW owed \in BOOLEAN,
             lock' = [lock EXCEPT ![b] = None], pc[b][q] \in Holding, Continue(b, q, owed)
      PROVE  Held
  <2>1. PICK point \in {"respond", "notify", "resolve", "done"} : Goto(b, q, point)
    BY <1>6, Continues
  <2>2. point \in Points /\ point \notin Holding  BY DEF Points, Holding
  <2>. QED  BY <1>0, <1>6, <2>1, <2>2, Holds
<1>7. ASSUME NEW b \in Brokers, NEW q \in Requests, DiscoverFails(b, q) \/ DiscoverMalformed(b, q)
      PROVE  Typed'
  <2>1. Held  BY <1>6, <1>7 DEF DiscoverFails, DiscoverMalformed, Holding
  <2>2. unavailable' \in [Brokers -> BOOLEAN]
    BY <1>0, <1>7 DEF TypeOK, DiscoverFails, DiscoverMalformed
  <2>3. UNCHANGED <<upstreamVars, disk, up, active, cached, loaded, changed, staged, owes,
                    requestVars, clientVars, crashes>>
    BY <1>7 DEF DiscoverFails, DiscoverMalformed
  <2>. QED  BY <1>0, <2>1, <2>2, <2>3 DEF Typed, TypeOK, Held, Points, Holding
<1>8. ASSUME NEW b \in Brokers, NEW q \in Requests, Discover(b, q) PROVE Typed'
  <2>1. Held  BY <1>0, <1>8, Holds DEF Discover, Points, Holding
  <2>2. Stage(cached[b], upstream) \in Staging  BY <1>0, Stages DEF TypeOK
  <2>3. staged' \in [Brokers -> Staging]  BY <1>0, <1>8, <2>2 DEF Discover
  <2>. QED  BY <1>0, <1>8, <2>1, <2>3 DEF Typed, TypeOK, Discover, Held, Points, Holding
<1>9. ASSUME NEW b \in Brokers, NEW q \in Requests, Store(b, q) PROVE Typed'
  <2>1. Held  BY <1>0, <1>9, Holds DEF Store, Points, Holding, refreshVars
  <2>2. disk' \in Snapshot  BY <1>0, <1>9 DEF Store, Staging
  <2>. QED  BY <1>0, <1>9, <2>1, <2>2 DEF Typed, TypeOK, Store, Held, Points, Holding
<1>10. ASSUME NEW b \in Brokers, NEW q \in Requests, StoreFails(b, q) PROVE Typed'
  <2>1. Held  BY <1>0, <1>10, Holds DEF StoreFails, Points, Holding
  <2>2. staged' \in [Brokers -> Staging]  BY <1>0, <1>10, Leaves
  <2>. QED  BY <1>0, <1>10, <2>1, <2>2 DEF Typed, TypeOK, StoreFails, Held, Points, Holding
<1>11. ASSUME NEW b \in Brokers, NEW q \in Requests, Adopt(b, q) PROVE Typed'
  <2>1. Held
    <3>1. Continue(b, q, MustNotify(b)) /\ MustNotify(b) \in BOOLEAN
          /\ pc[b][q] \in Holding /\ lock' = [lock EXCEPT ![b] = None]
      BY <1>11 DEF Adopt, Holding, MustNotify
    <3>. QED  BY <1>6, <3>1
  <2>2. /\ active' \in [Brokers -> Offer] /\ cached' \in [Brokers -> Snapshot]
        /\ changed' \in [Brokers -> SUBSET Tools]
        /\ loaded' \in [Brokers -> BOOLEAN] /\ unavailable' \in [Brokers -> BOOLEAN]
        /\ staged' \in [Brokers -> Staging]
    BY <1>0, <1>1, <1>11 DEF TypeOK, Adopt, Staging
  <2>3. owes' \in [Brokers -> SUBSET Requests]  BY <1>0, <1>11 DEF TypeOK, Adopt
  <2>4. UNCHANGED <<upstreamVars, disk, up, requestVars, clientVars, crashes>>
    BY <1>11 DEF Adopt
  <2>. QED  BY <1>0, <2>1, <2>2, <2>3, <2>4 DEF Typed, TypeOK, Held, Points, Holding
<1>12. ASSUME NEW b \in Brokers, NEW q \in Requests, Notify(b, q) PROVE Typed'
  <2>1. Held
    <3>1. Goto(b, q, "resolve") \/ Goto(b, q, "done")  BY <1>12 DEF Notify
    <3>. QED  BY <1>0, <1>12, <3>1, Holds DEF Notify, Points, Holding
  <2>2. owes' \in [Brokers -> SUBSET Requests] /\ notice' \in [Brokers -> BOOLEAN]
    BY <1>0, <1>12 DEF TypeOK, Notify
  <2>. QED  BY <1>0, <1>12, <2>1, <2>2 DEF Typed, TypeOK, Notify, Held, Points, Holding
<1>13. ASSUME NEW b \in Brokers, NEW q \in Requests, NEW point \in Points \ Holding,
              Goto(b, q, point), lock' = lock
       PROVE  Held
  BY <1>0, <1>13, Holds
<1>14. ASSUME NEW b \in Brokers, NEW q \in Requests, StartList(b, q) \/ StartCall(b, q) PROVE Typed'
  <2>1. \E point \in Points \ Holding : Goto(b, q, point)
    BY <1>14 DEF StartList, StartCall, Points, Holding
  <2>2. Held  BY <1>13, <1>14, <2>1 DEF StartList, StartCall
  <2>3. answer' \in [Brokers -> [Requests -> Replies]]
    <3>1. answer' = [answer EXCEPT ![b][q] = "none"] /\ "none" \in Replies
      BY <1>14 DEF StartList, StartCall, Replies
    <3>. QED  BY <1>0, <3>1, OneOf
  <2>4. callee' \in [Brokers -> [Requests -> Tools \cup {None}]]
    <3>1. callee' = callee \/ \E t \in Tools \cup {None} : callee' = [callee EXCEPT ![b][q] = t]
      BY <1>14 DEF StartList, StartCall
    <3>2. ASSUME NEW t \in Tools \cup {None}, callee' = [callee EXCEPT ![b][q] = t]
          PROVE  callee' \in [Brokers -> [Requests -> Tools \cup {None}]]
      BY <1>0, <3>2, OneOf
    <3>. QED  BY <1>0, <3>1, <3>2
  <2>5. UNCHANGED <<upstreamVars, disk, up, catalogVars, staged, owes, clientVars, crashes>>
    BY <1>14 DEF StartList, StartCall
  <2>. QED  BY <1>0, <2>2, <2>3, <2>4, <2>5 DEF Typed, TypeOK, Held, Points, Holding, Replies
<1>15. ASSUME NEW b \in Brokers, NEW q \in Requests, Respond(b, q) PROVE Typed'
  <2>1. \E point \in Points \ Holding : Goto(b, q, point)
    BY <1>15 DEF Respond, Points, Holding
  <2>2. Held  BY <1>13, <1>15, <2>1 DEF Respond
  <2>3. answer' \in [Brokers -> [Requests -> Replies]]
    BY <1>0, <1>15, OneOf DEF Respond, Replies
  <2>4. /\ view' \in [Brokers -> Offer \cup {None}]
        /\ notice' \in [Brokers -> BOOLEAN] /\ stale' \in [Brokers -> BOOLEAN]
    BY <1>0, <1>15 DEF TypeOK, Respond
  <2>5. UNCHANGED <<upstreamVars, disk, up, catalogVars, staged, owes, callee, crashes>>
    BY <1>15 DEF Respond
  <2>. QED  BY <1>0, <2>2, <2>3, <2>4, <2>5 DEF Typed, TypeOK, Held, Points, Holding, Replies
<1>17. ASSUME NEW b \in Brokers, NEW q \in Requests, Resolve(b, q) \/ Execute(b, q) PROVE Typed'
  <2>1. \E point \in Points \ Holding : Goto(b, q, point)
    BY <1>17 DEF Resolve, Execute, Points, Holding
  <2>2. Held  BY <1>13, <1>17, <2>1 DEF Resolve, Execute
  <2>3. answer' \in [Brokers -> [Requests -> Replies]]
    <3>1. answer' = answer \/ \E a \in Replies : answer' = [answer EXCEPT ![b][q] = a]
      BY <1>17 DEF Resolve, Execute, Replies
    <3>2. ASSUME NEW a \in Replies, answer' = [answer EXCEPT ![b][q] = a]
          PROVE  answer' \in [Brokers -> [Requests -> Replies]]
      BY <1>0, <3>2, OneOf
    <3>. QED  BY <1>0, <3>1, <3>2
  <2>4. UNCHANGED <<upstreamVars, disk, up, catalogVars, staged, owes, callee, clientVars, crashes>>
    BY <1>17 DEF Resolve, Execute
  <2>. QED  BY <1>0, <2>2, <2>3, <2>4 DEF Typed, TypeOK, Held, Points, Holding, Replies
<1>18. ASSUME Change PROVE Typed'
  <2>1. PICK t \in Tools, d \in Definitions \cup {None} :
          /\ upstream' = [upstream EXCEPT ![t] = d]
          /\ past' = [past EXCEPT ![t] = @ \cup {d}]
    BY <1>18 DEF Change
  <2>2. upstream' \in Offer /\ past' \in [Tools -> SUBSET (Definitions \cup {None})]
        /\ \A u \in Tools : upstream'[u] \in past'[u]
    BY <1>0, <2>1 DEF TypeOK, Offer
  <2>3. changes' \in 0 .. MaxChanges  BY <1>0, <1>18 DEF TypeOK, Change
  <2>4. UNCHANGED <<disk, up, catalogVars, refreshVars, pc, requestVars, clientVars, crashes>>
    BY <1>18 DEF Change
  <2>. QED  BY <1>0, <2>2, <2>3, <2>4 DEF Typed, TypeOK
<1>19. Lists \subseteq Requests /\ Calls \subseteq Requests  BY DEF Requests
<1>. QED  BY <1>3, <1>4, <1>5, <1>7, <1>8, <1>9, <1>10, <1>11, <1>12, <1>14, <1>15, <1>17,
             <1>18, <1>19 DEF Next

-----------------------------------------------------------------------------
(* Each broker by itself. *)

\* Of a broker that a step does not touch, everything still holds.
Still(a) ==
  /\ (a \in up' <=> a \in up) /\ past' = past
  /\ staged'[a] = staged[a] /\ owes'[a] = owes[a] /\ pc'[a] = pc[a]
  /\ active'[a] = active[a] /\ cached'[a] = cached[a] /\ changed'[a] = changed[a]
  /\ loaded'[a] = loaded[a] /\ unavailable'[a] = unavailable[a]
  /\ view'[a] = view[a] /\ notice'[a] = notice[a] /\ stale'[a] = stale[a]
LEMMA StaysLocal ==
  ASSUME NEW a \in Brokers, Local(a), Still(a)
  PROVE  Local(a)'
<1>1. Off(a)'  BY DEF Local, Off, Still
<1>2. Agrees(a)'  BY DEF Local, Agrees, Agree, Stays, Still
<1>3. Extends(a)'  BY DEF Local, Extends, Keeps, Still
<1>4. Informs(a)'  BY DEF Local, Informs, Still
<1>. QED  BY <1>1, <1>2, <1>3, <1>4 DEF Local

\* A step of one broker touches no other.
LEMMA OthersStill ==
  ASSUME Typed, NEW b \in Brokers,
         \/ Start(b) \/ Crash(b)
         \/ \E q \in Requests :
              \/ StartList(b, q) \/ Respond(b, q)
              \/ StartCall(b, q) \/ Resolve(b, q) \/ Execute(b, q)
              \/ Lock(b, q) \/ DiscoverFails(b, q) \/ DiscoverMalformed(b, q) \/ Discover(b, q)
              \/ Store(b, q) \/ StoreFails(b, q) \/ Adopt(b, q) \/ Notify(b, q)
  PROVE  \A a \in Brokers \ {b} : Still(a)
<1>. USE DEF Typed, TypeOK, Still, upstreamVars, catalogVars, refreshVars, requestVars, clientVars,
             Goto, Continue
<1>1. CASE Start(b) \/ Crash(b)  BY <1>1 DEF Start, Crash
<1>2. ASSUME NEW q \in Requests,
             \/ StartList(b, q) \/ Respond(b, q)
             \/ StartCall(b, q) \/ Resolve(b, q) \/ Execute(b, q)
      PROVE  \A a \in Brokers \ {b} : Still(a)
  BY <1>2 DEF StartList, Respond, StartCall, Resolve, Execute
<1>3. ASSUME NEW q \in Requests,
             \/ Lock(b, q) \/ DiscoverFails(b, q) \/ DiscoverMalformed(b, q) \/ Discover(b, q)
      PROVE  \A a \in Brokers \ {b} : Still(a)
  BY <1>3 DEF Lock, DiscoverFails, DiscoverMalformed, Discover
<1>4. ASSUME NEW q \in Requests, Store(b, q) \/ StoreFails(b, q) \/ Adopt(b, q) \/ Notify(b, q)
      PROVE  \A a \in Brokers \ {b} : Still(a)
  BY <1>4 DEF Store, StoreFails, Adopt, Notify
<1>. QED  BY <1>1, <1>2, <1>3, <1>4

\* A broker with a request under way runs.
LEMMA Runs ==
  ASSUME NEW b \in Brokers, Local(b), NEW q \in Requests, pc[b][q] # "idle"
  PROVE  b \in up
BY DEF Local, Off

\* A request moves and the catalog stays; at most its target has become unavailable.
LEMMA Quiet ==
  ASSUME Typed, NEW b \in Brokers, Local(b), b \in up, NEW q \in Requests, NEW point \in Points,
         Goto(b, q, point), UNCHANGED <<past, up, staged, owes, active, cached, changed, loaded,
                                        view, notice, stale>>,
         unavailable'[b] = unavailable[b] \/ unavailable'[b],
         q \in owes[b] => point \in {"respond", "notify"},
         point \in {"rename", "adopt"} => Keeps(cached[b], staged[b].cached)
  PROVE  Local(b)'
<1>1. pc'[b][q] = point /\ \A r \in Requests \ {q} : pc'[b][r] = pc[b][r]
  BY Moves DEF Typed
<1>2. Off(b)'  BY DEF Off
<1>3. Agrees(b)'  BY DEF Local, Agrees, Agree, Stays
<1>4. Extends(b)'  BY <1>1 DEF Local, Extends, Keeps
<1>5. Informs(b)'
  <2>1. \A r \in owes[b] : r \in Requests  BY DEF Typed, TypeOK
  <2>. QED  BY <1>1, <2>1 DEF Local, Informs
<1>. QED  BY <1>2, <1>3, <1>4, <1>5 DEF Local

\* A new snapshot with its offers and reasons is staged.
LEMMA StagesLocal ==
  ASSUME Typed, NEW b \in Brokers, Local(b), NEW q \in Requests, pc[b][q] \in Holding,
         NEW point \in {"rename", "adopt"}, Goto(b, q, point), NEW new \in Staging,
         staged' = [staged EXCEPT ![b] = new],
         Agree(new.cached, new.active, new.changed), Keeps(cached[b], new.cached),
         \A t \in new.changed : cached[b][t] # None,
         UNCHANGED <<past, up, owes, active, cached, changed, loaded, unavailable, view, notice,
                     stale>>
  PROVE  Local(b)'
<1>1. pc'[b][q] = point /\ \A r \in Requests \ {q} : pc'[b][r] = pc[b][r]
  BY Moves DEF Typed, Points
<1>2. staged'[b] = new /\ b \in up /\ Alone(b, q)
  BY Runs, HolderIsAlone DEF Typed, Holding
<1>3. Off(b)'  BY <1>2 DEF Off
<1>4. Agrees(b)'  BY <1>2 DEF Local, Agrees, Agree, Stays
<1>5. Extends(b)'  BY <1>1, <1>2 DEF Extends, Keeps
<1>6. Informs(b)'
  <2>1. q \notin owes[b] /\ \A r \in owes[b] : r \in Requests
    BY DEF Typed, TypeOK, Local, Informs, Holding
  <2>. QED  BY <1>1, <2>1 DEF Local, Informs
<1>. QED  BY <1>3, <1>4, <1>5, <1>6 DEF Local

\* Nothing agrees with nothing.
LEMMA NothingAgrees ==
  /\ Agree(NothingStaged.cached, NothingStaged.active, NothingStaged.changed)
  /\ Agree(Absent, Absent, {})
BY DEF Agree, NothingStaged, Absent, Tools

\* What is staged is adopted: whoever's client may have seen another offer owes a notification.
LEMMA AdoptLocal ==
  ASSUME Typed, NEW b \in Brokers, Local(b), NEW q \in Requests, Adopt(b, q)
  PROVE  Local(b)'
<1>. USE DEF upstreamVars, catalogVars, refreshVars, requestVars, clientVars
<1>0. MustNotify(b) \in BOOLEAN /\ pc[b][q] = "adopt" /\ b \in up
  BY Runs DEF Adopt, MustNotify
<1>1. PICK point \in {"respond", "notify", "resolve", "done"} :
        Goto(b, q, point) /\ (MustNotify(b) => point \in {"respond", "notify"})
  BY <1>0, Continues DEF Adopt
<1>2. pc'[b][q] = point /\ \A r \in Requests \ {q} : pc'[b][r] = pc[b][r]
  BY <1>1, Moves DEF Typed, Points
<1>3. /\ active'[b] = staged[b].active /\ cached'[b] = staged[b].cached
      /\ changed'[b] = staged[b].changed /\ staged'[b] = NothingStaged
      /\ loaded'[b] /\ view'[b] = view[b] /\ notice'[b] = notice[b] /\ stale'[b] = stale[b]
      /\ past' = past /\ up' = up
  BY DEF Adopt, Typed, TypeOK
<1>4. owes'[b] = IF MustNotify(b) THEN owes[b] \cup {q} ELSE owes[b]
  BY DEF Adopt, Typed, TypeOK
<1>5. Alone(b, q)  BY <1>0, HolderIsAlone DEF Typed, Holding
<1>6. Off(b)'  BY <1>0, <1>3 DEF Off
<1>7. Agrees(b)'
  <2>1. Agree(staged[b].cached, staged[b].active, staged[b].changed)  BY DEF Local, Agrees
  <2>2. Agree(cached[b], active[b], changed[b])'  BY <1>3, <2>1 DEF Agree, Stays
  <2>3. Agree(NothingStaged.cached, NothingStaged.active, NothingStaged.changed)'
    BY NothingAgrees, <1>3 DEF Agree, Stays, NothingStaged
  <2>. QED  BY <1>3, <2>2, <2>3 DEF Agrees
<1>8. Extends(b)'
  <2>1. NothingStaged.changed = {}  BY DEF NothingStaged
  <2>2. \A r \in Requests : pc'[b][r] \notin {"rename", "adopt"}
    BY <1>2, <1>5 DEF Alone, Holding
  <2>. QED  BY <1>3, <2>1, <2>2 DEF Extends
<1>9. Informs(b)'
  <2>1. q \notin owes[b] /\ \A r \in owes[b] : r \in Requests
    BY <1>0 DEF Typed, TypeOK, Local, Informs
  <2>2. \A r \in owes'[b] : pc'[b][r] \in {"respond", "notify"}
    BY <1>1, <1>2, <1>4, <2>1 DEF Local, Informs
  <2>3. ASSUME view[b] # None, ~stale[b], owes'[b] = {} PROVE view[b] = active'[b] \/ notice[b]
    <3>1. ~MustNotify(b) /\ owes[b] = {}  BY <1>4, <2>3
    <3>2. (loaded[b] \/ unavailable[b]) /\ (view[b] = active[b] \/ notice[b])
      BY <2>3, <3>1 DEF Local, Informs
    <3>3. staged[b].active = active[b]  BY <3>1, <3>2 DEF MustNotify
    <3>. QED  BY <1>3, <3>2, <3>3
  <2>. QED  BY <1>3, <2>2, <2>3 DEF Informs
<1>. QED  BY <1>6, <1>7, <1>8, <1>9 DEF Local

\* A response is written, or the notification that follows one.
LEMMA WritesLocal ==
  ASSUME Typed, NEW b \in Brokers, Local(b), NEW q \in Requests, Respond(b, q) \/ Notify(b, q)
  PROVE  Local(b)'
<1>. USE DEF upstreamVars, catalogVars, refreshVars, requestVars, clientVars
<1>0. pc[b][q] \in {"respond", "notify"} /\ b \in up  BY Runs DEF Respond, Notify
<1>1. PICK point \in {"notify", "resolve", "done"} :
        Goto(b, q, point) /\ (Respond(b, q) /\ q \in owes[b] => point = "notify")
  <2>1. CASE Respond(b, q)  BY <2>1, <1>0 DEF Respond, Notify
  <2>2. CASE Notify(b, q) /\ ~Respond(b, q)  BY <2>2 DEF Notify
  <2>. QED  BY <2>1, <2>2
<1>2. pc'[b][q] = point /\ \A r \in Requests \ {q} : pc'[b][r] = pc[b][r]
  BY <1>1, Moves DEF Typed, Points
<1>3. UNCHANGED <<past, up, staged, active, cached, changed, loaded, unavailable>>
  BY DEF Respond, Notify
<1>4. Off(b)'  BY <1>0, <1>3 DEF Off
<1>5. Agrees(b)'  BY <1>3 DEF Local, Agrees, Agree, Stays
<1>6. Extends(b)'  BY <1>2, <1>3 DEF Local, Extends, Keeps
<1>7. \A r \in owes[b] : r \in Requests  BY DEF Typed, TypeOK
<1>8. Informs(b)'
  <2>1. CASE Respond(b, q)
    <3>1. /\ view'[b] = active[b] /\ owes' = owes
          /\ stale'[b] = (~loaded[b] /\ ~unavailable[b])
      BY <2>1 DEF Respond, Typed, TypeOK
    <3>2. \A r \in owes[b] : pc'[b][r] \in {"respond", "notify"}
      BY <1>1, <1>2, <1>7, <2>1 DEF Local, Informs
    <3>. QED  BY <1>3, <3>1, <3>2 DEF Informs
  <2>2. CASE Notify(b, q)
    <3>1. notice'[b] /\ owes'[b] = owes[b] \ {q} /\ view' = view /\ stale' = stale
      BY <2>2 DEF Notify, Typed, TypeOK
    <3>. QED  BY <1>2, <1>3, <1>7, <3>1 DEF Local, Informs
  <2>. QED  BY <2>1, <2>2
<1>. QED  BY <1>4, <1>5, <1>6, <1>8 DEF Local

\* A broker starts with what is stored, or stops with what it had.
LEMMA LivesLocal ==
  ASSUME Typed, NEW b \in Brokers, Local(b), Start(b) \/ Crash(b)
  PROVE  Local(b)'
<1>. USE DEF upstreamVars, catalogVars, refreshVars, requestVars, clientVars
<1>1. CASE Start(b)
  <2>0. PICK snapshot \in {disk, Absent} :
          /\ cached' = [cached EXCEPT ![b] = snapshot]
          /\ active' = [active EXCEPT ![b] = Offered(snapshot)]
    BY <1>1 DEF Start
  <2>1. /\ up' = up \cup {b} /\ b \notin up
        /\ cached'[b] = snapshot /\ active'[b] = Offered(snapshot)
        /\ UNCHANGED <<past, changed, staged, owes, pc, view, notice, stale>>
    BY <1>1, <2>0 DEF Start, Typed, TypeOK
  <2>2. /\ staged[b] = NothingStaged /\ owes[b] = {} /\ changed[b] = {} /\ view[b] = None
        /\ \A q \in Requests : pc[b][q] = "idle"
    BY <2>1 DEF Local, Off
  <2>3. Agree(snapshot, Offered(snapshot), {})
    <3>1. \A t \in Tools : snapshot[t] \in Entry \cup {None}
      BY <2>0 DEF Typed, TypeOK, Snapshot, Absent
    <3>2. \A e \in Entry : e.public # None  BY SnapshotAssumption DEF Entry
    <3>. QED  BY <3>1, <3>2 DEF Agree, Offered, Tools
  <2>4. Agrees(b)'
    <3>1. Agree(NothingStaged.cached, NothingStaged.active, NothingStaged.changed)
      BY NothingAgrees
    <3>2. Agree(cached[b], active[b], changed[b])'  BY <2>1, <2>2, <2>3 DEF Agree, Stays
    <3>. QED  BY <2>1, <2>2, <3>1, <3>2 DEF Agrees, Agree, Stays
  <2>5. Off(b)'  BY <2>1 DEF Off
  <2>6. Extends(b)'  BY <2>1, <2>2 DEF Extends, NothingStaged
  <2>7. Informs(b)'  BY <2>1, <2>2 DEF Informs
  <2>. QED  BY <2>4, <2>5, <2>6, <2>7 DEF Local
<1>2. CASE Crash(b)
  <2>1. /\ staged'[b] = NothingStaged /\ owes'[b] = {} /\ changed'[b] = {} /\ view'[b] = None
        /\ active'[b] = Absent /\ cached'[b] = Absent
        /\ pc'[b] = [q \in Requests |-> "idle"]
    BY <1>2 DEF Crash, Typed, TypeOK
  <2>2. Off(b)'  BY <2>1 DEF Off
  <2>3. Agrees(b)'
    <3>1. Agree(NothingStaged.cached, NothingStaged.active, NothingStaged.changed)'
          /\ Agree(Absent, Absent, {})'
      BY DEF Agree, NothingStaged, Absent, Tools
    <3>. QED  BY <2>1, <3>1 DEF Agrees
  <2>4. Extends(b)'  BY <2>1 DEF Extends, NothingStaged
  <2>5. Informs(b)'  BY <2>1 DEF Informs
  <2>. QED  BY <2>2, <2>3, <2>4, <2>5 DEF Local
<1>. QED  BY <1>1, <1>2

\* A request takes a step that changes no catalog.
LEMMA MovesLocal ==
  ASSUME Typed, NEW b \in Brokers, Local(b), NEW q \in Requests,
         \/ StartList(b, q) \/ StartCall(b, q) \/ Resolve(b, q) \/ Execute(b, q)
         \/ Lock(b, q) \/ DiscoverFails(b, q) \/ DiscoverMalformed(b, q) \/ Store(b, q)
  PROVE  Local(b)'
<1>. USE DEF upstreamVars, catalogVars, refreshVars, requestVars, clientVars
<1>1. b \in up  BY Runs DEF StartList, StartCall, Resolve, Execute, Lock, DiscoverFails,
                            DiscoverMalformed, Store
<1>2. q \in owes[b] => pc[b][q] \in {"respond", "notify"}  BY DEF Local, Informs
<1>3. CASE StartList(b, q) \/ StartCall(b, q) \/ Resolve(b, q) \/ Execute(b, q)
  <2>1. PICK point \in {"lock", "resolve", "execute", "done"} : Goto(b, q, point)
    BY <1>3 DEF StartList, StartCall, Resolve, Execute
  <2>2. pc[b][q] \notin {"respond", "notify"}
    BY <1>3 DEF StartList, StartCall, Resolve, Execute
  <2>3. UNCHANGED <<past, up, staged, owes, active, cached, changed, loaded, view, notice, stale,
                    unavailable>>
    BY <1>3 DEF StartList, StartCall, Resolve, Execute
  <2>4. point \in Points /\ point \notin {"rename", "adopt"}  BY DEF Points
  <2>. QED  BY <1>1, <1>2, <2>1, <2>2, <2>3, <2>4, Quiet
<1>5. CASE Lock(b, q)
  BY <1>1, <1>2, <1>5, Quiet DEF Lock, Points
<1>6. CASE DiscoverFails(b, q) \/ DiscoverMalformed(b, q)
  <2>1. PICK point \in {"respond", "notify", "resolve", "done"} : Goto(b, q, point)
    <3>1. Continue(b, q, FALSE)  BY <1>6 DEF DiscoverFails, DiscoverMalformed
    <3>. QED  BY <3>1, Continues
  <2>2. pc[b][q] = "discover"  BY <1>6 DEF DiscoverFails, DiscoverMalformed
  <2>3. /\ UNCHANGED <<past, up, staged, owes, active, cached, changed, loaded, view, notice, stale>>
        /\ unavailable'[b] = unavailable[b] \/ unavailable'[b]
    BY <1>6 DEF DiscoverFails, DiscoverMalformed, Typed, TypeOK
  <2>4. point \in Points /\ point \notin {"rename", "adopt"}  BY DEF Points
  <2>. QED  BY <1>1, <1>2, <2>1, <2>2, <2>3, <2>4, Quiet
<1>7. CASE Store(b, q)
  <2>1. Keeps(cached[b], staged[b].cached)  BY <1>7 DEF Store, Local, Extends
  <2>2. pc[b][q] = "rename" /\ Goto(b, q, "adopt") /\ "adopt" \in Points
    BY <1>7 DEF Store, Points
  <2>3. UNCHANGED <<past, up, staged, owes, active, cached, changed, loaded, view, notice, stale,
                    unavailable>>
    BY <1>7 DEF Store
  <2>. QED  BY <1>1, <1>2, <2>1, <2>2, <2>3, Quiet
<1>. QED  BY <1>3, <1>5, <1>6, <1>7

\* A discovery is staged, with or without what the store would have frozen.
LEMMA DiscoversLocal ==
  ASSUME Typed, NEW b \in Brokers, Local(b), NEW q \in Requests, Discover(b, q) \/ StoreFails(b, q)
  PROVE  Local(b)'
<1>. USE DEF upstreamVars, catalogVars, refreshVars, requestVars, clientVars
<1>1. CASE Discover(b, q)
  <2>. DEFINE new == Stage(cached[b], upstream)
  <2>1. /\ new \in Staging /\ Agree(new.cached, new.active, new.changed)
        /\ Keeps(cached[b], new.cached) /\ \A t \in new.changed : cached[b][t] # None
    BY Stages DEF Typed, TypeOK
  <2>2. PICK point \in {"rename", "adopt"} : Goto(b, q, point)  BY <1>1 DEF Discover
  <2>3. pc[b][q] \in Holding /\ staged' = [staged EXCEPT ![b] = new]
    BY <1>1 DEF Discover, Holding
  <2>4. UNCHANGED <<past, up, owes, active, cached, changed, loaded, unavailable, view, notice,
                    stale>>
    BY <1>1 DEF Discover
  <2>. HIDE DEF new
  <2>. QED  BY <2>1, <2>2, <2>3, <2>4, StagesLocal
<1>2. CASE StoreFails(b, q)
  <2>1. staged' = [staged EXCEPT ![b] = Left(b)] /\ Left(b) \in Staging  BY <1>2, Leaves
  <2>2. pc[b][q] = "rename" /\ Goto(b, q, "adopt")  BY <1>2 DEF StoreFails
  <2>3. /\ Agree(staged[b].cached, staged[b].active, staged[b].changed)
        /\ Keeps(cached[b], staged[b].cached) /\ \A t \in staged[b].changed : cached[b][t] # None
    BY <2>2 DEF Local, Agrees, Extends
  <2>4. /\ Left(b).changed = staged[b].changed
        /\ \A t \in Tools : Left(b).cached[t] = (IF t \in Unfrozen(b) THEN None ELSE staged[b].cached[t])
        /\ \A t \in Tools : Left(b).active[t] = (IF t \in Unfrozen(b) THEN None ELSE staged[b].active[t])
        /\ \A t \in Restricted : t \in Tools
    BY DEF Left, Tools
  <2>5. \A t \in Unfrozen(b) : t \in Restricted /\ cached[b][t] = None /\ t \notin staged[b].changed
    BY <2>3 DEF Unfrozen
  <2>6. \A t \in Restricted : t \notin Unfrozen(b) => cached[b][t] # None  BY DEF Unfrozen
  <2>7. Agree(Left(b).cached, Left(b).active, Left(b).changed)
    BY <2>3, <2>4, <2>5 DEF Agree
  <2>8. Keeps(cached[b], Left(b).cached)  BY <2>3, <2>4, <2>5 DEF Keeps
  <2>9. UNCHANGED <<past, up, owes, active, cached, changed, loaded, unavailable, view, notice,
                    stale>>
    BY <1>2 DEF StoreFails
  <2>. QED  BY <2>1, <2>2, <2>3, <2>4, <2>7, <2>8, <2>9, StagesLocal DEF Holding
<1>. QED  BY <1>1, <1>2

\* No step makes a broker's catalog wrong, its refresh or what it owes its client.
LEMMA LocalStep ==
  ASSUME Typed, \A b \in Brokers : Local(b), Next
  PROVE  \A b \in Brokers : Local(b)'
<1>1. ASSUME NEW b \in Brokers, Start(b) \/ Crash(b) PROVE \A a \in Brokers : Local(a)'
  <2>1. Local(b)'  BY <1>1, LivesLocal
  <2>2. \A a \in Brokers \ {b} : Local(a)'
    <3>1. \A a \in Brokers \ {b} : Still(a)  BY <1>1, OthersStill
    <3>. QED  BY <3>1, StaysLocal
  <2>. QED  BY <2>1, <2>2
<1>2. ASSUME NEW b \in Brokers, NEW q \in Requests,
             \/ StartList(b, q) \/ Respond(b, q)
             \/ StartCall(b, q) \/ Resolve(b, q) \/ Execute(b, q)
             \/ Lock(b, q) \/ DiscoverFails(b, q) \/ DiscoverMalformed(b, q) \/ Discover(b, q)
             \/ Store(b, q) \/ StoreFails(b, q) \/ Adopt(b, q) \/ Notify(b, q)
      PROVE  \A a \in Brokers : Local(a)'
  <2>1. Local(b)'  BY <1>2, MovesLocal, DiscoversLocal, AdoptLocal, WritesLocal
  <2>2. \A a \in Brokers \ {b} : Local(a)'
    <3>1. \A a \in Brokers \ {b} : Still(a)  BY <1>2, OthersStill
    <3>. QED  BY <3>1, StaysLocal
  <2>. QED  BY <2>1, <2>2
<1>3. ASSUME Change PROVE \A a \in Brokers : Local(a)'
  <2>1. PICK t \in Tools, d \in Definitions \cup {None} : past' = [past EXCEPT ![t] = @ \cup {d}]
    BY <1>3 DEF Change
  <2>2. \A u \in Tools : past[u] \subseteq past'[u]  BY <2>1 DEF Typed, TypeOK
  <2>3. UNCHANGED <<up, staged, owes, pc, active, cached, changed, loaded, unavailable, view,
                    notice, stale>>
    BY <1>3 DEF Change, catalogVars, refreshVars, clientVars
  <2>4. ASSUME NEW a \in Brokers PROVE Local(a)'
    <3>1. Off(a)' /\ Extends(a)' /\ Informs(a)'
      BY <2>3 DEF Local, Off, Extends, Keeps, Informs
    <3>2. Agrees(a)'
      <4>1. Agree(cached[a], active[a], changed[a])
            /\ Agree(staged[a].cached, staged[a].active, staged[a].changed)
        BY DEF Local, Agrees
      <4>2. Agree(cached[a], active[a], changed[a])'
        BY <2>2, <2>3, <4>1 DEF Agree, Stays, Tools
      <4>3. Agree(staged[a].cached, staged[a].active, staged[a].changed)'
        BY <2>2, <2>3, <4>1 DEF Agree, Stays, Tools
      <4>. QED  BY <4>2, <4>3 DEF Agrees
    <3>. QED  BY <3>1, <3>2 DEF Local
  <2>. QED  BY <2>4
<1>4. Lists \subseteq Requests /\ Calls \subseteq Requests  BY DEF Requests
<1>. QED  BY <1>1, <1>2, <1>3, <1>4 DEF Next

-----------------------------------------------------------------------------
(* One broker, and the file. *)

\* To keep the public schemas is reflexive and transitive.
LEMMA KeepsIsAnOrder ==
  /\ \A s : Keeps(s, s)
  /\ \A r, s, t : Keeps(r, s) /\ Keeps(s, t) => Keeps(r, t)
BY DEF Keeps

\* A request moves, to a point other than the adoption; the file and the catalog stay.
LEMMA QuietFile ==
  ASSUME Typed, NEW b \in Brokers, Durable(b), NEW q \in Requests, NEW point \in Points,
         Goto(b, q, point), pc[b][q] # "adopt", point # "adopt",
         UNCHANGED <<disk, up, cached>>, staged' = staged \/ pc[b][q] \in Holding
  PROVE  Durable(b)'
<1>1. pc'[b][q] = point /\ \A r \in Requests \ {q} : pc'[b][r] = pc[b][r]
  BY Moves DEF Typed
<1>2. staged' = staged \/ Alone(b, q)  BY HolderIsAlone DEF Typed
<1>. QED  BY <1>1, <1>2 DEF Durable, Keeps, Alone, Holding

\* The file has what is adopted.
LEMMA DurableStep ==
  ASSUME Typed, \A b \in Brokers : Local(b), OneBroker, \A b \in Brokers : Durable(b), Next
  PROVE  \A b \in Brokers : Durable(b)'
<1>. SUFFICES ASSUME NEW b \in Brokers PROVE Durable(b)'
  OBVIOUS
<1>. USE DEF upstreamVars, catalogVars, refreshVars, requestVars, clientVars
<1>0. Durable(b) /\ Local(b) /\ \A a \in Brokers : a = b
  BY DEF OneBroker
<1>1. ASSUME NEW q \in Requests, NEW point \in Points, Goto(b, q, point)
      PROVE  /\ pc'[b][q] = point
             /\ pc[b][q] \in Holding => \A r \in Requests \ {q} : pc'[b][r] \notin Holding
  BY <1>1, Moves, HolderIsAlone DEF Typed, Alone
<1>2. ASSUME NEW q \in Requests,
             \/ StartList(b, q) \/ Respond(b, q)
             \/ StartCall(b, q) \/ Resolve(b, q) \/ Execute(b, q)
             \/ Lock(b, q) \/ DiscoverFails(b, q) \/ DiscoverMalformed(b, q) \/ Notify(b, q)
      PROVE  Durable(b)'
  <2>1. pc[b][q] # "adopt" /\ UNCHANGED <<disk, up, cached, staged>>
    BY <1>2 DEF StartList, Respond, StartCall, Resolve, Execute, Lock, DiscoverFails,
                DiscoverMalformed, Notify
  <2>2. PICK point \in Points \ {"adopt"} : Goto(b, q, point)
    <3>1. CASE DiscoverFails(b, q) \/ DiscoverMalformed(b, q)
      <4>1. Continue(b, q, FALSE)  BY <3>1 DEF DiscoverFails, DiscoverMalformed
      <4>2. \E point \in {"respond", "notify", "resolve", "done"} : Goto(b, q, point)
        BY <4>1, Continues
      <4>. QED  BY <4>2 DEF Points
    <3>2. CASE ~(DiscoverFails(b, q) \/ DiscoverMalformed(b, q))
      <4>1. \E point \in {"notify", "resolve", "done", "lock", "execute", "discover"} :
              Goto(b, q, point)
        BY <1>2, <3>2 DEF StartList, Respond, StartCall, Resolve, Execute, Lock, Notify
      <4>. QED  BY <4>1 DEF Points
    <3>. QED  BY <3>1, <3>2
  <2>. QED  BY <1>0, <2>1, <2>2, QuietFile
<1>3. ASSUME NEW q \in Requests, Discover(b, q) PROVE Durable(b)'
  <2>1. pc[b][q] = "discover" /\ UNCHANGED <<disk, up, cached>>  BY <1>3 DEF Discover
  <2>2. CASE staged'[b].cached = cached[b]
    <3>1. Goto(b, q, "adopt") /\ "adopt" \in Points  BY <1>3, <2>2 DEF Discover, Points
    <3>2. b \in up => Keeps(staged'[b].cached, disk') /\ Keeps(cached'[b], disk')
      BY <1>0, <2>1, <2>2 DEF Durable
    <3>3. pc'[b][q] = "adopt" /\ \A r \in Requests \ {q} : pc'[b][r] # "adopt"
      BY <1>1, <2>1, <3>1 DEF Holding
    <3>. QED  BY <2>1, <3>2, <3>3 DEF Durable, Keeps
  <2>3. CASE staged'[b].cached # cached[b]
    <3>1. Goto(b, q, "rename") /\ "rename" \in Points  BY <1>3, <2>3 DEF Discover, Points
    <3>. QED  BY <1>0, <2>1, <3>1, QuietFile DEF Holding
  <2>. QED  BY <2>2, <2>3
<1>4. ASSUME NEW q \in Requests, Store(b, q) PROVE Durable(b)'
  <2>1. /\ pc[b][q] = "rename" /\ Goto(b, q, "adopt") /\ "adopt" \in Points
        /\ disk' = staged[b].cached /\ UNCHANGED <<up, cached, staged>>
    BY <1>4 DEF Store, Points
  <2>2. Keeps(cached[b], staged[b].cached)  BY <1>0, <2>1 DEF Local, Extends
  <2>3. Keeps(staged'[b].cached, disk') /\ Keeps(cached'[b], disk')
    BY <2>1, <2>2, KeepsIsAnOrder
  <2>4. pc'[b][q] = "adopt" /\ \A r \in Requests \ {q} : pc'[b][r] # "adopt"
    BY <1>1, <2>1 DEF Holding
  <2>. QED  BY <2>3, <2>4 DEF Durable, Keeps
<1>5. ASSUME NEW q \in Requests, StoreFails(b, q) PROVE Durable(b)'
  <2>1. /\ pc[b][q] = "rename" /\ Goto(b, q, "adopt") /\ "adopt" \in Points
        /\ UNCHANGED <<disk, up, cached>>
    BY <1>5 DEF StoreFails, Points
  <2>2. staged' = [staged EXCEPT ![b] = Left(b)]  BY <1>5, Leaves
  <2>3. staged'[b].cached = [t \in Tools |-> IF t \in Unfrozen(b) THEN None ELSE staged[b].cached[t]]
    BY <2>2 DEF Typed, Left
  <2>4. Keeps(cached[b], staged[b].cached)  BY <1>0, <2>1 DEF Local, Extends
  <2>5. Keeps(staged'[b].cached, cached[b])
    BY <2>3, <2>4 DEF Keeps, Unfrozen, Tools
  <2>6. b \in up => Keeps(cached[b], disk)  BY <1>0 DEF Durable
  <2>7. b \in up => Keeps(staged'[b].cached, disk)  BY <2>5, <2>6, KeepsIsAnOrder
  <2>8. b \in up => Keeps(staged'[b].cached, disk') /\ Keeps(cached'[b], disk')
    BY <2>1, <2>6, <2>7
  <2>9. pc'[b][q] = "adopt" /\ \A r \in Requests \ {q} : pc'[b][r] # "adopt"
    BY <1>1, <2>1 DEF Holding
  <2>. QED  BY <2>1, <2>8, <2>9 DEF Durable, Keeps
<1>6. ASSUME NEW q \in Requests, Adopt(b, q) PROVE Durable(b)'
  <2>1. /\ pc[b][q] = "adopt" /\ UNCHANGED <<disk, up>> /\ cached'[b] = staged[b].cached
        /\ Continue(b, q, MustNotify(b)) /\ MustNotify(b) \in BOOLEAN
    BY <1>6 DEF Adopt, Typed, TypeOK, MustNotify
  <2>2. PICK point \in {"respond", "notify", "resolve", "done"} : Goto(b, q, point)
    BY <2>1, Continues
  <2>3. \A r \in Requests : pc'[b][r] # "adopt"
    BY <1>1, <2>1, <2>2 DEF Points, Holding
  <2>4. b \in up => Keeps(staged[b].cached, disk)  BY <1>0, <2>1 DEF Durable
  <2>5. b \in up => Keeps(cached'[b], disk')  BY <2>1, <2>4
  <2>. QED  BY <2>1, <2>3, <2>5 DEF Durable, Keeps
<1>7. CASE Start(b)
  <2>1. cached'[b] \in {disk, Absent} /\ UNCHANGED <<disk, pc>> /\ b \notin up
    BY <1>7 DEF Start, Typed, TypeOK
  <2>2. \A q \in Requests : pc'[b][q] = "idle"  BY <1>0, <2>1 DEF Local, Off
  <2>3. Keeps(cached'[b], disk')  BY <2>1, KeepsIsAnOrder DEF Keeps, Absent, Tools
  <2>. QED  BY <2>2, <2>3 DEF Durable, Keeps
<1>8. CASE Crash(b)
  BY <1>8 DEF Crash, Durable
<1>9. CASE Change
  <2>1. UNCHANGED <<disk, up, pc, cached, staged>>  BY <1>9 DEF Change
  <2>. QED  BY <1>0, <2>1 DEF Durable, Keeps
<1>10. Lists \subseteq Requests /\ Calls \subseteq Requests  BY DEF Requests
<1>. QED  BY <1>0, <1>2, <1>3, <1>4, <1>5, <1>6, <1>7, <1>8, <1>9, <1>10 DEF Next

-----------------------------------------------------------------------------
(* Theorems. *)

\* The invariant holds at first.
LEMMA InitInv == Init => IInv
<1>. SUFFICES ASSUME Init PROVE IInv
  OBVIOUS
<1>0. /\ None \notin Requests
      /\ Absent \in Snapshot /\ Absent \in Offer /\ NothingStaged \in Staging
      /\ MaxCrashes \in Nat /\ MaxChanges \in Nat
  BY SnapshotAssumption DEF Absent, Snapshot, Offer, NothingStaged, Staging
<1>1. /\ pc = [b \in Brokers |-> [q \in Requests |-> "idle"]]
      /\ staged = [b \in Brokers |-> NothingStaged] /\ up = {}
      /\ lock = [b \in Brokers |-> None]
      /\ active = [b \in Brokers |-> Absent] /\ cached = [b \in Brokers |-> Absent]
      /\ changed = [b \in Brokers |-> {}] /\ owes = [b \in Brokers |-> {}]
      /\ view = [b \in Brokers |-> None]
  BY DEF Init
<1>2. /\ upstream \in Offer /\ disk \in Snapshot
      /\ past \in [Tools -> SUBSET (Definitions \cup {None})]
      /\ \A t \in Tools : upstream[t] \in past[t]
  BY <1>0 DEF Init, Offer
<1>3. pc \in [Brokers -> [Requests -> Points]] /\ \A b \in Brokers, q \in Requests : pc[b][q] = "idle"
  BY <1>1 DEF Points
<1>4. /\ answer \in [Brokers -> [Requests -> Replies]]
      /\ callee \in [Brokers -> [Requests -> Tools \cup {None}]]
  BY DEF Init, Replies
<1>5. /\ view \in [Brokers -> Offer \cup {None}]
      /\ notice \in [Brokers -> BOOLEAN] /\ stale \in [Brokers -> BOOLEAN]
      /\ loaded \in [Brokers -> BOOLEAN] /\ unavailable \in [Brokers -> BOOLEAN]
      /\ crashes \in 0 .. MaxCrashes /\ changes \in 0 .. MaxChanges
  BY <1>0 DEF Init
<1>6. Typed
  BY <1>0, <1>1, <1>2, <1>3, <1>4, <1>5 DEF Typed, TypeOK, Points, Replies
<1>7. ASSUME NEW b \in Brokers PROVE Local(b) /\ Durable(b)
  <2>1. /\ Agree(NothingStaged.cached, NothingStaged.active, NothingStaged.changed)
        /\ Agree(Absent, Absent, {})
    BY NothingAgrees
  <2>2. staged[b] = NothingStaged /\ cached[b] = Absent /\ active[b] = Absent /\ changed[b] = {}
        /\ owes[b] = {} /\ view[b] = None /\ b \notin up
    BY <1>1
  <2>3. Off(b) /\ Agrees(b)  BY <1>3, <2>1, <2>2 DEF Off, Agrees
  <2>4. Extends(b) /\ Informs(b) /\ Durable(b)
    BY <1>3, <2>2 DEF Extends, NothingStaged, Informs, Durable
  <2>. QED  BY <2>3, <2>4 DEF Local
<1>. QED  BY <1>6, <1>7 DEF IInv

\* Every step keeps it.
LEMMA StepInv == IInv /\ [Next]_vars => IInv'
<1>. SUFFICES ASSUME IInv, [Next]_vars PROVE IInv'
  OBVIOUS
<1>1. CASE Next
  BY <1>1, TypeStep, LocalStep, DurableStep DEF IInv, OneBroker
<1>2. CASE UNCHANGED vars
  <2>. USE DEF vars, upstreamVars, catalogVars, refreshVars, requestVars, clientVars
  <2>1. Typed'  BY <1>2 DEF IInv, Typed, TypeOK
  <2>2. ASSUME NEW a \in Brokers PROVE Local(a)'
    <3>1. Local(a) /\ Still(a)  BY <1>2 DEF IInv, Still
    <3>. QED  BY <3>1, StaysLocal
  <2>3. OneBroker => \A a \in Brokers : Durable(a)'
    BY <1>2 DEF IInv, Durable, Keeps
  <2>. QED  BY <2>1, <2>2, <2>3 DEF IInv, OneBroker
<1>. QED  BY <1>1, <1>2

\* The catalog is consistent in every state that brokers, clients, upstream and
\* crashes can bring about.
THEOREM Invariance == Spec => []IInv
BY InitInv, StepInv, PTL DEF Spec

\* Every value the catalog keeps is one it should have, and only the holder of refresh_lock
\* is between its discovery and the adoption.
THEOREM TypeCorrect == Spec => []TypeOK
<1>1. IInv => TypeOK  BY DEF IInv, Typed
<1>. QED  BY <1>1, Invariance, PTL

\* CatalogState.changed has exactly the tools that were known and are not offered.
THEOREM ReasonIsGiven == Spec => []ReasonGiven
<1>1. IInv => ReasonGiven
  BY DEF IInv, Typed, TypeOK, Local, Agrees, Agree, ReasonGiven
<1>. QED  BY <1>1, Invariance, PTL

\* A client with nothing under way knows the catalog, or was told to ask again.
THEOREM ClientStaysInformed == Spec => []ClientInformed
<1>1. ASSUME IInv PROVE ClientInformed
  <2>. SUFFICES ASSUME NEW b \in up, \A q \in Requests : pc[b][q] \in {"idle", "done"},
                       view[b] # None, ~stale[b]
                PROVE  view[b] = active[b] \/ notice[b]
    BY DEF ClientInformed
  <2>1. b \in Brokers /\ owes[b] \subseteq Requests  BY <1>1 DEF IInv, Typed, TypeOK
  <2>2. Informs(b)  BY <1>1, <2>1 DEF IInv, Local
  <2>3. owes[b] = {}  BY <2>1, <2>2 DEF Informs
  <2>. QED  BY <2>2, <2>3 DEF Informs
<1>. QED  BY <1>1, Invariance, PTL

\* With one broker, a restricted tool is offered with the public schema that is stored:
\* CatalogCache::store comes before the adoption, and what could not be stored is left out.
THEOREM PublicIsDurable == ASSUME OneBroker PROVE Spec => []DurableBeforePublic
<1>1. ASSUME IInv PROVE DurableBeforePublic
  <2>. SUFFICES ASSUME NEW b \in up, NEW t \in Restricted, active[b][t] # None
                PROVE  disk[t] # None /\ disk[t].public = active[b][t]
    BY DEF DurableBeforePublic
  <2>1. b \in Brokers /\ t \in Tools  BY <1>1 DEF IInv, Typed, TypeOK, Tools
  <2>2. Durable(b) /\ Agree(cached[b], active[b], changed[b])
    BY <1>1, <2>1 DEF IInv, Local, Agrees
  <2>3. cached[b][t] # None /\ cached[b][t].public = active[b][t]
    BY <2>1, <2>2 DEF Agree
  <2>4. Keeps(cached[b], disk)
    BY <2>2 DEF Durable
  <2>. QED  BY <2>3, <2>4 DEF Keeps
<1>. QED  BY <1>1, Invariance, PTL

\* With one broker, a restricted tool stays offered while every definition it ever had fits
\* the schema that is stored of it.
THEOREM OffersStay == ASSUME OneBroker PROVE Spec => []StaysOffered
<1>1. ASSUME IInv PROVE StaysOffered
  <2>. SUFFICES ASSUME NEW b \in up, NEW t \in Restricted, cached[b][t] # None, disk[t] # None,
                       AlwaysFitting(t)
                PROVE  active[b][t] # None
    BY DEF StaysOffered
  <2>1. b \in Brokers  BY <1>1 DEF IInv, Typed, TypeOK
  <2>2. Durable(b) /\ Agree(cached[b], active[b], changed[b])
    BY <1>1, <2>1 DEF IInv, Local, Agrees
  <2>3. cached[b][t].public = disk[t].public
    <3>1. Keeps(cached[b], disk)  BY <2>2 DEF Durable
    <3>. QED  BY <3>1 DEF Keeps
  <2>4. Stays(t, cached[b][t].public)  BY <2>3 DEF AlwaysFitting, Stays
  <2>. QED  BY <2>2, <2>4 DEF Agree
<1>. QED  BY <1>1, Invariance, PTL

\* Only a store changes the file.
LEMMA Stores ==
  ASSUME [Next]_vars
  PROVE  (\E b \in Brokers, q \in Requests : Store(b, q)) \/ disk' = disk
<1>1. ASSUME NEW b \in Brokers, Start(b) \/ Crash(b) PROVE disk' = disk
  BY <1>1 DEF Start, Crash
<1>2. ASSUME NEW b \in Brokers, NEW q \in Requests,
             \/ StartList(b, q) \/ Respond(b, q)
             \/ StartCall(b, q) \/ Resolve(b, q) \/ Execute(b, q)
             \/ Lock(b, q) \/ DiscoverFails(b, q) \/ DiscoverMalformed(b, q) \/ Discover(b, q)
             \/ StoreFails(b, q) \/ Adopt(b, q) \/ Notify(b, q)
      PROVE  disk' = disk
  BY <1>2 DEF StartList, Respond, StartCall, Resolve, Execute, Lock, DiscoverFails,
              DiscoverMalformed, Discover, StoreFails, Adopt, Notify
<1>3. CASE Change  BY <1>3 DEF Change
<1>4. CASE UNCHANGED vars  BY <1>4 DEF vars
<1>. QED  BY <1>1, <1>2, <1>3, <1>4 DEF Next, Requests

\* A broker that stays up changes its snapshots only where it adopts others.
LEMMA Adopts ==
  ASSUME Typed, [Next]_vars, NEW b \in Brokers, b \in up, b \in up'
  PROVE  cached'[b] = cached[b] \/ \E q \in Requests : Adopt(b, q)
<1>. USE DEF catalogVars
<1>1. ASSUME NEW a \in Brokers, Start(a) \/ Crash(a) PROVE cached'[b] = cached[b]
  <2>1. a # b  BY <1>1 DEF Start, Crash
  <2>2. cached' = [cached EXCEPT ![a] = cached'[a]]
    BY <1>1 DEF Start, Crash, Typed, TypeOK
  <2>. QED  BY <2>1, <2>2 DEF Typed, TypeOK
<1>2. ASSUME NEW a \in Brokers, NEW q \in Requests,
             \/ StartList(a, q) \/ Respond(a, q)
             \/ StartCall(a, q) \/ Resolve(a, q) \/ Execute(a, q)
             \/ Lock(a, q) \/ DiscoverFails(a, q) \/ DiscoverMalformed(a, q) \/ Discover(a, q)
             \/ Store(a, q) \/ StoreFails(a, q) \/ Notify(a, q)
      PROVE  cached' = cached
  BY <1>2 DEF StartList, Respond, StartCall, Resolve, Execute, Lock, DiscoverFails,
              DiscoverMalformed, Discover, Store, StoreFails, Notify
<1>3. ASSUME NEW a \in Brokers, NEW q \in Requests, Adopt(a, q), a # b
      PROVE  cached'[b] = cached[b]
  BY <1>3 DEF Adopt, Typed, TypeOK
<1>4. CASE Change  BY <1>4 DEF Change
<1>5. CASE UNCHANGED vars  BY <1>5 DEF vars
<1>. QED  BY <1>1, <1>2, <1>3, <1>4, <1>5 DEF Next, Requests

\* With any number of brokers: a broker keeps the public schemas it has as long as it runs,
\* and only a store of a broker that did not load a stored one, or froze another, replaces it.
THEOREM FrozenStaysFrozen == Spec => FrozenStays
<1>1. ASSUME IInv, [Next]_vars, NEW t \in Restricted PROVE Kept(t)
  <2>1. ASSUME NEW b \in up \cap up' PROVE Frozen(cached[b][t], cached'[b][t])
    <3>1. b \in Brokers /\ Local(b) /\ Typed  BY <1>1 DEF IInv, Typed, TypeOK
    <3>2. cached'[b] = cached[b] \/ \E q \in Requests : Adopt(b, q)
      BY <1>1, <2>1, <3>1, Adopts
    <3>3. ASSUME NEW q \in Requests, Adopt(b, q) PROVE Frozen(cached[b][t], cached'[b][t])
      <4>1. pc[b][q] = "adopt" /\ cached'[b] = staged[b].cached
        BY <3>1, <3>3 DEF Adopt, Typed, TypeOK
      <4>2. Keeps(cached[b], staged[b].cached)  BY <3>1, <4>1 DEF Local, Extends
      <4>. QED  BY <4>1, <4>2 DEF Keeps, Frozen
    <3>. QED  BY <3>2, <3>3 DEF Frozen
  <2>2. Frozen(disk[t], disk'[t]) \/ \E b \in up : Unaware(b, t) /\ disk' = staged[b].cached
    <3>1. (\E b \in Brokers, q \in Requests : Store(b, q)) \/ disk' = disk
      BY <1>1, Stores
    <3>2. ASSUME NEW b \in Brokers, NEW q \in Requests, Store(b, q), ~Unaware(b, t)
          PROVE  Frozen(disk[t], disk'[t])
      <4>1. pc[b][q] = "rename" /\ disk' = staged[b].cached  BY <3>2 DEF Store
      <4>2. cached[b][t] # None /\ cached[b][t].public = disk[t].public
        BY <3>2, <4>1 DEF Unaware
      <4>3. Keeps(cached[b], staged[b].cached)  BY <1>1, <4>1 DEF IInv, Local, Extends
      <4>. QED  BY <4>1, <4>2, <4>3 DEF Keeps, Frozen
    <3>3. ASSUME NEW b \in Brokers, NEW q \in Requests, Store(b, q)
          PROVE  b \in up /\ disk' = staged[b].cached
      <4>1. pc[b][q] = "rename" /\ disk' = staged[b].cached  BY <3>3 DEF Store
      <4>. QED  BY <1>1, <4>1, Runs DEF IInv
    <3>4. CASE disk' = disk  BY <3>4 DEF Frozen
    <3>. QED  BY <3>1, <3>2, <3>3, <3>4
  <2>. QED  BY <2>1, <2>2 DEF Kept
<1>2. IInv /\ [Next]_vars => [\A t \in Restricted : Kept(t)]_vars  BY <1>1
<1>. QED  BY <1>2, Invariance, PTL DEF Spec, FrozenStays
=============================================================================
