----------------------------- MODULE V2Catalog ------------------------------
(***************************************************************************)
(* The catalog of version-2 exposures (crates/boundary/src/v2_catalog.rs),  *)
(* its persistent snapshots (catalog_cache.rs) and the handlers that use it *)
(* (main.rs), for one upstream target, with crashes and restarts.           *)
(*                                                                          *)
(* The public schema of a restricted tool is the definition it was derived  *)
(* from. How it is derived, and which later definitions are compatible with *)
(* it, is Exposure's subject and given here by two relations.               *)
(***************************************************************************)
EXTENDS Naturals, FiniteSets

CONSTANTS
  Brokers,     \* broker processes of one configuration
  Restricted,  \* exposed tools with a restriction
  Proxies,     \* exposed tools without one
  Lists,       \* tools/list requests; a request that is done is sent again
  Calls,       \* tools/call requests
  Definitions, \* definitions of a tool
  Derivable,   \* those a public schema can be derived from
  Compatible,  \* pairs: a public schema and a definition it still fits
  None,        \* nothing
  MaxChanges,  \* definitions the upstream changes
  MaxCrashes   \* brokers that crash

Tools == Restricted \cup Proxies
Requests == Lists \cup Calls
Absent == [t \in Tools |-> None]
Entry == [upstream : Definitions, public : Definitions]

ASSUME SnapshotAssumption ==
  /\ IsFiniteSet(Tools) /\ IsFiniteSet(Requests)
  /\ Restricted \cap Proxies = {} /\ Lists \cap Calls = {}
  /\ None \notin Definitions \cup Requests \cup Tools \cup Entry
  /\ Compatible \subseteq Derivable \X Definitions
  /\ Derivable \subseteq Definitions /\ \A d \in Derivable : <<d, d>> \in Compatible
  /\ MaxChanges \in Nat /\ MaxCrashes \in Nat

VARIABLES
  upstream,   \* the definitions the upstream lists
  past,       \* every definition of a tool that it ever had
  disk,       \* the entry file of the target
  up,         \* running brokers
  active,     \* CatalogState.active
  cached,     \* CatalogState.cached, of the target
  loaded,     \* CatalogState.cached has the target
  changed,    \* CatalogState.changed
  unavailable, \* CatalogState.unavailable
  lock,       \* who holds refresh_lock
  staged,     \* next_cached, next_active, tombstones of the refresh under way
  owes,       \* requests whose refresh changed the catalog
  pc, callee, answer, \* of each request
  view, notice, \* what the client was last given, and whether to ask again
  stale,      \* what it was given rests on no discovery, not even a failed one
  crashes, changes

upstreamVars == <<upstream, past, changes>>
catalogVars == <<active, cached, loaded, changed, unavailable>>
refreshVars == <<lock, staged, owes>>
requestVars == <<callee, answer>>
clientVars == <<view, notice, stale>>
vars == <<upstreamVars, disk, up, catalogVars, refreshVars, pc, requestVars, clientVars, crashes>>

Offer == [Tools -> Definitions \cup {None}]
Snapshot == [Tools -> Entry \cup {None}]

TypeOK ==
  /\ upstream \in Offer /\ disk \in Snapshot
  /\ past \in [Tools -> SUBSET (Definitions \cup {None})]
  /\ up \subseteq Brokers
  /\ active \in [Brokers -> Offer] /\ cached \in [Brokers -> Snapshot]
  /\ loaded \in [Brokers -> BOOLEAN] /\ unavailable \in [Brokers -> BOOLEAN]
  /\ changed \in [Brokers -> SUBSET Tools]
  /\ lock \in [Brokers -> Requests \cup {None}]
  /\ owes \in [Brokers -> SUBSET Requests]
  /\ \A b \in Brokers, q \in Requests : pc[b][q] \in {"discover", "rename", "adopt"} => lock[b] = q
  /\ pc \in [Brokers -> [Requests -> {"idle", "lock", "discover", "rename", "adopt", "respond",
                                      "notify", "resolve", "execute", "done"}]]
  /\ callee \in [Brokers -> [Requests -> Tools \cup {None}]]
  /\ answer \in [Brokers -> [Requests -> {"none", "listed", "executed", "TARGET_UNAVAILABLE",
                                          "TOOL_DEFINITION_CHANGED"}]]
  /\ view \in [Brokers -> Offer \cup {None}]
  /\ notice \in [Brokers -> BOOLEAN] /\ stale \in [Brokers -> BOOLEAN]
  /\ crashes \in 0 .. MaxCrashes /\ changes \in 0 .. MaxChanges

\* What V2Catalog::new makes of the entry file.
Offered(snapshot) == [t \in Tools |-> IF snapshot[t] = None THEN None ELSE snapshot[t].public]
NothingStaged == [cached |-> Absent, active |-> Absent, changed |-> {}]

Init ==
  /\ upstream \in [Tools -> Definitions \cup {None}]
  /\ past = [t \in Tools |-> {upstream[t]}]
  /\ disk = Absent
  /\ up = {}
  /\ active = [b \in Brokers |-> Absent] /\ cached = [b \in Brokers |-> Absent]
  /\ loaded = [b \in Brokers |-> FALSE] /\ unavailable = [b \in Brokers |-> FALSE]
  /\ changed = [b \in Brokers |-> {}]
  /\ lock = [b \in Brokers |-> None]
  /\ staged = [b \in Brokers |-> NothingStaged] /\ owes = [b \in Brokers |-> {}]
  /\ pc = [b \in Brokers |-> [q \in Requests |-> "idle"]]
  /\ callee = [b \in Brokers |-> [q \in Requests |-> None]]
  /\ answer = [b \in Brokers |-> [q \in Requests |-> "none"]]
  /\ view = [b \in Brokers |-> None]
  /\ notice = [b \in Brokers |-> FALSE] /\ stale = [b \in Brokers |-> FALSE]
  /\ crashes = 0 /\ changes = 0

Goto(b, q, point) == pc' = [pc EXCEPT ![b][q] = point]

-----------------------------------------------------------------------------
(* A broker starts, with the snapshots its predecessor stored; it may crash   *)
(* at any point, and its clients with it.                                     *)

\* V2Catalog::new. An entry file that cannot be opened or read is no entry.
Start(b) ==
  /\ b \notin up
  /\ up' = up \cup {b}
  /\ \E snapshot \in {disk, Absent} :
       /\ cached' = [cached EXCEPT ![b] = snapshot]
       /\ active' = [active EXCEPT ![b] = Offered(snapshot)]
       /\ loaded' = [loaded EXCEPT ![b] = snapshot # Absent]
  /\ UNCHANGED <<upstreamVars, disk, changed, unavailable, refreshVars, pc, requestVars, clientVars, crashes>>

Crash(b) ==
  /\ b \in up /\ crashes < MaxCrashes
  /\ crashes' = crashes + 1
  /\ up' = up \ {b}
  /\ lock' = [lock EXCEPT ![b] = None]
  /\ staged' = [staged EXCEPT ![b] = NothingStaged] /\ owes' = [owes EXCEPT ![b] = {}]
  /\ pc' = [pc EXCEPT ![b] = [q \in Requests |-> "idle"]]
  /\ callee' = [callee EXCEPT ![b] = [q \in Requests |-> None]]
  /\ answer' = [answer EXCEPT ![b] = [q \in Requests |-> "none"]]
  /\ view' = [view EXCEPT ![b] = None]
  /\ notice' = [notice EXCEPT ![b] = FALSE] /\ stale' = [stale EXCEPT ![b] = FALSE]
  /\ active' = [active EXCEPT ![b] = Absent] /\ cached' = [cached EXCEPT ![b] = Absent]
  /\ changed' = [changed EXCEPT ![b] = {}]
  /\ loaded' = [loaded EXCEPT ![b] = FALSE]
  /\ unavailable' = [unavailable EXCEPT ![b] = FALSE]
  /\ UNCHANGED <<upstreamVars, disk>>

-----------------------------------------------------------------------------
(* refresh_target. *)

\* Mutant of Keep: a restricted tool is projected like a proxy.
KeepCurrent(t, old, d) == [upstream |-> d, public |-> d]

\* The next cache entry of a tool that is listed (projected_tool): a proxy takes
\* the current definition, a restricted tool keeps the public schema it has.
Keep(t, old, d) ==
  IF t \in Proxies THEN [upstream |-> d, public |-> d]
  ELSE IF old = None THEN (IF d \in Derivable THEN [upstream |-> d, public |-> d] ELSE None)
  ELSE IF <<old.public, d>> \in Compatible THEN [old EXCEPT !.upstream = d] ELSE old

\* The tool is offered as its entry says.
Fits(t, old, d) ==
  d # None /\ (t \in Proxies \/ (IF old = None THEN d \in Derivable
                                 ELSE <<old.public, d>> \in Compatible))

\* Mutant of Reasons: a tool that is no longer listed is forgotten.
ReasonsOfListed(previous, found) ==
  {t \in Tools : found[t] # None /\ ~Fits(t, previous[t], found[t]) /\ previous[t] # None}

\* The tools that were known and are not offered any more.
Reasons(previous, found) ==
  {t \in Tools : ~Fits(t, previous[t], found[t]) /\ previous[t] # None}

Stage(previous, found) ==
  LET next == [t \in Tools |-> IF found[t] = None THEN previous[t]
                               ELSE Keep(t, previous[t], found[t])]
  IN  [cached |-> next,
       active |-> [t \in Tools |-> IF Fits(t, previous[t], found[t]) THEN next[t].public ELSE None],
       changed |-> Reasons(previous, found)]

\* What a request does when its refresh is over: a list is answered before the
\* change is announced, a call after it.
Continue(b, q, owed) ==
  Goto(b, q, IF q \in Lists THEN "respond" ELSE IF owed THEN "notify"
             ELSE IF answer[b][q] = "none" THEN "resolve" ELSE "done")

\* Mutant of Lock: refreshes of two requests overlap.
LockAnyway(b, q) ==
  /\ pc[b][q] = "lock"
  /\ lock' = [lock EXCEPT ![b] = q]
  /\ Goto(b, q, "discover")
  /\ UNCHANGED <<upstreamVars, disk, up, catalogVars, staged, owes, requestVars, clientVars, crashes>>

Lock(b, q) ==
  /\ pc[b][q] = "lock" /\ lock[b] = None
  /\ lock' = [lock EXCEPT ![b] = q]
  /\ Goto(b, q, "discover")
  /\ UNCHANGED <<upstreamVars, disk, up, catalogVars, staged, owes, requestVars, clientVars, crashes>>

\* Mutant of DiscoverFails: an outage empties the catalog.
DiscoverFailsClearing(b, q) ==
  /\ pc[b][q] = "discover"
  /\ unavailable' = [unavailable EXCEPT ![b] = TRUE]
  /\ active' = [active EXCEPT ![b] = Absent]
  /\ lock' = [lock EXCEPT ![b] = None]
  /\ Continue(b, q, FALSE)
  /\ UNCHANGED <<upstreamVars, disk, up, cached, loaded, changed, staged, owes, requestVars,
                 clientVars, crashes>>

DiscoverFails(b, q) ==
  /\ pc[b][q] = "discover"
  /\ unavailable' = [unavailable EXCEPT ![b] = TRUE]
  /\ lock' = [lock EXCEPT ![b] = None]
  /\ Continue(b, q, FALSE)
  /\ UNCHANGED <<upstreamVars, disk, up, active, cached, loaded, changed, staged, owes,
                 requestVars, clientVars, crashes>>

\* A tool without a name, or two of one name: the refresh ends, and nothing is noted.
DiscoverMalformed(b, q) ==
  /\ pc[b][q] = "discover"
  /\ lock' = [lock EXCEPT ![b] = None]
  /\ Continue(b, q, FALSE)
  /\ UNCHANGED <<upstreamVars, disk, up, catalogVars, staged, owes, requestVars, clientVars,
                 crashes>>

Discover(b, q) ==
  /\ pc[b][q] = "discover"
  /\ staged' = [staged EXCEPT ![b] = Stage(cached[b], upstream)]
  /\ Goto(b, q, IF staged'[b].cached = cached[b] THEN "adopt" ELSE "rename")
  /\ UNCHANGED <<upstreamVars, disk, up, catalogVars, lock, owes, requestVars, clientVars, crashes>>

\* CatalogCache::store replaces the entry file at once, by a rename.
Store(b, q) ==
  /\ pc[b][q] = "rename"
  /\ disk' = staged[b].cached
  /\ Goto(b, q, "adopt")
  /\ UNCHANGED <<upstreamVars, up, catalogVars, refreshVars, requestVars, clientVars, crashes>>

\* Mutant of StoreFails: the new schema is offered all the same.
StoreFailsIgnored(b, q) ==
  /\ pc[b][q] = "rename"
  /\ Goto(b, q, "adopt")
  /\ UNCHANGED <<upstreamVars, disk, up, catalogVars, refreshVars, requestVars, clientVars,
                 crashes>>

\* It fails, or there is no cache: what would be frozen now is not offered.
StoreFails(b, q) ==
  /\ pc[b][q] = "rename"
  /\ LET New(t) == t \in Restricted /\ cached[b][t] = None
     IN  staged' = [staged EXCEPT
           ![b].cached = [t \in Tools |-> IF New(t) THEN None ELSE @[t]],
           ![b].active = [t \in Tools |-> IF New(t) THEN None ELSE @[t]]]
  /\ Goto(b, q, "adopt")
  /\ UNCHANGED <<upstreamVars, disk, up, catalogVars, lock, owes, requestVars, clientVars, crashes>>

\* Mutant of MustNotify: a recovery is announced only if it changes a catalog that
\* was there before.
MustNotifyOnChange(b) == loaded[b] /\ staged[b].active # active[b]

\* The catalog recovered, or a catalog the client may have seen has changed.
MustNotify(b) ==
  unavailable[b] \/ ((loaded[b] \/ active[b] # Absent) /\ staged[b].active # active[b])

Adopt(b, q) ==
  /\ pc[b][q] = "adopt"
  /\ active' = [active EXCEPT ![b] = staged[b].active]
  /\ cached' = [cached EXCEPT ![b] = staged[b].cached]
  /\ changed' = [changed EXCEPT ![b] = staged[b].changed]
  /\ loaded' = [loaded EXCEPT ![b] = TRUE]
  /\ unavailable' = [unavailable EXCEPT ![b] = FALSE]
  /\ lock' = [lock EXCEPT ![b] = None]
  /\ staged' = [staged EXCEPT ![b] = NothingStaged]
  /\ owes' = IF MustNotify(b) THEN [owes EXCEPT ![b] = @ \cup {q}] ELSE owes
  /\ Continue(b, q, MustNotify(b))
  /\ UNCHANGED <<upstreamVars, disk, up, requestVars, clientVars, crashes>>

-----------------------------------------------------------------------------
(* The handlers. *)

StartList(b, q) ==
  /\ b \in up /\ pc[b][q] \in {"idle", "done"}
  /\ answer' = [answer EXCEPT ![b][q] = "none"]
  /\ Goto(b, q, "lock")
  /\ UNCHANGED <<upstreamVars, disk, up, catalogVars, refreshVars, callee, clientVars, crashes>>

\* list_json and the writing of the response: one step, for nothing waits in between.
Respond(b, q) ==
  /\ pc[b][q] = "respond"
  /\ view' = [view EXCEPT ![b] = active[b]]
  /\ notice' = [notice EXCEPT ![b] = FALSE]
  /\ stale' = [stale EXCEPT ![b] = ~loaded[b] /\ ~unavailable[b]]
  /\ answer' = [answer EXCEPT ![b][q] = "listed"]
  /\ Goto(b, q, IF q \in owes[b] THEN "notify" ELSE "done")
  /\ UNCHANGED <<upstreamVars, disk, up, catalogVars, refreshVars, callee, crashes>>

Notify(b, q) ==
  /\ pc[b][q] = "notify"
  /\ notice' = [notice EXCEPT ![b] = TRUE]
  /\ owes' = [owes EXCEPT ![b] = @ \ {q}]
  /\ Goto(b, q, IF answer[b][q] = "none" THEN "resolve" ELSE "done")
  /\ UNCHANGED <<upstreamVars, disk, up, catalogVars, lock, staged, requestVars, view, stale,
                 crashes>>

\* A tool that is not offered is looked for before the call is refused.
StartCall(b, q) ==
  /\ b \in up /\ pc[b][q] \in {"idle", "done"}
  /\ answer' = [answer EXCEPT ![b][q] = "none"]
  /\ \E t \in Tools :
       /\ callee' = [callee EXCEPT ![b][q] = t]
       /\ Goto(b, q, IF active[b][t] = None THEN "lock" ELSE "resolve")
  /\ UNCHANGED <<upstreamVars, disk, up, catalogVars, refreshVars, clientVars, crashes>>

Resolve(b, q) ==
  /\ pc[b][q] = "resolve"
  /\ LET t == callee[b][q]
     IN  IF active[b][t] # None THEN Goto(b, q, "execute") /\ UNCHANGED answer
         ELSE /\ answer' = [answer EXCEPT ![b][q] =
                   IF t \in changed[b] THEN "TOOL_DEFINITION_CHANGED" ELSE "TARGET_UNAVAILABLE"]
              /\ Goto(b, q, "done")
  /\ UNCHANGED <<upstreamVars, disk, up, catalogVars, refreshVars, callee, clientVars, crashes>>

\* The call ends, with a result or an error; a list_changed that came with it
\* leads to a refresh before the answer is written.
Execute(b, q) ==
  /\ pc[b][q] = "execute"
  /\ answer' = [answer EXCEPT ![b][q] = "executed"]
  /\ Goto(b, q, "lock") \/ Goto(b, q, "done")
  /\ UNCHANGED <<upstreamVars, disk, up, catalogVars, refreshVars, callee, clientVars, crashes>>

\* The upstream (external): a tool's definition changes, or the tool goes or comes.
Change ==
  /\ changes < MaxChanges
  /\ changes' = changes + 1
  /\ \E t \in Tools, d \in Definitions \cup {None} :
       /\ d # upstream[t]
       /\ upstream' = [upstream EXCEPT ![t] = d]
       /\ past' = [past EXCEPT ![t] = @ \cup {d}]
  /\ UNCHANGED <<disk, up, catalogVars, refreshVars, pc, requestVars, clientVars, crashes>>

Next ==
  \/ \E b \in Brokers : Start(b) \/ Crash(b)
  \/ \E b \in Brokers, q \in Lists : StartList(b, q) \/ Respond(b, q)
  \/ \E b \in Brokers, q \in Calls : StartCall(b, q) \/ Resolve(b, q) \/ Execute(b, q)
  \/ \E b \in Brokers, q \in Requests :
       \/ Lock(b, q) \/ DiscoverFails(b, q) \/ DiscoverMalformed(b, q) \/ Discover(b, q)
       \/ Store(b, q) \/ StoreFails(b, q) \/ Adopt(b, q) \/ Notify(b, q)
  \/ Change

Spec == Init /\ [][Next]_vars
-----------------------------------------------------------------------------
(* Properties *)

\* The public schema of a restricted tool is frozen: a broker that has one keeps it as
\* long as it runs, whatever the upstream lists later, and what is stored of it is
\* replaced or dropped only by a broker that did not load it, or froze another.
Frozen(old, new) == old # None => new # None /\ new.public = old.public
Unaware(b, t) ==
  /\ \E q \in Requests : pc[b][q] = "rename"
  /\ cached[b][t] = None \/ cached[b][t].public # disk[t].public
Kept(t) ==
  /\ \A b \in up \cap up' : Frozen(cached[b][t], cached'[b][t])
  /\ Frozen(disk[t], disk'[t]) \/ \E b \in up : Unaware(b, t) /\ disk' = staged[b].cached
FrozenStays == [][\A t \in Restricted : Kept(t)]_vars

\* A restricted tool is offered with the public schema that is on the disk: a
\* restart that reads the file cannot offer another one.
DurableBeforePublic ==
  \A b \in up, t \in Restricted :
    active[b][t] # None => disk[t] # None /\ disk[t].public = active[b][t]

\* A tool that was known and is not offered has a reason, and only such a tool: a
\* client with an old catalog is told that the definition changed.
ReasonGiven ==
  \A b \in up, t \in Tools :
    (active[b][t] = None /\ cached[b][t] # None) <=> t \in changed[b]

\* A restricted tool stays offered as long as every definition it ever had fits
\* its snapshot: an outage, a malformed list, a full disk or a restart that reads
\* the snapshot takes nothing from the catalog.
AlwaysFitting(t) == \A d \in past[t] : d # None /\ <<disk[t].public, d>> \in Compatible
StaysOffered ==
  \A b \in up, t \in Restricted :
    cached[b][t] # None /\ disk[t] # None /\ AlwaysFitting(t) => active[b][t] # None

\* When nothing is under way, a client that listed the tools has the catalog, or
\* was told to ask again after its last response; unless nothing was loaded or
\* discovered before that response but malformed lists.
ClientInformed ==
  \A b \in up :
    (\A q \in Requests : pc[b][q] \in {"idle", "done"}) /\ view[b] # None /\ ~stale[b] =>
      view[b] = active[b] \/ notice[b]
=============================================================================
