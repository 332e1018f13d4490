----------------------------- MODULE V3Catalog -----------------------------
(***************************************************************************)
(* The live, policy-derived catalog of a version-3 broker                   *)
(* (crates/boundary/src/v3_catalog.rs) with the two request handlers that   *)
(* use it (main.rs, tools/list and tools/call) and what they see of the     *)
(* upstream adapter: list_tools, execute_with_cancellation, is_connected    *)
(* and take_list_changed of McpExecutor, whose inside McpSession models.    *)
(*                                                                          *)
(* Each target selects one tool. What an upstream offers is a version, a    *)
(* number; Shape says what the broker finds in it. Handlers run in          *)
(* parallel: a step goes from one await point to the next.                  *)
(***************************************************************************)
EXTENDS Naturals, FiniteSets

CONSTANTS
  Lists,       \* tools/list requests
  Calls,       \* tools/call requests
  Targets,     \* upstream targets, in the order of their ids
  TargetOf,    \* the target of a call
  Free,        \* "nobody holds the lock"
  Shape,       \* of each version: "compatible" with policy or "incompatible", or
               \* the tool is "missing" or "duplicate" in the upstream's list
  Stored,      \* bound: what earlier runs stored of a target; never a duplicate tool
  LastVersion, \* bound: the last version of each target
  MaxConns     \* bound: the connections to each target

Requests == Lists \cup Calls
Versions == DOMAIN Shape

ASSUME CatalogAssumption ==
  /\ IsFiniteSet(Requests) /\ Lists \cap Calls = {}
  /\ Free \notin Requests
  /\ Targets \subseteq Nat /\ IsFiniteSet(Targets)
  /\ TargetOf \in [Calls -> Targets]
  /\ Versions \subseteq Nat \ {0} /\ 1 \in Versions
  /\ Shape \in [Versions -> {"compatible", "incompatible", "missing", "duplicate"}]
  /\ Stored \in [Targets -> SUBSET {v \in Versions : Shape[v] # "duplicate"}]
  /\ LastVersion \in [Targets -> Versions]
  /\ \A t \in Targets : 1 .. LastVersion[t] \subseteq Versions
  /\ MaxConns \in [Targets -> Nat]

VARIABLES
  pc,          \* where each request's handler stands
  phase,       \* a call: "before" its execution, or "after" it
  todo,        \* targets the refresh in progress has not looked at
  draft,       \* what a refresh read under the state lock, and builds
  report,      \* generation and change that the refresh reports downstream
  verdict,     \* the tool state a call captured
  available,   \* RefreshOutcome.available
  outcome,     \* the answer a request gets
  sequence,    \* holder of sequence_lock (refresh_lock nests inside it)
  tools,       \* snapshot.tools: the state of each target's tool
  generation,  \* snapshot.generation
  fresh,       \* fresh_targets
  listed,      \* catalog_was_listed
  told,        \* generation of the last list response written downstream
  alerted,     \* list_changed was written after that response
  cancelled,   \* the Cancellation watch
  actor,       \* holder of each target's actor mutex
  conn,        \* number of the current connection of a target, 0 for None
  conns,       \* connections made so far
  dead,        \* targets whose connected process has exited
  flag,        \* targets with McpProcess.list_changed set
  version,     \* the definition the upstream serves
  unread,      \* targets with an unread tools/list_changed notification
  latest,      \* history: version of the last successful discovery, 0 for none
  origin,      \* history: the connection that discovery was made on
  seen         \* history: versions discovered while this broker runs

handlerVars  == <<pc, phase, todo, draft, report, verdict, available, outcome>>
catalogVars  == <<tools, generation, fresh, listed>>
clientVars   == <<told, alerted>>
sessionVars  == <<actor, conn, conns, dead, flag>>
upstreamVars == <<version, unread>>
historyVars  == <<latest, origin, seen>>
vars == <<handlerVars, sequence, catalogVars, clientVars, cancelled, sessionVars,
          upstreamVars, historyVars>>

Issues == {"REQUIRED_PROPERTY_UNSATISFIED", "UNSUPPORTED_SCHEMA", "TOOL_NOT_FOUND"}
Ready(v) == [kind |-> "ready", def |-> v, issue |-> "none"]
Blocked(i) == [kind |-> "blocked", def |-> 0, issue |-> i]
Unavailable == [kind |-> "unavailable", def |-> 0, issue |-> "none"]
ToolState == {Ready(v) : v \in Versions} \cup {Blocked(i) : i \in Issues} \cup {Unavailable}

\* project: an incompatible definition is blocked with an issue that stands for
\* any of derive_v3_public_tool's; a duplicate was replaced by a null schema.
Project(v) ==
  CASE Shape[v] = "compatible"   -> Ready(v)
    [] Shape[v] = "incompatible" -> Blocked("REQUIRED_PROPERTY_UNSATISFIED")
    [] Shape[v] = "duplicate"    -> Blocked("UNSUPPORTED_SCHEMA")
    [] Shape[v] = "missing"      -> Blocked("TOOL_NOT_FOUND")

\* Mutant of FromCache: a definition that was never retrieved is offered.
FromCacheAlways(v) == Ready(v)

\* project_or_unavailable: what the persistent cache holds of a version, 0 for
\* nothing. A missing tool has no definition there.
FromCache(v) == IF v = 0 \/ Shape[v] = "missing" THEN Unavailable ELSE Project(v)

Points == {"start", "waiting", "refresh", "discover", "discovering", "adopt", "write", "notify",
           "judge", "execute", "executing", "after", "take", "reply", "done"}
Answers == {"none", "LIST", "OK", "FAILED", "SERVER_BUSY", "CANCELLED",
            "TARGET_UNAVAILABLE", "ADMIN_ACTION_REQUIRED", "INVALID_ARGUMENTS"}
NoDraft == [tools |-> [t \in Targets |-> Unavailable], fresh |-> {}, listed |-> FALSE]
NoReport == [generation |-> 0, changed |-> FALSE]

TypeOK ==
  /\ pc \in [Requests -> Points]
  /\ phase \in [Requests -> {"before", "after"}]
  /\ todo \in [Requests -> SUBSET Targets]
  /\ draft \in [Requests -> [tools : [Targets -> ToolState], fresh : SUBSET Targets,
                             listed : BOOLEAN]]
  /\ report \in [Requests -> [generation : Nat, changed : BOOLEAN]]
  /\ verdict \in [Requests -> ToolState]
  /\ available \in [Requests -> BOOLEAN]
  /\ outcome \in [Requests -> Answers]
  /\ sequence \in Requests \cup {Free}
  /\ tools \in [Targets -> ToolState]
  /\ generation \in Nat
  /\ fresh \subseteq Targets
  /\ listed \in BOOLEAN
  /\ told \in Nat /\ alerted \in BOOLEAN
  /\ cancelled \in BOOLEAN
  /\ actor \in [Targets -> Requests \cup {Free}]
  /\ conn \in [Targets -> Nat] /\ conns \in [Targets -> Nat]
  /\ dead \subseteq Targets /\ flag \subseteq Targets /\ unread \subseteq Targets
  /\ version \in [Targets -> Versions]
  /\ latest \in [Targets -> Versions \cup {0}]
  /\ origin \in [Targets -> Nat]
  /\ seen \in [Targets -> SUBSET Versions]

\* V3Catalog::new projects what the persistent cache holds for a target, if it
\* holds anything: a definition of an earlier run, any the upstream ever had.
Init ==
  /\ pc = [r \in Requests |-> "start"]
  /\ phase = [r \in Requests |-> "before"]
  /\ todo = [r \in Requests |-> {}]
  /\ draft = [r \in Requests |-> NoDraft]
  /\ report = [r \in Requests |-> NoReport]
  /\ verdict = [r \in Requests |-> Unavailable]
  /\ available = [r \in Requests |-> TRUE]
  /\ outcome = [r \in Requests |-> "none"]
  /\ sequence = Free
  /\ tools \in {[t \in Targets |-> FromCache(cached[t])] :
                   cached \in {f \in [Targets -> Versions \cup {0}] :
                                \A t \in Targets : f[t] \in Stored[t] \cup {0}}}
  /\ generation = 0 /\ fresh = {} /\ listed = FALSE
  /\ told = 0 /\ alerted = FALSE
  /\ cancelled = FALSE
  /\ actor = [t \in Targets |-> Free]
  /\ conn = [t \in Targets |-> 0] /\ conns = [t \in Targets |-> 0]
  /\ dead = {} /\ flag = {} /\ unread = {}
  /\ version = [t \in Targets |-> 1]
  /\ latest = [t \in Targets |-> 0]
  /\ origin = [t \in Targets |-> 0]
  /\ seen = [t \in Targets |-> {}]

-----------------------------------------------------------------------------
(* Helpers *)

\* The handler returns, and its locals with it.
Forget(r) ==
  /\ phase' = [phase EXCEPT ![r] = "before"]
  /\ verdict' = [verdict EXCEPT ![r] = Unavailable]
  /\ available' = [available EXCEPT ![r] = TRUE]

Goto(r, point) == pc' = [pc EXCEPT ![r] = point]
Answer(r, code) == outcome' = [outcome EXCEPT ![r] = code]

Live(t) == conn[t] # 0 /\ t \notin dead
\* is_connected: a busy actor counts as connected.
IsConnected(t) == actor[t] # Free \/ Live(t)
\* The next target of a refresh, in BTreeSet order.
Next1(S) == CHOOSE t \in S : \A u \in S : t <= u

\* A call or discovery gets the actor; call and list_tools replace a process
\* that is missing or has exited.
Occupy(r, t) ==
  /\ actor' = [actor EXCEPT ![t] = r]
  /\ IF Live(t)
     THEN UNCHANGED <<conn, conns, dead, flag, unread>>
     ELSE /\ conns[t] < MaxConns[t]
          /\ conns' = [conns EXCEPT ![t] = @ + 1]
          /\ conn' = [conn EXCEPT ![t] = conns[t] + 1]
          /\ dead' = dead \ {t}
          /\ flag' = flag \ {t}
          /\ unread' = unread \ {t}

\* A reply was read, and every notification written before it.
ReadUpTo(t) ==
  /\ flag' = IF t \in unread THEN flag \cup {t} ELSE flag
  /\ unread' = unread \ {t}
  /\ actor' = [actor EXCEPT ![t] = Free]
  /\ UNCHANGED <<conn, conns, dead>>

\* The request failed: its process is terminated before the actor is released.
Terminate(t) ==
  /\ conn' = [conn EXCEPT ![t] = 0]
  /\ dead' = dead \ {t}
  /\ flag' = flag \ {t}
  /\ unread' = unread \ {t}
  /\ actor' = [actor EXCEPT ![t] = Free]
  /\ UNCHANGED conns

-----------------------------------------------------------------------------
(* Taking the sequence lock, and reading the state under the refresh lock.    *)

\* Mutant of LockSequence: there is no sequence lock.
LockNothing(r) == sequence' = r

LockSequence(r) == sequence = Free /\ sequence' = r

ReadState(r, ts) ==
  /\ todo' = [todo EXCEPT ![r] = ts]
  /\ draft' = [draft EXCEPT ![r] = [tools |-> tools, fresh |-> fresh, listed |-> listed]]
  /\ available' = [available EXCEPT ![r] = TRUE]

\* tools/list takes the lock and refreshes every target.
StartList(r) ==
  /\ r \in Lists /\ pc[r] = "start"
  /\ LockSequence(r)
  /\ ReadState(r, Targets)
  /\ Goto(r, "refresh")
  /\ UNCHANGED <<phase, report, verdict, outcome, catalogVars, clientVars, cancelled,
                 sessionVars, upstreamVars, historyVars>>

\* tools/call looks at the cancellation first, then takes the lock and refreshes
\* the target of its tool.
AcceptCall(r) ==
  /\ r \in Calls /\ pc[r] = "start" /\ ~cancelled
  /\ Goto(r, "waiting")
  /\ UNCHANGED <<phase, todo, draft, report, verdict, available, outcome, sequence,
                 catalogVars, clientVars, cancelled, sessionVars, upstreamVars, historyVars>>

StartCall(r) ==
  /\ pc[r] = "waiting"
  /\ LockSequence(r)
  /\ ReadState(r, {TargetOf[r]})
  /\ Goto(r, "refresh")
  /\ UNCHANGED <<phase, report, verdict, outcome, catalogVars, clientVars, cancelled,
                 sessionVars, upstreamVars, historyVars>>

\* "broker is shutting down": a call that arrives after cancellation.
RejectCall(r) ==
  /\ r \in Calls /\ pc[r] = "start" /\ cancelled
  /\ Answer(r, "TARGET_UNAVAILABLE")
  /\ Goto(r, "done")
  /\ UNCHANGED <<phase, todo, draft, report, verdict, available, sequence, catalogVars,
                 clientVars, cancelled, sessionVars, upstreamVars, historyVars>>

-----------------------------------------------------------------------------
(* Refreshing: one target after the other.                                    *)

\* refresh_all and refresh_for_call skip a fresh and connected target.
Consider(r) ==
  LET t == Next1(todo[r]) IN
  /\ pc[r] = "refresh" /\ todo[r] # {}
  /\ IF t \in draft[r].fresh /\ IsConnected(t)
     THEN todo' = [todo EXCEPT ![r] = @ \ {t}] /\ UNCHANGED pc
     ELSE Goto(r, "discover") /\ UNCHANGED todo
  /\ UNCHANGED <<phase, draft, report, verdict, available, outcome, sequence, catalogVars,
                 clientVars, cancelled, sessionVars, upstreamVars, historyVars>>

\* refresh_after_notification discovers the target whatever was known of it.
Rediscover(r) ==
  /\ pc[r] = "refresh" /\ todo[r] # {}
  /\ Goto(r, "discover")
  /\ UNCHANGED <<phase, todo, draft, report, verdict, available, outcome, sequence,
                 catalogVars, clientVars, cancelled, sessionVars, upstreamVars, historyVars>>

\* Mutants of Stale: a failed discovery leaves the target fresh; a failed
\* discovery does not make the call unavailable.
StaleKept(r, t) ==
  /\ available' = [available EXCEPT ![r] = FALSE]
  /\ UNCHANGED draft
StaleAvailable(r, t) ==
  /\ draft' = [draft EXCEPT ![r].fresh = @ \ {t}]
  /\ UNCHANGED available

\* discover_target failed: the projection stays, the target is not fresh.
Stale(r, t) ==
  /\ draft' = [draft EXCEPT ![r].fresh = @ \ {t}]
  /\ available' = [available EXCEPT ![r] = FALSE]

\* list_tools fails before it has the actor: the broker is cancelled, all global
\* slots are taken (by requests of any kind), or the target is busy.
DiscoverRefused(r) ==
  LET t == Next1(todo[r]) IN
  /\ pc[r] = "discover"
  /\ Stale(r, t)
  /\ todo' = [todo EXCEPT ![r] = @ \ {t}]
  /\ Goto(r, "refresh")
  /\ UNCHANGED <<phase, report, verdict, outcome, sequence, catalogVars, clientVars,
                 cancelled, sessionVars, upstreamVars, historyVars>>

DiscoverBegin(r) ==
  LET t == Next1(todo[r]) IN
  /\ pc[r] = "discover" /\ ~cancelled /\ actor[t] = Free
  /\ Occupy(r, t)
  /\ Goto(r, "discovering")
  /\ UNCHANGED <<phase, todo, draft, report, verdict, available, outcome, sequence,
                 catalogVars, clientVars, cancelled, version, historyVars>>

\* replace_target_projection, and the target is fresh.
DiscoverOk(r) ==
  LET t == Next1(todo[r]) IN
  /\ pc[r] = "discovering"
  /\ draft' = [draft EXCEPT ![r].tools[t] = Project(version[t]), ![r].fresh = @ \cup {t}]
  /\ todo' = [todo EXCEPT ![r] = @ \ {t}]
  /\ ReadUpTo(t)
  /\ latest' = [latest EXCEPT ![t] = version[t]]
  /\ origin' = [origin EXCEPT ![t] = conn[t]]
  /\ seen' = [seen EXCEPT ![t] = @ \cup {version[t]}]
  /\ Goto(r, "refresh")
  /\ UNCHANGED <<phase, report, verdict, available, outcome, sequence, catalogVars,
                 clientVars, cancelled, version>>

DiscoverFails(r) ==
  LET t == Next1(todo[r]) IN
  /\ pc[r] = "discovering"
  /\ Stale(r, t)
  /\ todo' = [todo EXCEPT ![r] = @ \ {t}]
  /\ Terminate(t)
  /\ Goto(r, "refresh")
  /\ UNCHANGED <<phase, report, verdict, outcome, sequence, catalogVars, clientVars,
                 cancelled, version, historyVars>>

DiscoverTarget(r) ==
  \/ DiscoverRefused(r) \/ DiscoverBegin(r) \/ DiscoverOk(r) \/ DiscoverFails(r)

\* adopt_snapshot: one swap of the whole catalog; a call captures its tool.
Adopt(r) ==
  LET changed == draft[r].tools # tools IN
  /\ pc[r] = "refresh" /\ todo[r] = {}
  /\ tools' = draft[r].tools
  /\ generation' = IF changed THEN generation + 1 ELSE generation
  /\ fresh' = draft[r].fresh
  /\ listed' = (listed \/ r \in Lists)
  /\ report' = [report EXCEPT ![r] = [generation |-> generation',
                                      changed |-> draft[r].listed /\ changed]]
  /\ verdict' = IF r \in Calls /\ phase[r] = "before"
                THEN [verdict EXCEPT ![r] = draft[r].tools[TargetOf[r]]] ELSE verdict
  /\ draft' = [draft EXCEPT ![r] = NoDraft]
  /\ Goto(r, IF r \in Lists THEN "write" ELSE "notify")
  /\ UNCHANGED <<phase, todo, available, outcome, sequence, clientVars, cancelled,
                 sessionVars, upstreamVars, historyVars>>

RefreshAll(r) ==
  r \in Lists /\ (Consider(r) \/ DiscoverTarget(r) \/ Adopt(r))
RefreshForCall(r) ==
  r \in Calls /\ phase[r] = "before" /\ (Consider(r) \/ DiscoverTarget(r) \/ Adopt(r))
RefreshAfterNotification(r) ==
  r \in Calls /\ phase[r] = "after" /\ (Rediscover(r) \/ DiscoverTarget(r) \/ Adopt(r))

-----------------------------------------------------------------------------
(* What is written downstream.                                                *)

\* Mutant of WriteList: the sequence lock is released before the response.
WriteListUnlocked(r) ==
  /\ r \in Lists /\ pc[r] = "write"
  /\ IF sequence = r
     THEN sequence' = Free /\ UNCHANGED <<told, alerted, pc, outcome>>
     ELSE /\ told' = report[r].generation /\ alerted' = FALSE
          /\ Answer(r, "LIST") /\ Goto(r, "done") /\ UNCHANGED sequence
  /\ UNCHANGED <<phase, todo, draft, report, verdict, available, catalogVars, cancelled,
                 sessionVars, upstreamVars, historyVars>>

WriteList(r) ==
  /\ r \in Lists /\ pc[r] = "write"
  /\ told' = report[r].generation
  /\ alerted' = FALSE
  /\ Answer(r, "LIST")
  /\ Goto(r, "notify")
  /\ UNCHANGED <<phase, todo, draft, report, verdict, available, sequence, catalogVars,
                 cancelled, sessionVars, upstreamVars, historyVars>>

\* write_list_changed, when the refresh changed a catalog listed before.
NotifyChange(r) ==
  /\ pc[r] = "notify"
  /\ alerted' = (alerted \/ report[r].changed)
  /\ report' = [report EXCEPT ![r] = NoReport]
  /\ Goto(r, CASE r \in Lists -> "done"
               [] r \in Calls /\ phase[r] = "before" -> "judge"
               [] OTHER -> "reply")
  /\ sequence' = IF r \in Lists THEN Free ELSE sequence
  /\ available' = IF r \in Calls /\ phase[r] = "before"
                  THEN available ELSE [available EXCEPT ![r] = TRUE]
  /\ UNCHANGED <<phase, todo, draft, verdict, outcome, catalogVars, told,
                 cancelled, sessionVars, upstreamVars, historyVars>>

-----------------------------------------------------------------------------
(* The rest of tools/call.                                                    *)

\* No fresh definition, or a blocked tool: an error, nothing is sent upstream.
Refuse(r) ==
  /\ pc[r] = "judge"
  /\ ~available[r] \/ verdict[r].kind # "ready"
  /\ Answer(r, IF available[r] /\ verdict[r].kind = "blocked"
               THEN "ADMIN_ACTION_REQUIRED" ELSE "TARGET_UNAVAILABLE")
  /\ sequence' = Free
  /\ Goto(r, "done")
  /\ Forget(r)
  /\ UNCHANGED <<todo, draft, report, catalogVars, clientVars,
                 cancelled, sessionVars, upstreamVars, historyVars>>

\* Mutant of Resolve: the sequence lock is not dropped before the execution.
ResolveKeepingLock(r) ==
  /\ pc[r] = "judge" /\ available[r] /\ verdict[r].kind = "ready"
  /\ Goto(r, "execute")
  /\ UNCHANGED <<phase, todo, draft, report, verdict, available, outcome, sequence,
                 catalogVars, clientVars, cancelled, sessionVars, upstreamVars, historyVars>>

\* resolve_v3_mcp validates the arguments against the captured definition; the
\* sequence lock is dropped before the execution.
Resolve(r) ==
  /\ pc[r] = "judge" /\ available[r] /\ verdict[r].kind = "ready"
  /\ sequence' = Free
  /\ \/ Goto(r, "execute") /\ UNCHANGED outcome
     \/ Goto(r, "done") /\ Answer(r, "INVALID_ARGUMENTS")
  /\ verdict' = [verdict EXCEPT ![r] = Unavailable]
  /\ UNCHANGED <<phase, todo, draft, report, available, catalogVars, clientVars,
                 cancelled, sessionVars, upstreamVars, historyVars>>

\* execute_with_cancellation fails before it has the actor.
ExecuteRefused(r) ==
  /\ pc[r] = "execute"
  /\ Answer(r, IF cancelled THEN "CANCELLED" ELSE "SERVER_BUSY")
  /\ Goto(r, "after")
  /\ UNCHANGED <<phase, todo, draft, report, verdict, available, sequence, catalogVars,
                 clientVars, cancelled, sessionVars, upstreamVars, historyVars>>

ExecuteBegin(r) ==
  /\ pc[r] = "execute" /\ ~cancelled /\ actor[TargetOf[r]] = Free
  /\ Occupy(r, TargetOf[r])
  /\ Goto(r, "executing")
  /\ UNCHANGED <<phase, todo, draft, report, verdict, available, outcome, sequence,
                 catalogVars, clientVars, cancelled, version, historyVars>>

\* The upstream's result, or a failure of the call, its timeout or cancellation.
ExecuteEnds(r) ==
  /\ pc[r] = "executing"
  /\ \/ ReadUpTo(TargetOf[r]) /\ Answer(r, "OK")
     \/ Terminate(TargetOf[r]) /\ Answer(r, "FAILED")
  /\ Goto(r, "after")
  /\ UNCHANGED <<phase, todo, draft, report, verdict, available, sequence, catalogVars,
                 clientVars, cancelled, version, historyVars>>

LockAfter(r) ==
  /\ pc[r] = "after"
  /\ LockSequence(r)
  /\ Goto(r, "take")
  /\ UNCHANGED <<phase, todo, draft, report, verdict, available, outcome, catalogVars,
                 clientVars, cancelled, sessionVars, upstreamVars, historyVars>>

\* take_list_changed awaits the actor; a set flag asks for another refresh.
TakeListChanged(r) ==
  LET t == TargetOf[r] IN
  /\ pc[r] = "take" /\ actor[t] = Free
  /\ flag' = flag \ {t}
  /\ IF t \in flag
     THEN /\ phase' = [phase EXCEPT ![r] = "after"]
          /\ ReadState(r, {t})
          /\ Goto(r, "refresh")
     ELSE Goto(r, "reply") /\ UNCHANGED <<phase, todo, draft, available>>
  /\ UNCHANGED <<report, verdict, outcome, sequence, catalogVars, clientVars, cancelled,
                 actor, conn, conns, dead, upstreamVars, historyVars>>

Reply(r) ==
  /\ pc[r] = "reply"
  /\ sequence' = Free
  /\ Goto(r, "done")
  /\ Forget(r)
  /\ UNCHANGED <<todo, draft, report, outcome, catalogVars,
                 clientVars, cancelled, sessionVars, upstreamVars, historyVars>>

-----------------------------------------------------------------------------
(* The broker's shutdown and the upstream servers (external).                 *)

Cancel ==
  /\ ~cancelled
  /\ cancelled' = TRUE
  /\ UNCHANGED <<handlerVars, sequence, catalogVars, clientVars, sessionVars,
                 upstreamVars, historyVars>>

\* The upstream changes its definition, and says so if it is connected.
Change(t) ==
  /\ version[t] < LastVersion[t]
  /\ version' = [version EXCEPT ![t] = @ + 1]
  /\ unread' = IF Live(t) THEN unread \cup {t} ELSE unread
  /\ UNCHANGED <<handlerVars, sequence, catalogVars, clientVars, cancelled, sessionVars,
                 historyVars>>

Die(t) ==
  /\ Live(t)
  /\ dead' = dead \cup {t}
  /\ UNCHANGED <<handlerVars, sequence, catalogVars, clientVars, cancelled, actor, conn,
                 conns, flag, upstreamVars, historyVars>>

-----------------------------------------------------------------------------
Handle(r) ==
  \/ StartList(r) \/ AcceptCall(r) \/ StartCall(r) \/ RejectCall(r)
  \/ RefreshAll(r) \/ RefreshForCall(r) \/ RefreshAfterNotification(r)
  \/ WriteList(r) \/ NotifyChange(r) \/ Refuse(r) \/ Resolve(r)
  \/ ExecuteRefused(r) \/ ExecuteBegin(r) \/ ExecuteEnds(r)
  \/ LockAfter(r) \/ TakeListChanged(r) \/ Reply(r)

\* Every request was answered: nothing is left to do.
Finished == (\A r \in Requests : pc[r] = "done") /\ UNCHANGED vars

Next ==
  \/ \E r \in Requests : Handle(r)
  \/ Cancel
  \/ \E t \in Targets : Change(t) \/ Die(t)
  \/ Finished

(* A handler that is not waiting for a lock goes on; that a discovery or an   *)
(* execution ends is CallReturns of McpSession.                               *)
Spec == Init /\ [][Next]_vars
FairSpec == Spec /\ WF_vars(\E r \in Requests : Handle(r))
-----------------------------------------------------------------------------
(* Properties *)

\* While no refresh is being reported, the client of a listed catalog knows it
\* is current: the last list response carries the adopted generation, or a
\* list_changed followed it. No old list arrives after a newer notification.
ClientInformed ==
  sequence = Free /\ listed => told = generation \/ alerted

\* Refreshes of several targets never overwrite each other: each tool is the
\* projection of its target's own last successful discovery.
NoLostRefresh ==
  sequence = Free =>
    \A t \in Targets : latest[t] # 0 => tools[t] = Project(latest[t])

\* A change the upstream announced is never forgotten: a fresh target on the
\* connection it was discovered on, with no announcement unread or pending,
\* has the definition the upstream serves. A taken flag whose refresh fails
\* makes the target stale instead.
ChangeNotForgotten ==
  sequence = Free =>
    \A t \in fresh : Live(t) /\ conn[t] = origin[t] /\ t \notin flag \cup unread =>
      latest[t] = version[t]

\* A call is executed, or blamed on the administrator, only because of a
\* definition discovered while this broker runs, never because of the
\* persistent cache.
VerdictFromDiscovery ==
  \A c \in Calls :
    pc[c] = "judge" /\ available[c] =>
      \E v \in seen[TargetOf[c]] : verdict[c] = Project(v)

\* Every request is answered: no order of the sequence lock and the actors
\* leaves two handlers waiting for each other.
RequestsAnswered == <>(\A r \in Requests : pc[r] = "done")

\* What docs/design.md and the runtime's comments say of a busy target: the
\* second call is refused without waiting.
BusyCallNotQueued ==
  \A c \in Calls :
    pc[c] = "take" /\ outcome[c] = "SERVER_BUSY" => actor[TargetOf[c]] = Free
=============================================================================
