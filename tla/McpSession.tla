----------------------------- MODULE McpSession -----------------------------
(***************************************************************************)
(* The upstream MCP adapter of the broker for ONE target                    *)
(* (crates/runtime/src/lib.rs): admission, the actor mutex of the target,   *)
(* McpSession's negotiation, request and reply correlation, the two ways a  *)
(* call is interrupted (its timeout and broker cancellation), process       *)
(* termination, and McpExecutor::shutdown.                                  *)
(*                                                                          *)
(* A step of a caller runs from one await point of its future to the next.  *)
(* The upstream server is arbitrary: it may answer, answer twice, answer    *)
(* with an error, send nonsense or notifications, close its stdout, stop    *)
(* reading its stdin, exit, or ignore SIGTERM.                              *)
(***************************************************************************)
EXTENDS Naturals, Sequences, FiniteSets

CONSTANTS
  Callers,    \* public requests that reach this target, one call each
  Listers,    \* the callers that run list_tools; the others run call
  Broker,     \* the serve loop, which cancels, drains and shuts down
  Free,       \* "nobody holds the actor mutex"
  Slots,      \* GLOBAL_CALL_SLOTS
  MaxProcs,   \* bound: processes spawned in a behaviour
  MaxWire,    \* bound: unread messages on one process's stdout
  MaxPages    \* MAX_UPSTREAM_DISCOVERY_PAGES

ASSUME ConstantsAssumption ==
  /\ IsFiniteSet(Callers)
  /\ Listers \subseteq Callers
  /\ Broker \notin Callers
  /\ Free \notin Callers \cup {Broker}
  /\ Slots \in Nat \ {0}
  /\ MaxProcs \in Nat \ {0}
  /\ MaxWire \in Nat \ {0}
  /\ MaxPages \in Nat \ {0}

VARIABLES
  pc,         \* where each caller, and the broker's serve loop, stands
  outcome,    \* the code a caller returns; while it fails, the code it will return
  pages,      \* requests this caller has issued (list_tools: its page counter)
  answers,    \* history: whose requests the replies a caller accepted belong to
  slots,      \* free permits of Admission
  actor,      \* holder of McpTarget.actor
  cancelled,  \* the Cancellation watch
  ready,      \* McpSession.ready: a process, 0 for None
  nextId,     \* ReadyProcess.next_id
  starting,   \* McpSession.starting: a process, 0 for None
  active,     \* McpSession.active_request: its id, 0 for None
  held,       \* the process a termination in progress has taken out of the session
  cont,       \* what follows an interruptible termination
  abandoned,  \* history: processes whose termination was dropped half-way
  spawned,    \* number of processes spawned so far
  proc,       \* state of each process group
  revision,   \* ReadyProcess.revision of a process
  asked,      \* messages the broker has written to a process
  wire,       \* messages a process has written and the broker has not read
  eof,        \* processes that closed their stdout
  full        \* processes whose stdin pipe has no room

callerVars  == <<pc, outcome, pages, answers>>
brokerVars  == <<slots, actor, cancelled>>
sessionVars == <<ready, nextId, starting, active, held, cont, abandoned, spawned,
                 revision>>
worldVars   == <<proc, asked, wire, eof, full>>
vars == <<callerVars, brokerVars, sessionVars, worldVars>>

Proc == 1 .. MaxProcs
Party == Callers \cup {Broker}

\* What a caller returns. FAILED stands for every code of map_mcp_call_error:
\* the properties only tell a result from an error, and the error codes that
\* admission, the deadline and cancellation give from the rest.
Codes == {"none", "OK", "FAILED", "SERVER_BUSY", "TARGET_TIMEOUT", "CANCELLED"}

Requests == [kind : {"discover", "initialize", "initialized", "tool"},
             id : Nat, by : Callers]
\* A reply. body: "good" is what the caller hopes for (the modern revision, the
\* legacy revision, an adaptable result, a last page), "more" a page with an
\* unseen cursor, "bad" any other result, "error" a JSON-RPC error object.
\* by is history: the caller whose request the upstream answers.
Messages == [body : {"good", "more", "bad", "error"}, id : Nat, by : Callers]

\* Await points inside the future that timeout() and select! may drop.
Interruptible == {"reaping", "discover", "initialize", "sending", "reply"}
\* Steps that run without an await, and those that run outside that future.
Points == Interruptible \cup
          {"idle", "enter", "negotiate", "respawn", "done"} \cup
          {"cancelSend", "terminate", "killing"} \cup {"serving", "draining", "exited"}
Continuations == {"negotiate", "respawn", "terminate"}

TypeOK ==
  /\ pc \in [Party -> Points]
  /\ outcome \in [Callers -> Codes]
  /\ pages \in [Callers -> Nat]
  /\ answers \in [Callers -> SUBSET Callers]
  /\ slots \in 0 .. Slots
  /\ actor \in Party \cup {Free}
  /\ cancelled \in BOOLEAN
  /\ ready \in 0 .. MaxProcs
  /\ nextId \in Nat
  /\ starting \in 0 .. MaxProcs
  /\ active \in Nat
  /\ held \in 0 .. MaxProcs
  /\ cont \in Continuations
  /\ abandoned \subseteq Proc
  /\ spawned \in 0 .. MaxProcs
  /\ proc \in [Proc -> {"unused", "up", "leaderless", "gone"}]
  /\ revision \in [Proc -> {"none", "modern", "legacy"}]
  /\ asked \in [Proc -> SUBSET Requests]
  /\ wire \in [Proc -> Seq(Messages)]
  /\ eof \subseteq Proc
  /\ full \subseteq Proc

Init ==
  /\ pc = [x \in Party |-> IF x = Broker THEN "serving" ELSE "idle"]
  /\ outcome = [c \in Callers |-> "none"]
  /\ pages = [c \in Callers |-> 0]
  /\ answers = [c \in Callers |-> {}]
  /\ slots = Slots
  /\ actor = Free
  /\ cancelled = FALSE
  /\ ready = 0 /\ nextId = 0 /\ starting = 0 /\ active = 0 /\ held = 0
  /\ cont = "terminate"
  /\ abandoned = {}
  /\ spawned = 0
  /\ proc = [p \in Proc |-> "unused"]
  /\ revision = [p \in Proc |-> "none"]
  /\ asked = [p \in Proc |-> {}]
  /\ wire = [p \in Proc |-> <<>>]
  /\ eof = {}
  /\ full = {}

-----------------------------------------------------------------------------
(* Helpers: what several handlers do alike. *)

LeaderDown(p) == proc[p] \in {"leaderless", "gone"}      \* try_wait() is Some

Goto(x, point) == pc' = [pc EXCEPT ![x] = point]

\* The caller's error is on record and it goes on at point.
FailTo(c, point) ==
  /\ outcome' = [outcome EXCEPT ![c] = "FAILED"]
  /\ Goto(c, point)

Write(p, kind, id, c) ==
  asked' = [asked EXCEPT ![p] = @ \cup {[kind |-> kind, id |-> id, by |-> c]}]

\* terminate_process begins on p (SIGTERM) inside the caller's own future: the
\* session no longer owns p, the future does.
BeginReap(p, next) ==
  /\ held' = p
  /\ cont' = next

\* An McpProcess is dropped: its pipes close and what it held unread is gone.
DropPipes(p) ==
  /\ wire' = [wire EXCEPT ![p] = <<>>]
  /\ eof' = eof \cup {p}
  /\ full' = full \ {p}

\* Mutant of Release: the permit is given back twice.
ReleaseTwice ==
  /\ slots' = slots + 2
  /\ actor' = Free

\* The RAII guards of the actor mutex and of the admission permit.
Release ==
  /\ slots' = slots + 1
  /\ actor' = Free

-----------------------------------------------------------------------------
(* Admission and the actor mutex: try_acquire, then try_lock. *)

Refusal ==
  IF cancelled THEN "CANCELLED"
  ELSE IF slots = 0 \/ actor # Free THEN "SERVER_BUSY" ELSE "none"

\* Mutant of Refuse: the permit taken before the busy actor is not returned.
RefuseKeepingPermit(c) ==
  /\ pc[c] = "idle" /\ pc[Broker] \in {"serving", "draining"}
  /\ Refusal # "none"
  /\ slots' = IF ~cancelled /\ slots > 0 THEN slots - 1 ELSE slots
  /\ outcome' = [outcome EXCEPT ![c] = Refusal]
  /\ Goto(c, "done")
  /\ UNCHANGED <<pages, answers, actor, cancelled, sessionVars, worldVars>>

Refuse(c) ==
  /\ pc[c] = "idle" /\ pc[Broker] \in {"serving", "draining"}
  /\ Refusal # "none"
  /\ outcome' = [outcome EXCEPT ![c] = Refusal]
  /\ Goto(c, "done")
  /\ UNCHANGED <<pages, answers, brokerVars, sessionVars, worldVars>>

Admit(c) ==
  /\ pc[c] = "idle" /\ pc[Broker] \in {"serving", "draining"}
  /\ Refusal = "none"
  /\ slots' = slots - 1
  /\ actor' = c
  /\ Goto(c, "enter")
  /\ UNCHANGED <<outcome, pages, answers, cancelled, sessionVars, worldVars>>

\* Mutant of EnterDead: the dead process stays in the session.
EnterDeadKeepingIt(c) ==
  /\ pc[c] = "enter" /\ ready # 0 /\ LeaderDown(ready)
  /\ BeginReap(ready, "negotiate")
  /\ active' = 0
  /\ Goto(c, "reaping")
  /\ UNCHANGED <<outcome, pages, answers, brokerVars, ready, nextId, starting, abandoned,
                 spawned, revision, worldVars>>

\* The head of call and of list_tools: a ready process whose leader exited is
\* terminated, a missing one negotiated, a live one used.
EnterDead(c) ==
  /\ pc[c] = "enter" /\ ready # 0 /\ LeaderDown(ready)
  /\ BeginReap(ready, "negotiate")
  /\ ready' = 0 /\ active' = 0
  /\ Goto(c, "reaping")
  /\ UNCHANGED <<outcome, pages, answers, brokerVars, nextId, starting, abandoned,
                 spawned, revision, worldVars>>

EnterLive(c) ==
  /\ pc[c] = "enter" /\ (ready # 0 => ~LeaderDown(ready))
  /\ Goto(c, IF ready = 0 THEN "negotiate" ELSE "sending")
  /\ UNCHANGED <<outcome, pages, answers, brokerVars, sessionVars, worldVars>>

-----------------------------------------------------------------------------
(* negotiate and legacy_initialize. *)

SpawnFails(c) ==
  /\ pc[c] \in {"negotiate", "respawn"}
  /\ FailTo(c, "terminate")
  /\ UNCHANGED <<pages, answers, brokerVars, sessionVars, worldVars>>

\* spawn_process succeeds; the first message (server/discover, or initialize on
\* the one respawn) is written to it or its stdin is already closed.
Spawn(c) ==
  LET p     == spawned + 1
      first == IF pc[c] = "negotiate" THEN "discover" ELSE "initialize"
  IN
  /\ pc[c] \in {"negotiate", "respawn"} /\ spawned < MaxProcs
  /\ spawned' = p
  /\ proc' = [proc EXCEPT ![p] = "up"]
  /\ \/ /\ starting' = p
        /\ nextId' = 2
        /\ Write(p, first, 1, c)
        /\ Goto(c, first)
        /\ UNCHANGED <<outcome, cont, held>>
     \/ /\ FailTo(c, "reaping")
        /\ BeginReap(p, "terminate")
        /\ UNCHANGED <<starting, nextId, asked>>
  /\ UNCHANGED <<pages, answers, brokerVars, ready, active, abandoned, revision,
                 wire, eof, full>>

\* LegacyInitialize on the process that answered server/discover: initialize
\* with id 2 is written, or the write fails and the process is terminated.
LegacyInitialize(c, p) ==
  \/ /\ Write(p, "initialize", 2, c)
     /\ nextId' = 3
     /\ Goto(c, "initialize")
     /\ UNCHANGED <<outcome, cont, held, starting>>
  \/ /\ FailTo(c, "reaping")
     /\ BeginReap(p, "terminate")
     /\ starting' = 0
     /\ UNCHANGED <<asked, nextId>>

\* How read_reply(id) on p may end: with a result ("good", "bad", "more"), with
\* the upstream's error object, with the connection closed, or with "invalid": a
\* reply whose id does not match, and whatever else the process may write (a
\* server request, malformed or oversized text, too much stderr).
ReadResults == {"good", "bad", "more", "error", "closed", "invalid"}

\* Mutant of ReadEnds: the id of a reply is not compared.
ReadEndsAnyId(p, id, res) ==
  \/ /\ wire[p] # <<>>
     /\ res = Head(wire[p]).body
     /\ wire' = [wire EXCEPT ![p] = Tail(@)]
  \/ /\ wire[p] = <<>> /\ (p \in eof \/ proc[p] = "gone")
     /\ res = "closed"
     /\ UNCHANGED wire

ReadEnds(p, id, res) ==
  \/ /\ wire[p] # <<>>
     /\ res = IF Head(wire[p]).id = id THEN Head(wire[p]).body ELSE "invalid"
     /\ wire' = [wire EXCEPT ![p] = Tail(@)]
  \/ /\ wire[p] = <<>> /\ (p \in eof \/ proc[p] = "gone")
     /\ res = "closed"
     /\ UNCHANGED wire
  \/ /\ res = "invalid"
     /\ UNCHANGED wire

\* The modern revision makes the process ready; any other result, or an error
\* object, falls back to legacy initialization on the same process; a closed
\* connection is respawned once; every other error terminates the process.
DiscoverReply(c) ==
  /\ pc[c] = "discover"
  /\ \E res \in ReadResults :
       /\ ReadEnds(starting, 1, res)
       /\ \/ /\ res = "good"
             /\ ready' = starting /\ starting' = 0
             /\ revision' = [revision EXCEPT ![starting] = "modern"]
             /\ Goto(c, "sending")
             /\ UNCHANGED <<outcome, cont, held, asked, nextId>>
          \/ /\ res \in {"bad", "more", "error"}
             /\ LegacyInitialize(c, starting)
             /\ UNCHANGED <<ready, revision>>
          \/ /\ res = "closed"
             /\ BeginReap(starting, "respawn")
             /\ starting' = 0
             /\ Goto(c, "reaping")
             /\ UNCHANGED <<outcome, ready, revision, asked, nextId>>
          \/ /\ res = "invalid"
             /\ BeginReap(starting, "terminate")
             /\ starting' = 0
             /\ FailTo(c, "reaping")
             /\ UNCHANGED <<ready, revision, asked, nextId>>
  /\ UNCHANGED <<pages, answers, brokerVars, active, abandoned, spawned, proc,
                 eof, full>>

\* Mutant of SendInitialized: the process becomes ready without it.
SkipInitialized(p, c) == UNCHANGED asked

SendInitialized(p, c) == Write(p, "initialized", 0, c)

\* The legacy revision is acknowledged with notifications/initialized before
\* the process becomes ready.
InitializeReply(c) ==
  /\ pc[c] = "initialize"
  /\ \E res \in ReadResults :
       /\ ReadEnds(starting, nextId - 1, res)
       /\ starting' = 0
       /\ \/ /\ res = "good"
             /\ SendInitialized(starting, c)
             /\ ready' = starting
             /\ revision' = [revision EXCEPT ![starting] = "legacy"]
             /\ Goto(c, "sending")
             /\ UNCHANGED <<outcome, cont, held>>
          \/ /\ FailTo(c, "reaping")
             /\ BeginReap(starting, "terminate")
             /\ UNCHANGED <<ready, revision, asked>>
  /\ UNCHANGED <<pages, answers, brokerVars, nextId, active, abandoned, spawned,
                 proc, eof, full>>

-----------------------------------------------------------------------------
(* The request itself: tools/call, or one page of tools/list. *)

PageLimit(c) == c \in Listers /\ pages[c] >= MaxPages

\* The request is written (and may leave no room in the pipe), fails to be
\* encoded or written, or waits for room: then this action is not enabled.
SendRequest(c) ==
  /\ pc[c] = "sending" /\ ~PageLimit(c)
  /\ nextId' = nextId + 1
  /\ \/ /\ ready \notin full
        /\ Write(ready, "tool", nextId, c)
        /\ active' = nextId
        /\ pages' = [pages EXCEPT ![c] = @ + 1]
        /\ full' \in {full, full \cup {ready}}
        /\ Goto(c, "reply")
        /\ UNCHANGED outcome
     \/ /\ FailTo(c, "terminate")
        /\ UNCHANGED <<asked, active, pages, full>>
  /\ UNCHANGED <<cont, answers, brokerVars, ready, starting, held, abandoned, spawned,
                 revision, proc, wire, eof>>

TooManyPages(c) ==
  /\ pc[c] = "sending" /\ PageLimit(c)
  /\ FailTo(c, "terminate")
  /\ UNCHANGED <<pages, answers, brokerVars, sessionVars, worldVars>>

\* A usable result ends the call, a page with a new cursor asks for the next
\* one, an unusable result or a failed read is an error of the call.
RequestReply(c) ==
  /\ pc[c] = "reply"
  /\ \E res \in ReadResults :
       /\ ReadEnds(ready, active, res)
       /\ answers' = IF res \in {"good", "more"}
                     THEN [answers EXCEPT ![c] = @ \cup {Head(wire[ready]).by}]
                     ELSE answers
       /\ \/ /\ res = "good"
             /\ outcome' = [outcome EXCEPT ![c] = "OK"]
             /\ Goto(c, "done")
             /\ Release
          \/ /\ res = "more" /\ c \in Listers
             /\ Goto(c, "sending")
             /\ UNCHANGED <<outcome, slots, actor>>
          \/ /\ res # "good" /\ (res = "more" => c \notin Listers)
             /\ FailTo(c, "terminate")
             /\ UNCHANGED <<slots, actor>>
  /\ active' = 0
  /\ UNCHANGED <<cont, pages, cancelled, ready, nextId, starting, held, abandoned,
                 spawned, revision, proc, asked, eof, full>>

-----------------------------------------------------------------------------
(* Interruption and termination. *)

\* Mutants of Interrupt: the session is left as it is; only cancellation counts.
InterruptAndKeep(c) ==
  /\ pc[c] \in {"sending", "reply"}
  /\ outcome' = [outcome EXCEPT ![c] = "TARGET_TIMEOUT"]
  /\ active' = 0
  /\ Goto(c, "done")
  /\ Release
  /\ UNCHANGED <<pages, answers, cancelled, ready, nextId, starting, held, cont,
                 abandoned, spawned, revision, worldVars>>
InterruptOnCancelOnly(c) ==
  /\ pc[c] \in Interruptible \ {"reaping"} /\ cancelled
  /\ outcome' = [outcome EXCEPT ![c] = "CANCELLED"]
  /\ active' = 0
  /\ Goto(c, "terminate")
  /\ UNCHANGED <<pages, answers, brokerVars, ready, nextId, starting, held, cont,
                 abandoned, spawned, revision, worldVars>>

\* The deadline passes or the broker is cancelled while the call's future is
\* suspended: the future is dropped, and with it a process whose termination
\* it had begun. What the session still owns is cancelled and terminated.
Interrupt(c) ==
  /\ pc[c] \in Interruptible
  /\ \E code \in {"TARGET_TIMEOUT"} \cup (IF cancelled THEN {"CANCELLED"} ELSE {}) :
       outcome' = [outcome EXCEPT ![c] = code]
  /\ IF pc[c] = "reaping"
     THEN abandoned' = abandoned \cup {held} /\ DropPipes(held)
     ELSE UNCHANGED <<abandoned, wire, eof, full>>
  /\ held' = 0 /\ cont' = "terminate"
  /\ active' = 0
  /\ Goto(c, IF active # 0 /\ ready # 0 THEN "cancelSend" ELSE "terminate")
  /\ UNCHANGED <<pages, answers, brokerVars, ready, nextId, starting, spawned, revision,
                 proc, asked>>

\* notifications/cancelled is written: it needs room in the pipe, or a pipe
\* nobody reads any more. No deadline covers this await.
CancelSend(c) ==
  /\ pc[c] = "cancelSend"
  /\ ready \notin full \/ proc[ready] = "gone"
  /\ Goto(c, "terminate")
  /\ UNCHANGED <<outcome, pages, answers, brokerVars, sessionVars, worldVars>>

\* terminate: the ready process is taken out of the session first.
TakeNext(x) ==
  LET p == IF ready # 0 THEN ready ELSE starting IN
  /\ pc[x] = "terminate" /\ p # 0
  /\ active' = 0
  /\ held' = p
  /\ ready' = 0
  /\ starting' = IF ready # 0 THEN starting ELSE 0
  /\ Goto(x, "killing")
  /\ UNCHANGED <<outcome, cont, pages, answers, brokerVars, nextId, abandoned, spawned,
                 revision, worldVars>>

\* Mutants of Kill: only the leader is killed; SIGKILL is never sent.
KillLeader(x) ==
  /\ pc[x] \in {"reaping", "killing"}
  /\ proc' \in {[proc EXCEPT ![held] = s] : s \in {"leaderless", "gone"}}
  /\ DropPipes(held)
  /\ held' = 0 /\ cont' = "terminate"
  /\ Goto(x, IF pc[x] = "reaping" THEN cont ELSE "terminate")
  /\ UNCHANGED <<outcome, pages, answers, brokerVars, ready, nextId, starting,
                 active, abandoned, spawned, revision, asked>>
KillNever(x) ==
  /\ held # 0 /\ proc[held] = "gone"
  /\ KillLeader(x)

\* The end of terminate_process: the grace period is over, the whole group is
\* killed, the leader reaped, the stderr task joined.
Kill(x) ==
  /\ pc[x] \in {"reaping", "killing"}
  /\ proc' = [proc EXCEPT ![held] = "gone"]
  /\ DropPipes(held)
  /\ held' = 0 /\ cont' = "terminate"
  /\ Goto(x, IF pc[x] = "reaping" THEN cont ELSE "terminate")
  /\ UNCHANGED <<outcome, pages, answers, brokerVars, ready, nextId, starting,
                 active, abandoned, spawned, revision, asked>>

\* Mutant of ReturnError: a failed call is tried again.
RetryOnError(c) ==
  /\ pc[c] = "terminate" /\ outcome[c] = "FAILED" /\ ready = 0 /\ starting = 0
  /\ active' = 0
  /\ Goto(c, "enter")
  /\ UNCHANGED <<outcome, pages, answers, brokerVars, ready, nextId, starting, held, cont,
                 abandoned, spawned, revision, worldVars>>

\* Nothing is left to terminate: the caller returns its error.
ReturnError(c) ==
  /\ pc[c] = "terminate" /\ ready = 0 /\ starting = 0
  /\ active' = 0
  /\ Goto(c, "done")
  /\ Release
  /\ UNCHANGED <<outcome, cont, pages, answers, cancelled, ready, nextId, starting, held,
                 abandoned, spawned, revision, worldVars>>

-----------------------------------------------------------------------------
(* The serve loop: cancel, await every task, shut the executor down. *)

Cancel ==
  /\ pc[Broker] = "serving"
  /\ cancelled' = TRUE
  /\ Goto(Broker, "draining")
  /\ UNCHANGED <<outcome, pages, answers, slots, actor, sessionVars, worldVars>>

Shutdown ==
  /\ pc[Broker] = "draining"
  /\ \A c \in Callers : pc[c] \in {"idle", "done"}
  /\ actor = Free
  /\ actor' = Broker
  /\ Goto(Broker, "terminate")
  /\ UNCHANGED <<outcome, pages, answers, slots, cancelled, sessionVars, worldVars>>

Exit ==
  /\ pc[Broker] = "terminate" /\ ready = 0 /\ starting = 0
  /\ actor' = Free
  /\ active' = 0
  /\ Goto(Broker, "exited")
  /\ UNCHANGED <<outcome, cont, pages, answers, slots, cancelled, ready, nextId, starting,
                 held, abandoned, spawned, revision, worldVars>>

-----------------------------------------------------------------------------
(* The upstream server (external). *)

Answer(p) ==
  /\ proc[p] \in {"up", "leaderless"} /\ p \notin eof /\ Len(wire[p]) < MaxWire
  /\ \E r \in asked[p], b \in {"good", "more", "bad", "error"} :
       /\ r.kind # "initialized"
       /\ b = "more" => r.kind = "tool" /\ r.by \in Listers
       /\ wire' = [wire EXCEPT ![p] = Append(@, [body |-> b, id |-> r.id, by |-> r.by])]
  /\ UNCHANGED <<callerVars, brokerVars, sessionVars, proc, asked, eof, full>>

ProcessExits(p) ==
  /\ proc[p] \in {"up", "leaderless"}
  /\ proc' \in {[proc EXCEPT ![p] = s] : s \in {"leaderless", "gone"} \ {proc[p]}}
  /\ UNCHANGED <<callerVars, brokerVars, sessionVars, asked, wire, eof, full>>

CloseStdout(p) ==
  /\ proc[p] \in {"up", "leaderless"} /\ p \notin eof
  /\ eof' = eof \cup {p}
  /\ UNCHANGED <<callerVars, brokerVars, sessionVars, proc, asked, wire, full>>

ReadStdin(p) ==
  /\ proc[p] \in {"up", "leaderless"} /\ p \in full
  /\ full' = full \ {p}
  /\ UNCHANGED <<callerVars, brokerVars, sessionVars, proc, asked, wire, eof>>

-----------------------------------------------------------------------------
CallerNext(c) ==
  \/ Refuse(c) \/ Admit(c) \/ EnterDead(c) \/ EnterLive(c)
  \/ SpawnFails(c) \/ Spawn(c) \/ DiscoverReply(c)
  \/ InitializeReply(c) \/ SendRequest(c) \/ TooManyPages(c) \/ RequestReply(c)
  \/ Interrupt(c) \/ CancelSend(c) \/ ReturnError(c)

Upstream == \E p \in Proc :
  Answer(p) \/ ProcessExits(p) \/ CloseStdout(p) \/ ReadStdin(p)

Next ==
  \/ \E c \in Callers : CallerNext(c)
  \/ \E x \in Party : TakeNext(x) \/ Kill(x)
  \/ Cancel \/ Shutdown \/ Exit
  \/ Upstream

(* What tokio guarantees: a task whose step does not wait for the upstream    *)
(* goes on, and a timer fires. Nothing is assumed of the upstream or of when   *)
(* requests and signals arrive.                                               *)
CallerGoesOn(c) ==
  \/ EnterDead(c) \/ EnterLive(c) \/ SpawnFails(c) \/ Spawn(c) \/ TooManyPages(c)
  \/ Interrupt(c) \/ CancelSend(c) \/ ReturnError(c) \/ TakeNext(c) \/ Kill(c)

Fairness ==
  /\ \A c \in Callers : WF_vars(CallerGoesOn(c))
  /\ WF_vars(Shutdown \/ Exit \/ TakeNext(Broker) \/ Kill(Broker))

Spec == Init /\ [][Next]_vars
FairSpec == Spec /\ Fairness
-----------------------------------------------------------------------------
(* Properties *)

Running(p) == proc[p] \in {"up", "leaderless"}

\* Every process group that still runs is owned: by the session (ready or
\* starting), by a termination in progress, or, in the one window where the
\* code drops a termination half-way, by nobody (abandoned). No other order of
\* replies, failures, timeouts, cancellation and shutdown loses a process.
NoStrayProcess ==
  \A p \in Proc : Running(p) => p \in {ready, starting, held} \cup abandoned

\* The points at which a caller, or the broker's shutdown, holds the actor.
Working == Points \ {"idle", "done", "serving", "draining", "exited"}

\* What the session owns at each point of its one holder: no two processes are
\* ever ready, starting or being terminated in a way that would let one of them
\* be overwritten, and a request is only written to a process that is there.
Owns(x) ==
  /\ pc[x] \in Working => actor = x
  /\ pc[x] = "enter" => starting = 0 /\ held = 0
  /\ pc[x] \in {"negotiate", "respawn"} => ready = 0 /\ starting = 0 /\ held = 0
  /\ pc[x] \in {"discover", "initialize"} => ready = 0 /\ starting # 0 /\ held = 0
  /\ pc[x] \in {"sending", "reply"} => ready # 0 /\ starting = 0 /\ held = 0
  /\ pc[x] \in {"cancelSend", "terminate"} => held = 0
  /\ pc[x] \in {"reaping", "killing"} => held # 0
  /\ pc[x] = "reaping" /\ cont # "terminate" => ready = 0 /\ starting = 0
SessionShape ==
  /\ actor = Free => starting = 0 /\ held = 0
  /\ \A x \in Party : Owns(x)

\* A session that waits for its next caller is quiet: nothing is starting or
\* being terminated and every request written to its process was answered, so
\* no late reply of an earlier caller can come from an upstream that answers
\* each request once.
QuietSession ==
  actor = Free =>
    /\ starting = 0 /\ held = 0 /\ active = 0
    /\ ready # 0 => \A r \in asked[ready] : r.kind = "tool" => outcome[r.by] = "OK"

\* A caller only ever accepts replies to its own requests, even from an upstream
\* that answers twice or answers an earlier caller late (read_reply's id check).
OwnReply == \A c \in Callers : answers[c] \subseteq {c}

\* The tools/call of one public request is written at most once, to one process,
\* and no process sees a tool request before its handshake is complete: the
\* modern revision was discovered, or initialize answered and initialized sent.
\* A dead process, a respawn or a failed handshake breaks neither.
ToolCalls(p, c) == {r \in asked[p] : r.kind = "tool" /\ r.by = c}
HandshakeDone(p) ==
  \/ revision[p] = "modern"
  \/ revision[p] = "legacy" /\ \E r \in asked[p] : r.kind = "initialized"
CallSentOnce ==
  /\ \A c \in Callers \ Listers, p, q \in Proc :
       \A r \in ToolCalls(p, c), s \in ToolCalls(q, c) : p = q /\ r = s
  /\ \A p \in Proc : (\E r \in asked[p] : r.kind = "tool") => HandshakeDone(p)

\* Every exit of a call gives back exactly the permit it took.
InFlight == {c \in Callers : pc[c] \notin {"idle", "done"}}
SlotsConserved == slots + Cardinality(InFlight) = Slots

Blocked(c) == pc[c] = "cancelSend" /\ ready \in full

\* A call that was admitted returns, whatever the upstream does, unless it is
\* left waiting to write its cancel notification: the target never stays taken.
CallReturns == []<>(actor = Free \/ \E c \in Callers : Blocked(c))

\* After the broker is cancelled, shutdown completes under the same exception.
ShutdownCompletes ==
  cancelled ~> (pc[Broker] = "exited" \/ \E c \in Callers : Blocked(c))

\* What docs/design.md says of timeouts: a call that timed out or was cancelled
\* returns. (The code writes the cancel notification outside every deadline.)
InterruptedCallReturns ==
  \A c \in Callers : pc[c] = "cancelSend" ~> pc[c] = "done"

\* What docs/design.md says of process lifetime: when the broker exits, no
\* upstream process it started still runs.
NoProcessOutlivesBroker ==
  pc[Broker] = "exited" => \A p \in Proc : ~Running(p)
=============================================================================
