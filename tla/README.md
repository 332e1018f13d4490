# A formal model of agent-capability-gate

agent-capability-gate is a broker: an MCP server on stdin/stdout that exposes a
reviewed subset of CLI programs and upstream MCP servers to one client. This
directory holds TLA+ modules of the broker's Rust code, the TLC configurations
that check them on small instances, and TLAPS proofs of the results that hold
for every instance. The modules are written from the code under `src/crates/`,
not from the design documents; where the two disagree, a run shows it (see
*Disagreements* below). `PROJECT.json` maps each definition to the lines it models.

## The system

| Component | Code | State it keeps | Operations |
|---|---|---|---|
| Admission | `runtime/src/lib.rs` `Admission` | 16 permits for the whole broker | `try_acquire`, drop of the guard |
| Upstream MCP adapter | `runtime/src/lib.rs` `McpExecutor`, `McpTarget`, `McpSession` | per target: an actor mutex around `ready`, `starting`, `active_request`; the child processes | `execute_with_cancellation`, `list_tools`, `take_list_changed`, `is_connected`, `shutdown` |
| Direct CLI execution | `runtime/src/lib.rs` `execute_cli_inner`, `read_bounded`, `terminate_cli_process`, `reap_cli_reader` | per call: the child, its group, two reader tasks | spawn, collect under `select!`, terminate, reap |
| Version-3 catalog | `boundary/src/v3_catalog.rs` | a snapshot (state of every tool, generation), `fresh_targets`, `catalog_was_listed` | `refresh_all`, `refresh_for_call`, `refresh_after_notification`, `adopt_snapshot` |
| Version-2 catalog and its cache | `boundary/src/v2_catalog.rs`, `catalog_cache.rs` | `active`, `cached`, `changed`, `unavailable`, an entry file per target | `refresh_target`, `list_json`, `public_tool`, `changed_reason`, `CatalogCache::load`, `store` |
| Definition cache of version 3 | `boundary/src/upstream_definition_cache.rs` | one file per target | `load`, `store` |
| Exposures and version-1 tools | `core/src/lib.rs` | none (pure functions) | `compile_schema`, `compile_bindings`, `intersect_property_schema`, `derive_restricted_public_tool`, `derive_v3_public_tool`, `resolve_cli`, `resolve_mcp`, `resolve_v2_mcp`, `resolve_v3_mcp` |
| Configuration | `core/src/lib.rs` | none | parsing and validation |
| Request handlers | `boundary/src/main.rs` `tools/list`, `tools/call` | `sequence_lock` of version 3 | one tokio task per request |
| Serve loop | `boundary/src/main.rs` `serve_stdio` | the task set, the cancellation watch, the negotiated revision, stdout | read a message, start a task, drain, shut down |
| Framing and envelopes | `boundary/src/main.rs` | none | `read_bounded_message`, `request_within_limits`, `validate_envelope` |
| Diagnostics, command line, test programs, tooling | `main.rs`, `test-support`, `scripts`, `verify` | none that a call depends on | |

The serve loop starts one task per request. A task consults the catalog of its
exposure's version (which calls `list_tools` of the adapter), has `core` resolve the
arguments, and calls the adapter or runs a program. Tasks share: the permits of
`Admission`; the actor mutex of a target, taken with `try_lock` by calls and
discoveries and awaited by `take_list_changed` and `shutdown`; the catalogs with
their `refresh_lock` and, in version 3, the `sequence_lock`; stdout; the
cancellation watch; and the one thread all of them run on. Upstream servers talk
back by replies and by `notifications/tools/list_changed`, read together with the
reply that follows.

What is hard in this code, and therefore what the properties are about:

* **Futures dropped at an await.** `timeout()` and `select!` drop a call in the
  middle of a negotiation, a write, a read or a termination. Session fields,
  process groups and permits must be right at every await point.
* **Replies that come late, twice, or not at all** on a connection that the next
  caller inherits; processes that die between two steps; a handshake with a
  fallback that respawns the process.
* **Five events in any order**: child exit, end of two pipes, deadline,
  cancellation, while descendants hold the pipes.
* **Two refreshes in flight** that read a snapshot, discover, and adopt; the order
  in which a list response and a `list_changed` reach the client.
* **Crashes, failed stores and failed loads** between the freezing of a schema and
  its use, and a cache file that several brokers, and brokers with recycled process ids, write.
* **Chunks that end anywhere** in a message, at its limit or inside its CRLF.
* **A shutdown with tasks in flight**, answers that wait for a full stdout, a read of
  stdin that nothing can cancel, a task that panics, and a client that renegotiates, closes or stops reading at any moment.
* **Two schemas merged** under rules that must never open what either closes.

The complete list, with lines, is under `hazards` in `PROJECT.json`.

What makes each component correct: the adapter never loses a process, a permit or a
reply, sends a call at most once, and always returns; a CLI call leaves no process
of its group and no permit, and no reader unless it panics, and its result is whole;
the catalogs never show a state no discovery produced, forget no change, keep what was
frozen as long as they can read it, and tell the client; a cache file is whole and behaves as if written at once; what a
restriction forwards is allowed by both the administrator and the upstream, and a
version-1 call puts each argument at its place; every message is framed by its bytes
alone and answered once unless its task panics, and the broker ends.

## The modules

### `McpSession`: the upstream adapter for one target

A step of a caller runs from one await point of its future to the next; `pc`
names the await point. `Refuse` and `Admit` are `try_acquire` and `try_lock`.
`EnterDead`/`EnterLive` look at the connected process, `Spawn`,
`DiscoverReply`, `InitializeReply` are the negotiation with its one respawn,
`SendRequest`, `RequestReply`, `TooManyPages` are `call` and the pages of
`list_tools`. `Interrupt` is the deadline or the cancellation, which drops the
future at any of the `Interruptible` points; `CancelSend`, `TakeNext`, `Kill` and
`ReturnError` are `cancel_and_terminate`, which runs outside of it. `BeginReap`
is a termination *inside* the future: the process has been moved out of the
session (`held`), and a drop of the future leaves it to nobody (`abandoned`).
`Cancel`, `Shutdown` and `Exit` are the end of `serve_stdio`. The upstream is
arbitrary: `Answer` (any answer to anything it was asked, any number of times),
`ProcessExits` (the leader alone, or the group), `CloseStdout`, `ReadStdin`.

Abstracted: the content of messages (an answer is good, one more page, bad, or
an error), and the error codes that `map_mcp_call_error` tells apart (`FAILED`).

### `CliExecution`: direct CLI calls

`Refuse`, `Admit`, `SpawnFails`, `Spawn`; the loop `Top`, `WaitChild`, `Join`,
`Deadline`, `CancelSeen` of `select!`; `Kill` (the whole group, after the
fixed grace period), `ReapReader` (join or abort), `ReapPanics`, `ReturnError`,
`Finish`. `Read`, `ReadEof`, `ReadFails` are the reader tasks; the end of the runtime
(`Exit`) ends one that is left. The program may
fork inside its group (`member`) or leave it (`escaped`), and every process
closes its ends of the pipes when it likes. A chunk is the unit of output; the
reader stops with the chunk that exceeds `Limit`. `OtherRequest` is an upstream
request that takes a permit of the same `Admission`.

### `V3Catalog`: the live catalog and its handlers

One tool per target; a definition is a version number, and `Shape` says what the
broker finds in it: a compatible or an incompatible tool, none, or two of one name.
`StartList`/`AcceptCall`/`StartCall` take the sequence lock; `RefreshAll`,
`RefreshForCall` and `RefreshAfterNotification` are the three refreshes, made of
`Consider` or `Rediscover`, `DiscoverTarget` and `Adopt`; `draft` is what a refresh
read under the state lock, and builds. The rest are the handlers: `WriteList`,
`NotifyChange`, `Refuse`, `Resolve`, `Execute…`, `LockAfter`, `TakeListChanged`,
`Reply`. Of the adapter it keeps who holds the actor, the number of the connection,
and the `list_changed` flag (`Occupy`, `ReadUpTo`, `Terminate`); that a discovery or
an execution ends is `CallReturns` of `McpSession`.

### `V2Catalog`: frozen schemas, their file, and their handlers

For one target with restricted tools and proxies. `Stage` is what
`refresh_target` makes of a discovery, `Store`/`StoreFails` is
`CatalogCache::store` (temporary file and rename: the file changes at once or
not), `Adopt` the swap of the state, `Continue` and the handlers what follows.
`Crash` may come between any two steps. `Start` reads the file, or fails to: then it
starts with nothing frozen, as if there were no file, and says so to nobody. `Respond`
is one step, since nothing waits between `list_json` and the write. How a public
schema is derived and which definition fits it are the relations `Derivable`
and `Compatible`, whose definition is `Exposure`'s subject.

### `CacheFile` and `AtomicFile`: the persistent caches

`catalog_cache.rs` and `upstream_definition_cache.rs` differ in what they write and
not in how: `CacheFile` is both. `Open` and `Read` are `load`, and `LoadFails` its
`.ok()?`: a file that cannot be opened or read is no entry; `Begin`, `Create`,
`Write`, `Sync`, `Rename` are the system calls of `store`, with `CreateFails`
(the name is taken) and `IoError` (any other failure, by `Abandon`). A file is an
inode with content, a name, and whether it is on the disk, so that a reader that
opened the file before a rename goes on reading the old one. `Crash` ends a
process between any two calls and `Start` brings one up with the same id and a
counter that begins again; `PowerLoss` loses what was not synced, and may undo
renames, since the code does not sync the directory (`unsettled`, until `Settle`).
A file that nothing names, opens or remembers gives its inode back; `MaxInodes`
bounds those in use, and `Create` waits for a free one.

`AtomicFile` is what the rest of the broker expects of such a file: a store
replaces the content at one moment or not at all, a load returns the content of
one moment. `StoreIsAtomic` is the refinement: the content is what `load` would
make of the entry file, the value of a store in progress is `pending`, a store
takes effect at `Rename`, and a load at `Open` (which is why its result is looked
up through the open handle). `V2Catalog` writes and `V3Catalog` starts from a file
that is atomic in this sense.

### `ServeLoop`: the process

One thread runs the loop and every task (`new_current_thread`), so a step is one
poll. `ReadPart`, `ReadLine`, `ReadTooLarge` and `ReadEnd` are one `fill_buf` of
`read_bounded_message` each, with a chunk of any length; a message is a sequence of
bytes, of which CR and LF are told apart. `Spawn` starts a task for each;
`AnswerAtOnce`, `AcceptNotification`, `Negotiate`, `StartCall` are its first poll
and `EndCall` its last. `Break` ends the loop and cancels, `Join` and `Exit`
await the tasks in their order and end. `CallPanics` is a call whose task panics (the
`ReapPanics` of `CliExecution`): it writes nothing, and `Join` notes the failure for the
exit status. `blocked` says that a signal ended the loop while a read of stdin waited
for bytes; tokio does such a read on a thread of its own, and the drop of the runtime at
the end of `run_serve` waits for it (`StdinHeld`), until the client sends more or closes
stdin. `WriteLine` is the synchronous write: a
line that does not fit into the pipe holds the thread (`Stuck`), and if the client
is gone the task fails. What a call does meanwhile, and the handlers of versions 2
and 3, are other modules' subjects.

### `Exposure`: the policy functions of `core`

`NumericCompare` is the comparison of `serde_json` numbers as written, with its
cases for integers and floats; `Validates` is the validator; `Intersect` merges
a constraint with an upstream property, and makes the result `Canonical`: in what is
made public, and is compiled anew for every call, a zero is the integer 0 however it was
written. `DeriveV3`, `DeriveV2`, `Compatible` and
`Resolve` are the functions of their versions. `Freeze`, `Project`, `Discover`
and `Call` put them in the order in which a broker applies them. A tool of
version 1 has a schema of its own and bindings: `StrictlyCompiles` and
`BindingCompiles` say which ones a configuration may have (`ValidPolicy`, which is
an assumption on the instance and checked by it), `ResolveCli` and `ResolveMcp`
what a call makes of them, the panic of an `unwrap` included. The reference
they are checked against is JSON Schema's own reading of the keywords (`Meets`,
`MayAccept`, `Allowed`): on numeric order instead of the code's comparison, and on
the definition and the rules instead of the schema merged from them; with a whole number
as an integer even if it is written 2.0 (`IsOf`), which the code's `TypeFits` is not;
and, for bindings, where each argument must stand (`PlacesKept`). A number is its doubled
value and how it is written, so ½ is exact; which numbers and lengths there are
(`Sizes`) and what a pattern tells apart (`Patterns`) are constants. A schema is of
a scalar, or of an array with a schema of its items; a constraint has the keywords
of numbers or those of strings (`ScalarSchema`, `ArraySchema`, `Constraint`). One
with both is left out: it intersects with no schema.

### `MC…` and `…Proofs`

An `MC` module gives the constants values. `McpSessionProofs` (processes and
permits), `McpReplyProofs` (replies and calls; it rests on the former),
`CliExecutionProofs`, `V3CatalogProofs`, `V2CatalogProofs`, `CacheFileProofs`,
`ServeLoopProofs` and `ExposureProofs` hold the theorems about the modules they are
named for. In `McpSession`, `CliExecution`, `V3Catalog`, `V2Catalog`, `CacheFile`, `ServeLoop` and `Exposure`, a definition
whose comment starts with *Mutant of* is a plausible bug, used by nothing in the
specification: it shows that the property named with it in `PROJECT.json` would
notice.

## What the runs check

| Run | Instance | States | Properties |
|---|---|---|---|
| `session` | a call and a discovery, 2 permits, 2 processes, 1 unread reply, 2 pages | 702 256 | `NoStrayProcess`, `SessionShape`, `QuietSession`, `OwnReply`, `CallSentOnce`, `SlotsConserved`; `CallReturns`, `ShutdownCompletes` |
| `catalog` | a list of two targets and two calls of the first, which changes once and reconnects once | 749 434 | `ClientInformed`, `ChangeNotForgotten`, `VerdictFromDiscovery`, `NoLostRefresh`; `RequestsAnswered`; no deadlock |
| `cli_execution` | one call, one permit shared with upstream requests, one chunk | 210 404 | `GroupReaped`, `ResultIsComplete`, `NoReaderLeft`, `PermitCoversChild`; `CallEnds` |
| `exposure` | two properties, 8 schemas (one of an array), 5 constraints, 5 values and 3 arrays, versions 2 and 3; in version 1 two bindings of 9 kinds | 177 292 | `RestrictionEnforced`, `NothingElseRejected`, `TombstoneIsDefinite` |
| `v2_catalog` | a restricted tool and a proxy, a list and a call repeated for ever, 3 definitions, a change, a crash, loads and stores that fail | 1 679 635 | `DurableBeforePublic`, `ReasonGiven`, `StaysOffered`, `ClientInformed`; `FrozenStays` |
| `cache_file` | two brokers, two contents, two temporary files of each process, a fault, loads that fail, a rename that is not on the disk | 172 825 | `EntryIsWhole`; `StoreIsAtomic`, `StoreRecovers` |
| `serve_loop` | five bytes, a limit of two, one line of stdout | 270 364 | `FramingExact`, `AnsweredOnce`, `RevisionAnnounced`; `ShutdownCompletes`; no deadlock |

After the semicolon stand temporal and action properties. Every run also checks
its module's `TypeOK`. Five more runs expect a violation.

**Why the bounds are enough.** A target has one holder at a time, so what a second
caller finds is what the first left: two callers show every such pair, and two
processes show a replacement (the second spawn of a caller, or the next caller's).
One unread reply suffices for a late or foreign one, since the reader takes them in
order and drops those of other ids. Two pages show a cursor and the limit. In the
catalog, one list and two calls are the least with which two refreshes overlap while
a third is blocked, and the second target gives the list something to overwrite; in
the second version the tool is missing (an incompatible or a duplicate one differs
from it only in the issue reported). One CLI call has the whole race; what calls
share is a permit, whose accounting is proved for any number. In `Exposure`, 0, 0.0,
½ and 1 with one string separate every case of the comparison, and two properties show
what one rule does beside another. One change and one crash of the version-2 broker
fall between any two steps of two handlers that repeat. In the cache file, two
brokers are every pair of a writer with another writer or a reader; one fault leaves
a temporary file behind, and the counter runs past the one name it blocks. In the
serve loop, a limit of two bytes puts a chunk's end before, at and after the limit
and between CR and LF; five bytes are two messages with their ends and the start of a
third, and one of them may be a negotiation while another's call is in flight.

`CHECK_DEADLOCK FALSE` is set where the program may stop: the broker exits
(`McpSession`, `CliExecution`), changes, crashes, faults and temporary names are
used up (`V2Catalog`, `CacheFile`), or every case was looked at (`Exposure`).
`MCV3Catalog.cfg` and `MCServeLoop.cfg` leave the check on, with a `Finished` step
for the end: there a deadlock would be one of the locks, or of the shutdown.

**Fairness.** `McpSession`: weak fairness of each step that does not wait for the
upstream, of `Interrupt` (a tokio timer fires) and of the serve loop; none of the
upstream, of arrivals, or of `Cancel`. `CliExecution`: weak fairness of a call's own
steps and of `Exit`; none of the clock (`Tick`), the program, the readers of a pipe,
arrivals or signals: `CallEnds` says what follows *if* the deadline passes or the
call is cancelled. `V3Catalog`: weak fairness of each handler, which assumes that
the adapter's calls end. `ServeLoop`: weak fairness of the loop, of the tasks' first
polls, of the joins, and of the end of a call once it is cancelled (`CallReturns`,
`CallEnds`); none of the client, which is why `ShutdownCompletes` has the premise
`ClientTakes` and why the exit waits for it where stdin is held. `CacheFile`: weak
fairness of the next system call of a load or a store that is under way, and of nothing
that begins one. A store that failed is not repeated by itself: `refresh_target` adopts
the catalog all the same, and stores again only when a later refresh, on a client's
request, makes another snapshot than the one adopted. `StoreRecovers` has therefore the
premise `StoresAgain`. tokio polls a woken task and its mutexes are fair queues, so a
handler that stays enabled runs; no property needs strong fairness.

**Exceptions that the properties state.** `CallReturns` and `ShutdownCompletes`
except a call that waits to write `notifications/cancelled` to a full pipe
(`Blocked`), `NoStrayProcess` the processes whose termination was dropped
(`abandoned`): both are disagreements below. `NoReaderLeft` excepts the reader of
stderr of a call that panicked, until the broker exits. The `Exposure` properties except
comparisons of the integer 0, or of a bound of 0.0, with another float
(`ZeroWithFloat`), for the same reason; `NothingElseRejected` and `TombstoneIsDefinite`
a float that is given for an integer (`FloatForInteger`), whole ones included; and
`TombstoneIsDefinite` definitions that are open (additional properties
allowed): taking a tool down whose property vanished is what the design asks for.
`V2Catalog`'s `ClientInformed` excepts a list response that rests on no discovery and
no failed one (`stale`): after a first list that was malformed, or from a broker without
a snapshot. `FrozenStays` allows a broker that does not have what is stored (its load
failed, or another broker stored since) to replace it (`Unaware`).
`AnsweredOnce` excepts a message whose task panicked or whose client has gone; then the
exit status says so. `NothingElseRejected` excepts, in version 1, arguments
with a NUL, and a tool that invokes a program and whose target is an upstream
server: the configuration lets it through, and every call of it fails. `ServeLoop`'s
`ShutdownCompletes` asks that the client takes what is written or closes stdout, and,
where a signal came while a read of stdin waited, promises the exit only once the client
sends more or closes stdin.

## Disagreements between the code and its documents

Each is a run that must find its one property violated; quotes and lines are in
`PROJECT.json`.

* `session_orphan` (`NoProcessOutlivesBroker`): a deadline or cancellation during
  the grace period of a termination inside the call's future drops it before
  SIGKILL. The child is out of the session, tokio's `Child` does not kill on
  drop, and it outlives the broker.
* `session_hang` (`InterruptedCallReturns`): `notifications/cancelled` is written
  outside every deadline, to an upstream that may not read its stdin.
* `catalog_busy` (`BusyCallNotQueued`): a call refused with `SERVER_BUSY` awaits
  the busy target's actor in `take_list_changed`, holding the sequence lock.
* `cli_panic` (`EveryCallAnswered`): a reader whose result `select!` has taken is
  polled again by `reap_cli_reader`; the task panics, and the call has no answer. The
  loop goes on, and reports "request task failed" when it joins the task. If it was
  stdout's reader, that of stderr was dropped with its handle, not aborted: it reads on
  while a descendant holds the pipe (`NoReaderLeft` allows this one).
* `exposure_zero` (`ConjunctionEnforced`): `compare_integer_float` reverses the
  order when the integer is 0, so that a minimum of 0.5 accepts 0. And a bound of 0.0 is
  the integer 0 once it is public (`canonicalize`), so that a minimum of 0.0 accepts -0.5
  and refuses 0.5.

More was seen and is written down here, or as a hazard, without a run of its own:

* A version-3 call that reconnects by itself goes on without a discovery
  (`docs/mcp-exposure-v3-design.md:74` asks for one on every reconnection), and a
  discovery refused with `SERVER_BUSY` shows as `TARGET_UNAVAILABLE`.
* `select!` gives deadline, cancellation and output limit no priority
  (`docs/implementation-design.md:210` does).
* A frozen schema does not always stay. An entry file that cannot be opened or read when
  the broker starts is no entry (`catalog_cache.rs:48-52`, `v2_catalog.rs:36-38`): the
  next refresh freezes anew and replaces it. Two brokers of one configuration share the
  file (`catalog_cache.rs:41`), and the one that stores last replaces the other's.
  `docs/mcp-exposure-design.md:62` keeps the public schema, over reconnections and
  restarts, until the administrator updates the snapshot. `FrozenStays` states what is
  left of it.
* A store that fails is not repeated, unless it was to freeze a tool: the catalog is
  adopted all the same (`v2_catalog.rs:219-255`), and with the same definitions there is
  nothing to store the next time, so that a restart goes back to the older file.
* After SIGINT or SIGTERM with stdin open and silent, every task is awaited, but the
  process does not exit: the drop of the runtime (`boundary/src/main.rs:302-312`) waits
  for the blocking read of stdin. `docs/design.md:435` and
  `docs/implementation-design.md:287` promise that it ends; the test
  (`boundary/tests/cli_e2e.rs:465`) closes stdin before it waits.
* An integer is what is written as one: 2.0 is refused where `integer` is asked for
  (`core/src/lib.rs:1336`, `1995`). `docs/design.md:343` adopts JSON Schema 2020-12,
  which counts it as an integer, and `docs/implementation-design.md:86` refuses only
  values with a fractional part.
* A response is written synchronously on the only thread. While the client does not
  read, no signal, deadline or cancellation is seen; `docs/implementation-design.md:287`
  promises a shutdown on end of input, SIGINT and SIGTERM without that condition.
* A version-1 tool with `invoke.cli` may name an upstream target
  (`core/src/lib.rs:721`), although `docs/design.md:98` promises that references
  are checked when the broker starts.
* The CR of a CRLF counts towards the limit of a message, although the comment at
  `boundary/src/main.rs:601` says that the delimiter does not. The check at line
  511 and the one at 618 can never be true.
* A store whose directory is not synced can be undone by a power loss, and
  temporary files of crashed processes are never removed.

## What is proved

For every value of the constants that the named assumption of each module allows
(finite sets, disjoint names, a `None` that is no other value, bounds that are
numbers; each is checked by TLC on its instance), TLAPS proves the theorems below.
Each has the same shape: `IInv` holds at first, every step keeps it, and it implies
the property; one lemma for each part of the invariant, one step for each action.

* `McpSessionProofs`: `TypeCorrect`, `SlotsAreConserved`, `ShapeHolds`,
  `NoProcessIsStray`. The inductive invariant is `TypeOK /\ SlotsConserved /\
  SessionShape /\ NoStrayProcess`. `SessionShape` is the heart of it: it says
  which of `ready`, `starting` and `held` are empty at each point of the actor's
  holder, so that an assignment never overwrites a running process; without it
  `NoStrayProcess` is not inductive. `SlotsConserved` bounds the permits from
  above, which `TypeOK` needs. The lemmas `Alone`, `KeepsShape`, `IdleShape`,
  `ReleaseShape` and `TakeShape` say why the parties that do not hold the actor
  need no case of their own.
* `McpReplyProofs`: `RepliesAreOwn` (`OwnReply`), `CallsAreSentOnce` (`CallSentOnce`)
  and `SessionIsQuiet` (`QuietSession`). To the invariant above come `Spawned` (what
  has not been spawned has no messages), `Matched` (ids on a connection are below its
  next id, and a reply has the id and the caller of a request), `Sent` (who has
  written a tool request, and to which process) and `Settled` (a tool request on the
  ready process was answered, or is the holder's own). A late answer to a
  predecessor's request may be unread at the next one, so a reply is one's own
  because of its id and not of its place: this is what `Matched` says.
* `CliExecutionProofs`: `TypeCorrect`, `PermitIsHeld` (`PermitCoversChild`),
  `GroupIsReaped` (`GroupReaped`), `ResultsAreComplete` (`ResultIsComplete`) and
  `ReadersEnd` (`NoReaderLeft`, with its exception for a panic), from `TypeOK /\ PermitsAdd`, and `CallFits` and
  `Collected` of every call. `CallFits` says what a call's child, its group and its readers are
  before the spawn, in the loop, while readers are reaped, and after the end. Types
  need it too: that a reader adds at most one chunk past the limit rests on its
  having stopped there. `Collected` says which readers have ended at each point of a
  call; without it a call could finish with a pipe nobody has read to its end.
* `V3CatalogProofs`: `TypeCorrect`, `ClientStaysInformed` (`ClientInformed`),
  `ChangesNoticed` (`ChangeNotForgotten`), `VerdictsDiscovered`
  (`VerdictFromDiscovery`) and `RefreshesKept` (`NoLostRefresh`). Each of the four
  speaks of the catalog while no refresh is being reported, so none is inductive; in
  `TypeOK /\ Turns /\ Current /\ Known /\ Informed /\ Announced`, `Turns` says who
  has the sequence lock and what a handler has to do at its point, `Current` that
  the catalog, or the draft that will replace it, has the latest discovery of each
  target, which is why adopting a draft undoes nothing; `Known` that what is fresh
  was discovered, and so was a verdict; `Informed` that the client knows or a
  handler is about to tell it; `Announced` that a change is unread, flagged, or
  about to be discovered.
* `V2CatalogProofs`: `TypeCorrect`, `ReasonIsGiven`, `ClientStaysInformed` and
  `FrozenStaysFrozen` (the action property `FrozenStays`), for any number of brokers;
  and, for one broker, `PublicIsDurable` (`DurableBeforePublic`) and `OffersStay`
  (`StaysOffered`). Of
  each broker the invariant says that snapshots, offers and reasons fit each other,
  both in the catalog and in what is staged (`Agrees`), that what is staged keeps
  the public schemas there are (`Extends`), and that an offer the client has not seen
  is one a request under way owes it (`Informs`); none of them depends on another
  broker. `Durable` says that the file has the schemas of the catalog, or of what is
  about to be adopted. It needs the hypothesis `OneBroker`: two brokers that freeze
  a tool from different definitions overwrite each other's file, and these two
  properties are false of them (see the disagreements above). One broker that
  crashes and restarts any number of times, and fails to load, is within the hypothesis.
  `FrozenStays` needs only `Extends`: a broker that has what is stored stages it again.
* `CacheFileProofs`: `TypeCorrect`, `EntryStaysWhole` (`EntryIsWhole`) and
  `Refinement` (`StoreIsAtomic`), from `TypeOK /\ EntryIsWhole /\
  WritersApart /\ StepsDone`. `WritersApart` says that the inode a process writes is
  nobody else's, not the entry and none a power loss may bring back, although ids
  and counters repeat; `StepsDone`
  that a file has been written whole and synced by the time it is renamed. The
  refinement is proved step by step: initial states map to initial states, `Rename`
  is the atomic store, `Open` the load, a crash or a power loss the loss of what
  `AtomicFile` allows to be lost, and every other step a stutter.
* `ServeLoopProofs`: `TypeCorrect`, `FramingIsExact`, `RequestsAnsweredOnce` and
  `RevisionIsAnnounced`, from `TypeOK /\ Answers /\ Announces /\ Framed`. `Framed`
  says that the messages so far are the lines of the bytes so far, and the incomplete
  message what follows the last of them, whatever the chunks were; `Answers` which
  tasks have a line on stdout, which have ended and how, and that a joined failure is noted; `Announces` that the revision
  in force is the one that was answered last.

* `ExposureProofs`: `TypeCorrect`, `Enforcement` (`RestrictionEnforced`),
  `Completeness` (`NothingElseRejected`), `TombstoneFinal` (`TombstoneIsDefinite`),
  for any names, numbers, patterns and definitions, and any configuration that passes
  its validation. The state needs little of an invariant: `PublicIsDerived` says which
  definition the public schema comes from and by which version's rules,
  `CallIsResolved` with what the last call was resolved. The work is in the
  operators. `Compares` says that the code's comparison, by halves and signs, is the
  order of the numbers, except where one is the integer 0 and the other another float;
  `EqualsAreSame` that its equality is the reference's; `ValidatesIsMeets` that the
  validator reads a schema as JSON Schema does, but for a float given for an integer;
  and `Conjunction`, listed as a theorem of its own, that an intersection, made
  canonical, accepts only what the schema and the constraint both accept, and all of it
  but such a float. That a canonical schema says the same by numeric order, and what
  `Canonical` does to its bounds and types, are lemmas before it: it is the code's
  comparison that reads a bound of 0.0 differently afterwards. From these a whole restriction follows in both directions
  (`OnlyAllowed`, `AllAllowed`), and that an incompatible definition accepts no call
  of the frozen schema (`Incompatible`). For version 1, `McpResolves` and `CliResolves`
  follow the bindings; the arguments of a program are a list of any length of lists of
  any length, of which the first and last are at their places (`Flattens`). This
  needs induction over the length, for which the lemma `Induction` serves: a set of
  numbers, not a predicate, that has 0 and the successors of its members has them all,
  since `<` on them is well founded. The properties are proved as the run states them,
  their exceptions (listed above) included.

Only model-checked: liveness (`CallReturns`, `ShutdownCompletes`, `CallEnds`,
`RequestsAnswered`, `StoreRecovers`): that something happens rests on fairness and on
which actions are enabled, which is beyond what these proofs do. Every invariant and
every other property of the passing runs is proved; two of `V2Catalog`
under `OneBroker`. A proof says nothing about the five
disagreements: there TLC's counterexamples stand.

## What is not modelled

* The content of envelopes, parameters and JSON limits: an invalid one is one kind of
  message in `ServeLoop`, a large pure function with no state.
* In `Exposure`: nested objects, booleans, `uniqueItems`, composite bindings
  (objects and arrays of bindings); a definition with a
  keyword the compiler does not support is one value. A definition without properties
  has none (`restricted_compatibility` takes an absent `properties` for compatible, and
  a derived schema always has them); the limit of a string's bytes (`lib.rs:2080`) is
  never reached, since a request with such a string is refused before
  (`boundary/src/main.rs:660`).
* The management view (`management_json`), which changes no state; public names that
  collide, which a configuration cannot have.
* The digest and the format of the cache files: a file is accepted by `load` or not.
* Of the configuration, YAML, identifiers, paths, limits and environments: pure
  functions over a large input language.
* Diagnostics (best-effort output), the command line, test programs and tooling.
* The runtime and the operating system, except for what the modules say of
  scheduling, pipes, processes and files.

## Plan

Done: `McpSession`, `CliExecution`, `V3Catalog`, `V2Catalog`, `ServeLoop`,
`Exposure`, and `CacheFile` with its abstraction `AtomicFile`; the safety properties
of all of them are proved, the refinement included. Next to prove: that `V2Catalog`
may be given `AtomicFile` for its `disk`.

Of the model, what is left: `V3Catalog`'s view of an actor as an abstraction of
`McpSession`; nested objects in `Exposure`.

Each run takes less than three minutes with two workers, and each proof module
about as much or less.
