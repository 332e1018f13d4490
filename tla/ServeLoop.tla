----------------------------- MODULE ServeLoop ------------------------------
(***************************************************************************)
(* The broker's process: serve_stdio and what it calls (main.rs). It frames *)
(* the client's bytes into messages, spawns a task for each, and ends when  *)
(* the client closes stdin, a signal arrives, a message is too large or     *)
(* stdin fails: it cancels the calls, awaits every task and exits, once no  *)
(* read of stdin is left that the drop of the runtime waits for.            *)
(*                                                                          *)
(* The runtime has one thread (new_current_thread), and a response is       *)
(* written to stdout synchronously: a step is one poll of the loop or of a  *)
(* task, from one suspension to the next, and while the pipe is full there  *)
(* is no step at all. Handlers are those of version 1; V2Catalog and        *)
(* V3Catalog model those of the other versions, McpSession and              *)
(* CliExecution what a call does before it ends.                            *)
(***************************************************************************)
EXTENDS Naturals, Sequences, FiniteSets

CONSTANTS
  CR, LF,      \* two bytes; others are parts of messages
  Kind,        \* what the line of a request asks for; any other line is no request
  Bodies,      \* what the client puts between line ends
  RequestBytes,\* config.request_bytes
  Capacity,    \* bound: lines that fit into the stdout pipe
  MaxBytes     \* bound: bytes the client sends

Lines == DOMAIN Kind
Byte == {CR, LF} \cup UNION {{b[i] : i \in DOMAIN b} : b \in Bodies}
TooLarge == <<LF>>  \* in the place of a line that was not read: no line has an LF

ASSUME ServeAssumption ==
  /\ CR # LF
  /\ Kind \in [Lines -> {"legacy", "modern", "call", "notification", "other"}]
  /\ Bodies \subseteq Seq(Byte)
  /\ \A b \in Bodies \cup Lines : \A i \in 1 .. Len(b) : b[i] # LF
  /\ RequestBytes \in Nat \ {0} /\ Capacity \in Nat /\ MaxBytes \in Nat

VARIABLES
  sent,       \* bytes the client has sent
  closed,     \* it has closed its end of stdin
  signalled,  \* SIGINT or SIGTERM is pending
  taken,      \* lines of stdout the client has taken
  reading,    \* it holds its end of stdout
  pos,        \* bytes of sent the broker has consumed
  message,    \* the incomplete message of read_bounded_message
  loop,       \* "reading", "joining" the tasks, or "exited"
  cancelled,  \* the Cancellation
  requests,   \* history: what was read, one entry for each spawned task
  tasks,      \* the state of each task
  joined,     \* tasks that were awaited
  revision,   \* PublicRevision
  written,    \* history: the lines written to stdout
  failed,     \* an error the broker exits with
  blocked     \* the loop has ended while a read of stdin waited for bytes

clientVars == <<sent, closed, signalled, taken, reading>>
loopVars == <<pos, message, loop, cancelled, requests, joined, failed, blocked>>
vars == <<clientVars, loopVars, tasks, revision, written>>

Line == [task : Nat, kind : {"negotiated", "result", "other"}, revision : {"legacy", "modern"}]

TaskStates == {"spawned", "executing", "done", "failed", "panicked"}

TypeOK ==
  /\ sent \in Seq(Byte) /\ Len(sent) <= MaxBytes
  /\ closed \in BOOLEAN /\ signalled \in BOOLEAN
  /\ taken \in 0 .. Len(written) /\ reading \in BOOLEAN
  /\ pos \in 0 .. Len(sent) /\ message \in Seq(Byte) /\ Len(message) <= RequestBytes
  /\ loop \in {"reading", "joining", "exited"}
  /\ cancelled \in BOOLEAN
  /\ requests \in Seq(Seq(Byte))
  /\ tasks \in Seq(TaskStates) /\ Len(tasks) = Len(requests)
  /\ joined \in 0 .. Len(tasks)
  /\ revision \in {"legacy", "modern"}
  /\ written \in Seq(Line)
  /\ failed \in BOOLEAN /\ blocked \in BOOLEAN

Init ==
  /\ sent = <<>> /\ closed = FALSE /\ signalled = FALSE
  /\ taken = 0 /\ reading = TRUE
  /\ pos = 0 /\ message = <<>>
  /\ loop = "reading" /\ cancelled = FALSE
  /\ requests = <<>> /\ tasks = <<>> /\ joined = 0
  /\ revision = "legacy"
  /\ written = <<>>
  /\ failed = FALSE /\ blocked = FALSE

\* A line that does not fit into the pipe holds the only thread.
Stuck == reading /\ Len(written) - taken > Capacity

-----------------------------------------------------------------------------
(* Framing: one fill_buf of read_bounded_message. *)

\* The bytes up to n, of which only the last may end a line.
Chunk(n) == SubSeq(sent, pos + 1, pos + n)
IsChunk(n) == \A i \in 1 .. n - 1 : Chunk(n)[i] # LF

Strip(line) ==
  IF line # <<>> /\ line[Len(line)] = CR THEN SubSeq(line, 1, Len(line) - 1) ELSE line

Spawn(request) ==
  /\ requests' = Append(requests, request)
  /\ tasks' = Append(tasks, "spawned")

\* Mutant of Break: the calls go on.
BreakUncancelled ==
  /\ loop' = "joining"
  /\ UNCHANGED cancelled

\* The loop ends: the calls are cancelled in the same step.
Break ==
  /\ loop' = "joining"
  /\ cancelled' = TRUE

\* Mutant of ReadPart: the size of one chunk is compared with the limit.
ReadPartOfChunk(n) ==
  /\ loop = "reading" /\ ~Stuck
  /\ IsChunk(n) /\ Chunk(n)[n] # LF
  /\ n <= RequestBytes
  /\ message' = message \o Chunk(n)
  /\ pos' = pos + n
  /\ UNCHANGED <<clientVars, loop, cancelled, requests, joined, failed, blocked, tasks, revision,
                 written>>

\* Part of a message that is still within the limit.
ReadPart(n) ==
  /\ loop = "reading" /\ ~Stuck
  /\ IsChunk(n) /\ Chunk(n)[n] # LF
  /\ Len(message) + n <= RequestBytes
  /\ message' = message \o Chunk(n)
  /\ pos' = pos + n
  /\ UNCHANGED <<clientVars, loop, cancelled, requests, joined, failed, blocked, tasks, revision,
                 written>>

\* Mutant of ReadLine: what was read of the line before is lost.
ReadLineOfChunk(n) ==
  /\ loop = "reading" /\ ~Stuck
  /\ IsChunk(n) /\ Chunk(n)[n] = LF
  /\ Len(message) + n - 1 <= RequestBytes
  /\ Spawn(Strip(SubSeq(Chunk(n), 1, n - 1)))
  /\ message' = <<>>
  /\ pos' = pos + n
  /\ UNCHANGED <<clientVars, loop, cancelled, joined, failed, blocked, revision, written>>

\* The end of a message that is within the limit.
ReadLine(n) ==
  /\ loop = "reading" /\ ~Stuck
  /\ IsChunk(n) /\ Chunk(n)[n] = LF
  /\ Len(message) + n - 1 <= RequestBytes
  /\ Spawn(Strip(message \o SubSeq(Chunk(n), 1, n - 1)))
  /\ message' = <<>>
  /\ pos' = pos + n
  /\ UNCHANGED <<clientVars, loop, cancelled, joined, failed, blocked, revision, written>>

\* Its size has crossed the limit, before its end or with it: no more is read.
ReadTooLarge(n) ==
  LET body == IF Chunk(n)[n] = LF THEN n - 1 ELSE n IN
  /\ loop = "reading" /\ ~Stuck
  /\ IsChunk(n) /\ Len(message) + body > RequestBytes
  /\ Spawn(TooLarge)
  /\ Break
  /\ message' = <<>>
  /\ pos' = pos + n
  /\ UNCHANGED <<clientVars, joined, failed, blocked, revision, written>>

\* The client has closed stdin: what is left is a message too, then the loop ends.
ReadEnd ==
  /\ loop = "reading" /\ ~Stuck
  /\ closed /\ pos = Len(sent)
  /\ IF message = <<>>
     THEN Break /\ UNCHANGED <<message, requests, tasks>>
     ELSE /\ Spawn(Strip(message))
          /\ message' = <<>>
          /\ UNCHANGED <<loop, cancelled>>
  /\ UNCHANGED <<clientVars, pos, joined, failed, blocked, revision, written>>

ReadFails ==
  /\ loop = "reading" /\ ~Stuck
  /\ failed' = TRUE
  /\ Break
  /\ UNCHANGED <<clientVars, pos, message, requests, joined, blocked, tasks, revision, written>>

\* A signal comes between two reads of stdin, or while one waits for bytes.
TakeSignal ==
  /\ loop = "reading" /\ ~Stuck
  /\ signalled
  /\ Break
  /\ blocked' \in {FALSE, pos = Len(sent) /\ ~closed}
  /\ UNCHANGED <<clientVars, pos, message, requests, joined, failed, tasks, revision, written>>

-----------------------------------------------------------------------------
(* Tasks. *)

\* write_json_line: the task ends with the write, or with its failure.
WriteLine(m, kind, rev) ==
  IF reading
  THEN /\ written' = Append(written, [task |-> m, kind |-> kind, revision |-> rev])
       /\ tasks' = [tasks EXCEPT ![m] = "done"]
  ELSE /\ tasks' = [tasks EXCEPT ![m] = "failed"]
       /\ UNCHANGED written

KindOf(m) == IF requests[m] \in Lines THEN Kind[requests[m]] ELSE "invalid"

\* An oversized or invalid message, an envelope or parameters that do not
\* validate, tools/list and unknown methods: the answer is there.
AnswerAtOnce(m) ==
  /\ tasks[m] = "spawned" /\ ~Stuck
  /\ KindOf(m) \in {"invalid", "other"}
  /\ WriteLine(m, "other", revision)
  /\ UNCHANGED <<clientVars, loopVars, revision>>

AcceptNotification(m) ==
  /\ tasks[m] = "spawned" /\ ~Stuck
  /\ KindOf(m) = "notification"
  /\ tasks' = [tasks EXCEPT ![m] = "done"]
  /\ UNCHANGED <<clientVars, loopVars, revision, written>>

\* initialize and server/discover fix the revision and answer with it.
Negotiate(m) ==
  /\ tasks[m] = "spawned" /\ ~Stuck
  /\ KindOf(m) \in {"legacy", "modern"}
  /\ revision' = KindOf(m)
  /\ WriteLine(m, "negotiated", KindOf(m))
  /\ UNCHANGED <<clientVars, loopVars>>

\* tools/call is refused once the broker is shutting down.
StartCall(m) ==
  /\ tasks[m] = "spawned" /\ ~Stuck
  /\ KindOf(m) = "call"
  /\ IF cancelled
     THEN WriteLine(m, "other", revision)
     ELSE tasks' = [tasks EXCEPT ![m] = "executing"] /\ UNCHANGED written
  /\ UNCHANGED <<clientVars, loopVars, revision>>

\* Mutant of EndCall: the answer takes the first revision.
EndCallLegacy(m) ==
  /\ tasks[m] = "executing" /\ ~Stuck
  /\ WriteLine(m, "result", "legacy")
  /\ UNCHANGED <<clientVars, loopVars, revision>>

\* The execution ends; the answer takes the revision of this moment.
EndCall(m) ==
  /\ tasks[m] = "executing" /\ ~Stuck
  /\ WriteLine(m, "result", revision)
  /\ UNCHANGED <<clientVars, loopVars, revision>>

\* The call panics (ReapPanics of CliExecution): its task ends without a line.
CallPanics(m) ==
  /\ tasks[m] = "executing" /\ ~Stuck
  /\ tasks' = [tasks EXCEPT ![m] = "panicked"]
  /\ UNCHANGED <<clientVars, loopVars, revision, written>>

-----------------------------------------------------------------------------
(* Shutdown: every task is awaited, then McpExecutor::shutdown; serve_stdio    *)
(* returns, and run_serve drops the runtime.                                   *)

Ended(m) == tasks[m] \in {"done", "failed", "panicked"}

Join ==
  /\ loop = "joining" /\ ~Stuck
  /\ joined < Len(tasks) /\ Ended(joined + 1)
  /\ joined' = joined + 1
  /\ failed' = (failed \/ tasks[joined + 1] # "done")
  /\ UNCHANGED <<clientVars, pos, message, loop, cancelled, requests, blocked, tasks, revision,
                 written>>

\* A blocking read of stdin cannot be cancelled: it ends with the client's next
\* bytes or with the end of stdin.
StdinHeld == blocked /\ pos = Len(sent) /\ ~closed

\* Mutant of Exit: the tasks of the last message are left behind.
ExitEarly ==
  /\ loop = "joining" /\ ~Stuck
  /\ joined + 1 >= Len(tasks) /\ ~StdinHeld
  /\ loop' = "exited"
  /\ UNCHANGED <<clientVars, pos, message, cancelled, requests, joined, failed, blocked,
                 tasks, revision, written>>

Exit ==
  /\ loop = "joining" /\ ~Stuck
  /\ joined = Len(tasks) /\ ~StdinHeld
  /\ loop' = "exited"
  /\ UNCHANGED <<clientVars, pos, message, cancelled, requests, joined, failed, blocked,
                 tasks, revision, written>>

-----------------------------------------------------------------------------
(* The client and the operating system (external). *)

Send(b) ==
  /\ ~closed /\ Len(sent) + Len(b) < MaxBytes
  /\ sent' = sent \o b \o <<LF>>
  /\ UNCHANGED <<closed, signalled, taken, reading, loopVars, tasks, revision, written>>

\* It closes stdin, within a message or between two.
Close ==
  /\ ~closed
  /\ closed' = TRUE
  /\ \E b \in Bodies \cup {<<>>} : Len(sent) + Len(b) <= MaxBytes /\ sent' = sent \o b
  /\ UNCHANGED <<signalled, taken, reading, loopVars, tasks, revision, written>>

Signal ==
  /\ ~signalled
  /\ signalled' = TRUE
  /\ UNCHANGED <<sent, closed, taken, reading, loopVars, tasks, revision, written>>

Take ==
  /\ reading /\ taken < Len(written)
  /\ taken' = taken + 1
  /\ UNCHANGED <<sent, closed, signalled, reading, loopVars, tasks, revision, written>>

\* A write that is waiting for the pipe fails.
StopReading ==
  /\ reading
  /\ reading' = FALSE
  /\ tasks' = IF Stuck THEN [tasks EXCEPT ![written[Len(written)].task] = "failed"] ELSE tasks
  /\ UNCHANGED <<sent, closed, signalled, taken, loopVars, revision, written>>

-----------------------------------------------------------------------------
Read ==
  \/ \E n \in 1 .. Len(sent) - pos : ReadPart(n) \/ ReadLine(n) \/ ReadTooLarge(n)
  \/ ReadEnd \/ TakeSignal

Handle ==
  \E m \in 1 .. Len(tasks) :
    AnswerAtOnce(m) \/ AcceptNotification(m) \/ Negotiate(m) \/ StartCall(m)

End(m) == EndCall(m) \/ CallPanics(m)

Finished == loop = "exited" /\ UNCHANGED vars

Next ==
  \/ Read \/ ReadFails \/ Handle \/ (\E m \in 1 .. Len(tasks) : End(m)) \/ Join \/ Exit
  \/ (\E b \in Bodies : Send(b)) \/ Close \/ Signal \/ Take \/ StopReading
  \/ Finished

Spec == Init /\ [][Next]_vars

(* The runtime polls what is ready. A call ends once it is cancelled          *)
(* (CallReturns of McpSession, CallEnds of CliExecution); nothing is assumed  *)
(* of the client.                                                             *)
FairSpec ==
  /\ Spec
  /\ WF_vars(Read) /\ WF_vars(Handle) /\ WF_vars(Join \/ Exit)
  /\ WF_vars(cancelled /\ \E m \in 1 .. Len(tasks) : End(m))
-----------------------------------------------------------------------------
(* Properties *)

\* The lines of a stream, by their definition, whatever chunks it came in: every
\* line that ended within the limit, and then a line that crossed it, if any.
LineEnds == {i \in 1 .. pos : sent[i] = LF}
Body(i) ==
  LET from == {j \in LineEnds : j < i} \cup {0}
  IN  SubSeq(sent, (CHOOSE j \in from : \A k \in from : k <= j) + 1, i - 1)
NthEnd(n) == CHOOSE i \in LineEnds : Cardinality({j \in LineEnds : j <= i}) = n
FramingExact ==
  \A n \in 1 .. Len(requests) :
    requests[n] =
      IF n > Cardinality(LineEnds) THEN
        (IF Len(Body(pos + 1)) > RequestBytes THEN TooLarge ELSE Strip(Body(pos + 1)))
      ELSE IF Len(Body(NthEnd(n))) > RequestBytes THEN TooLarge ELSE Strip(Body(NthEnd(n)))

\* A request is never answered twice. When the broker exits, every message it read
\* was answered, unless its client had gone or its call had panicked; then at least
\* the exit status tells that one was not.
AnsweredOnce ==
  \A m \in 1 .. Len(requests) :
    LET answers == {k \in 1 .. Len(written) : written[k].task = m} IN
    /\ Cardinality(answers) <= 1
    /\ loop = "exited" /\ KindOf(m) # "notification" /\ answers = {} =>
         failed /\ (tasks[m] = "panicked" \/ ~reading)

\* A call is answered in the revision of the last negotiation the client was
\* answered, even if the call began before it.
RevisionAnnounced ==
  \A k \in 1 .. Len(written) :
    LET before == {j \in 1 .. k - 1 : written[j].kind = "negotiated"} IN
    written[k].kind = "result" =>
      written[k].revision = IF before = {} THEN "legacy"
        ELSE written[CHOOSE j \in before : \A i \in before : i <= j].revision

\* A shutdown comes to its end, with calls in flight, in any order of the tasks,
\* if the client takes what is written or closes stdout: once stdin is closed the
\* broker exits. After a signal it has awaited every task, and exits if no read of
\* stdin is left, or once the client sends more or closes stdin.
ClientTakes == []<>(~Stuck)
ShutdownCompletes ==
  ClientTakes =>
    /\ closed ~> loop = "exited"
    /\ signalled ~> loop # "reading" /\ joined = Len(tasks)
    /\ loop = "joining" /\ ~StdinHeld ~> loop = "exited"
=============================================================================
