---------------------------- MODULE CliExecution ----------------------------
(***************************************************************************)
(* Direct CLI calls (crates/runtime/src/lib.rs, execute_cli_inner and what  *)
(* it calls): admission, the process group of a call, the two bounded       *)
(* readers of its output, the select! loop over the child's exit, the       *)
(* readers, the deadline and the cancellation, termination and the reaping  *)
(* of the readers; with the serve loop's cancel and drain (main.rs).        *)
(*                                                                          *)
(* The program is arbitrary: it may fork, inside its process group          *)
(* ("member") or out of it ("escaped"), close its output, write too much,   *)
(* exit with any status, or ignore SIGTERM.                                 *)
(***************************************************************************)
EXTENDS Naturals, FiniteSets

CONSTANTS
  Calls,   \* CLI calls
  Slots,   \* GLOBAL_CALL_SLOTS
  Limit    \* stdout_bytes and stderr_bytes, in chunks

ASSUME CliAssumption == IsFiniteSet(Calls) /\ Slots \in Nat \ {0} /\ Limit \in Nat

VARIABLES
  pc,         \* where each call's future stands
  outcome,    \* the code a call returns; while it terminates, the code to come
  slots,      \* free permits of Admission
  others,     \* permits held by upstream MCP calls and discoveries
  cancelled,  \* the Cancellation watch
  broker,     \* the serve loop
  leader,     \* the child a call spawned
  success,    \* the child's exit status is 0
  status,     \* the local status of execute_cli_inner
  descendants, \* processes the child left, alive
  holds,      \* who has the writing end of a pipe open
  total,      \* chunks a reader has read
  reader,     \* the reader task of a pipe
  joined,     \* pipes whose reader's result was taken
  toReap,     \* readers reap_cli_reader is still to be called for
  late        \* the deadline has passed

processVars == <<leader, success, descendants, holds>>
readerVars == <<total, reader>>
loopVars == <<status, joined, toReap>>
brokerVars == <<others, cancelled, broker>>
vars == <<pc, outcome, slots, brokerVars, processVars, readerVars, loopVars, late>>

Pipes == {"stdout", "stderr"}
Descendants == {"member", "escaped"}
Codes == {"none", "OK", "SERVER_BUSY", "CANCELLED", "TARGET_UNAVAILABLE", "TARGET_TIMEOUT",
          "TARGET_FAILED", "OUTPUT_LIMIT_EXCEEDED", "INVALID_TARGET_OUTPUT"}
Ended(c) == pc[c] \in {"done", "panicked"}
InFlight == {c \in Calls : pc[c] # "idle" /\ ~Ended(c)}

TypeOK ==
  /\ pc \in [Calls -> {"idle", "spawning", "top", "select", "grace", "reap", "finish",
                       "done", "panicked"}]
  /\ outcome \in [Calls -> Codes]
  /\ slots \in 0 .. Slots /\ others \in 0 .. Slots
  /\ cancelled \in BOOLEAN
  /\ broker \in {"serving", "draining", "exited"}
  /\ leader \in [Calls -> {"none", "up", "zombie", "reaped"}]
  /\ success \in [Calls -> BOOLEAN]
  /\ status \in [Calls -> {"none", "exited", "failed"}]
  /\ descendants \in [Calls -> SUBSET Descendants]
  /\ holds \in [Calls -> [Pipes -> SUBSET ({"leader"} \cup Descendants)]]
  /\ total \in [Calls -> [Pipes -> 0 .. Limit + 1]]
  /\ reader \in [Calls -> [Pipes -> {"none", "reading", "eof", "limit", "io", "aborted"}]]
  /\ joined \in [Calls -> SUBSET Pipes]
  /\ toReap \in [Calls -> SUBSET Pipes]
  /\ late \in [Calls -> BOOLEAN]

Init ==
  /\ pc = [c \in Calls |-> "idle"]
  /\ outcome = [c \in Calls |-> "none"]
  /\ slots = Slots /\ others = 0
  /\ cancelled = FALSE
  /\ broker = "serving"
  /\ leader = [c \in Calls |-> "none"]
  /\ success = [c \in Calls |-> FALSE]
  /\ status = [c \in Calls |-> "none"]
  /\ descendants = [c \in Calls |-> {}]
  /\ holds = [c \in Calls |-> [p \in Pipes |-> {}]]
  /\ total = [c \in Calls |-> [p \in Pipes |-> 0]]
  /\ reader = [c \in Calls |-> [p \in Pipes |-> "none"]]
  /\ joined = [c \in Calls |-> {}]
  /\ toReap = [c \in Calls |-> {}]
  /\ late = [c \in Calls |-> FALSE]

-----------------------------------------------------------------------------
(* Helpers *)

Goto(c, point) == pc' = [pc EXCEPT ![c] = point]
Answer(c, code) == outcome' = [outcome EXCEPT ![c] = code]
\* Mutant of Release: the permit is given back twice.
ReleaseTwice == slots' = slots + 2

\* The admission permit is dropped with the call's future.
Release == slots' = slots + 1
\* The ends of the pipes that processes which are gone held are closed.
CloseAll(c, gone) == holds' = [holds EXCEPT ![c] = [p \in Pipes |-> @[p] \ gone]]

\* Mutant of BeginTermination: the permit is given back before the processes end.
BeginTerminationReleasing(c, code, pipes) ==
  /\ Answer(c, code)
  /\ toReap' = [toReap EXCEPT ![c] = pipes]
  /\ Goto(c, "grace")
  /\ slots' = IF slots < Slots THEN slots + 1 ELSE slots

\* terminate_cli_process begins (SIGTERM to the group), and pipes are the
\* readers that are reaped after it.
BeginTermination(c, code, pipes) ==
  /\ Answer(c, code)
  /\ toReap' = [toReap EXCEPT ![c] = pipes]
  /\ Goto(c, "grace")
  /\ UNCHANGED slots

-----------------------------------------------------------------------------
(* Admission and spawn. *)

Refuse(c) ==
  /\ pc[c] = "idle" /\ broker # "exited"
  /\ cancelled \/ slots = 0
  /\ Answer(c, IF cancelled THEN "CANCELLED" ELSE "SERVER_BUSY")
  /\ Goto(c, "done")
  /\ UNCHANGED <<slots, brokerVars, processVars, readerVars, loopVars, late>>

Admit(c) ==
  /\ pc[c] = "idle" /\ broker # "exited" /\ ~cancelled /\ slots > 0
  /\ slots' = slots - 1
  /\ Goto(c, "spawning")
  /\ UNCHANGED <<outcome, brokerVars, processVars, readerVars, loopVars, late>>

SpawnFails(c) ==
  /\ pc[c] = "spawning"
  /\ Answer(c, "TARGET_UNAVAILABLE")
  /\ Release
  /\ Goto(c, "done")
  /\ UNCHANGED <<brokerVars, processVars, readerVars, loopVars, late>>

\* The child leads a process group of its own; one reader task per pipe.
Spawn(c) ==
  /\ pc[c] = "spawning"
  /\ leader' = [leader EXCEPT ![c] = "up"]
  /\ holds' = [holds EXCEPT ![c] = [p \in Pipes |-> {"leader"}]]
  /\ reader' = [reader EXCEPT ![c] = [p \in Pipes |-> "reading"]]
  /\ Goto(c, "top")
  /\ UNCHANGED <<outcome, slots, brokerVars, success, descendants, total, loopVars,
                 late>>

-----------------------------------------------------------------------------
(* The collection loop. *)

\* Mutant of Complete: the loop ends with the child, not with its output.
CompleteWithChild(c) == status[c] # "none"

Complete(c) == status[c] # "none" /\ joined[c] = Pipes

\* The head of the loop: all collected, or the deadline has passed, or select!.
Top(c) ==
  /\ pc[c] = "top"
  /\ \/ Complete(c) /\ Goto(c, "finish") /\ UNCHANGED <<outcome, slots, toReap>>
     \/ ~Complete(c) /\ late[c] /\ BeginTermination(c, "TARGET_TIMEOUT", Pipes)
     \/ ~Complete(c) /\ ~late[c] /\ Goto(c, "select") /\ UNCHANGED <<outcome, slots, toReap>>
  /\ UNCHANGED <<brokerVars, processVars, readerVars, status, joined, late>>

WaitChild(c) ==
  /\ pc[c] = "select" /\ status[c] = "none" /\ leader[c] = "zombie"
  /\ leader' = [leader EXCEPT ![c] = "reaped"]
  /\ \E s \in {"exited", "failed"} : status' = [status EXCEPT ![c] = s]
  /\ Goto(c, "top")
  /\ UNCHANGED <<outcome, slots, brokerVars, success, descendants, holds, readerVars,
                 joined, toReap, late>>

\* A reader ended: its result is taken; an error terminates the call.
Join(c, p) ==
  /\ pc[c] = "select" /\ p \notin joined[c] /\ reader[c][p] \in {"eof", "limit", "io"}
  /\ joined' = [joined EXCEPT ![c] = @ \cup {p}]
  /\ CASE reader[c][p] = "eof" -> Goto(c, "top") /\ UNCHANGED <<outcome, slots, toReap>>
       [] reader[c][p] = "limit" ->
            BeginTermination(c, "OUTPUT_LIMIT_EXCEEDED", Pipes \ {p})
       [] reader[c][p] = "io" -> BeginTermination(c, "TARGET_FAILED", Pipes \ {p})
  /\ UNCHANGED <<brokerVars, processVars, readerVars, status, late>>

Deadline(c) ==
  /\ pc[c] = "select" /\ late[c]
  /\ BeginTermination(c, "TARGET_TIMEOUT", Pipes)
  /\ UNCHANGED <<brokerVars, processVars, readerVars, status, joined, late>>

\* wait_for_cancellation: a signal sent before the call subscribed counts too.
CancelSeen(c) ==
  /\ pc[c] = "select" /\ cancelled
  /\ BeginTermination(c, "CANCELLED", Pipes)
  /\ UNCHANGED <<brokerVars, processVars, readerVars, status, joined, late>>

-----------------------------------------------------------------------------
(* Termination. *)

\* Mutant of Kill: only the leader is killed.
KillLeader(c) ==
  /\ pc[c] = "grace"
  /\ leader' = [leader EXCEPT ![c] = "reaped"]
  /\ CloseAll(c, {"leader"})
  /\ Goto(c, "reap")
  /\ UNCHANGED <<outcome, slots, brokerVars, success, descendants, readerVars,
                 loopVars, late>>

\* terminate_cli_process ends: the fixed grace period is over, SIGKILL goes to
\* the whole group even if its leader has exited, and the leader is reaped.
Kill(c) ==
  /\ pc[c] = "grace"
  /\ leader' = [leader EXCEPT ![c] = "reaped"]
  /\ descendants' = [descendants EXCEPT ![c] = @ \ {"member"}]
  /\ CloseAll(c, {"leader", "member"})
  /\ Goto(c, "reap")
  /\ UNCHANGED <<outcome, slots, brokerVars, success, readerVars, loopVars, late>>

\* stdout is reaped before stderr.
ReapNext(c) == IF "stdout" \in toReap[c] THEN "stdout" ELSE "stderr"

\* Mutants of ReapReader: a reader that does not end is left behind, or waited
\* for without a limit.
ReapWithoutAbort(c) ==
  /\ pc[c] = "reap" /\ toReap[c] # {} /\ ReapNext(c) \notin joined[c]
  /\ toReap' = [toReap EXCEPT ![c] = @ \ {ReapNext(c)}]
  /\ UNCHANGED <<pc, outcome, slots, brokerVars, processVars, status, joined, late,
                 readerVars>>
ReapWaits(c) ==
  /\ pc[c] = "reap" /\ toReap[c] # {} /\ ReapNext(c) \notin joined[c]
  /\ reader[c][ReapNext(c)] # "reading"
  /\ toReap' = [toReap EXCEPT ![c] = @ \ {ReapNext(c)}]
  /\ UNCHANGED <<pc, outcome, slots, brokerVars, processVars, status, joined, late,
                 readerVars>>

\* A reader that has not been joined ends within 500 ms or is aborted.
ReapReader(c) ==
  /\ pc[c] = "reap" /\ toReap[c] # {} /\ ReapNext(c) \notin joined[c]
  /\ toReap' = [toReap EXCEPT ![c] = @ \ {ReapNext(c)}]
  /\ reader' = [reader EXCEPT ![c][ReapNext(c)] = IF @ = "reading" THEN "aborted" ELSE @]
  /\ UNCHANGED <<pc, outcome, slots, brokerVars, processVars, status, joined, late,
                 total>>

\* A reader whose result select! has taken is polled again: a JoinHandle panics
\* when it is polled after completion. The task dies, its guards are dropped and
\* the request is never answered.
ReapPanics(c) ==
  /\ pc[c] = "reap" /\ toReap[c] # {} /\ ReapNext(c) \in joined[c]
  /\ Answer(c, "none")
  /\ Release
  /\ Goto(c, "panicked")
  /\ UNCHANGED <<brokerVars, processVars, readerVars, loopVars, late>>

ReturnError(c) ==
  /\ pc[c] = "reap" /\ toReap[c] = {}
  /\ Release
  /\ Goto(c, "done")
  /\ UNCHANGED <<outcome, brokerVars, processVars, readerVars, loopVars, late>>

\* What was collected becomes a result, if the output has the declared format.
Finish(c) ==
  /\ pc[c] = "finish"
  /\ \/ /\ status[c] = "failed"
        /\ BeginTermination(c, "TARGET_FAILED", {})
     \/ /\ status[c] = "exited"
        /\ \/ success[c] /\ (Answer(c, "OK") \/ Answer(c, "INVALID_TARGET_OUTPUT"))
           \/ ~success[c] /\ Answer(c, "TARGET_FAILED")
        /\ Release
        /\ Goto(c, "done")
        /\ UNCHANGED toReap
  /\ UNCHANGED <<brokerVars, processVars, readerVars, status, joined, late>>

-----------------------------------------------------------------------------
(* The reader tasks (read_bounded) and the serve loop. *)

Read(c, p) ==
  /\ reader[c][p] = "reading" /\ holds[c][p] # {}
  /\ total' = [total EXCEPT ![c][p] = @ + 1]
  /\ reader' = [reader EXCEPT ![c][p] = IF total[c][p] = Limit THEN "limit" ELSE @]
  /\ UNCHANGED <<pc, outcome, slots, brokerVars, processVars, loopVars, late>>

ReadEof(c, p) ==
  /\ reader[c][p] = "reading" /\ holds[c][p] = {}
  /\ reader' = [reader EXCEPT ![c][p] = "eof"]
  /\ UNCHANGED <<pc, outcome, slots, brokerVars, processVars, total, loopVars, late>>

ReadFails(c, p) ==
  /\ reader[c][p] = "reading"
  /\ reader' = [reader EXCEPT ![c][p] = "io"]
  /\ UNCHANGED <<pc, outcome, slots, brokerVars, processVars, total, loopVars, late>>

\* The deadline of a call that was spawned passes.
Tick(c) ==
  /\ pc[c] \in {"top", "select"} /\ ~late[c]
  /\ late' = [late EXCEPT ![c] = TRUE]
  /\ UNCHANGED <<pc, outcome, slots, brokerVars, processVars, readerVars, loopVars>>

Cancel ==
  /\ broker = "serving"
  /\ cancelled' = TRUE
  /\ broker' = "draining"
  /\ UNCHANGED <<pc, outcome, slots, others, processVars, readerVars, loopVars, late>>

\* The task of every CLI call was awaited, a panicked one too; with the runtime
\* the reader tasks that are left are dropped.
Exit ==
  /\ broker = "draining"
  /\ InFlight = {}
  /\ broker' = "exited"
  /\ reader' = [c \in Calls |-> [p \in Pipes |->
       IF reader[c][p] = "reading" THEN "aborted" ELSE reader[c][p]]]
  /\ UNCHANGED <<pc, outcome, slots, others, cancelled, processVars, total, loopVars, late>>

\* An upstream MCP request takes a permit of the same Admission, or ends.
OtherRequest ==
  /\ \/ slots > 0 /\ ~cancelled /\ slots' = slots - 1 /\ others' = others + 1
     \/ others > 0 /\ slots' = slots + 1 /\ others' = others - 1
  /\ UNCHANGED <<pc, outcome, cancelled, broker, processVars, readerVars, loopVars, late>>

-----------------------------------------------------------------------------
(* The program and its descendants (external), while the call runs. *)

LeaderExits(c) ==
  /\ leader[c] = "up"
  /\ leader' = [leader EXCEPT ![c] = "zombie"]
  /\ \E s \in BOOLEAN : success' = [success EXCEPT ![c] = s]
  /\ CloseAll(c, {"leader"})
  /\ UNCHANGED <<pc, outcome, slots, brokerVars, descendants, readerVars, loopVars,
                 late>>

Fork(c, d) ==
  /\ leader[c] = "up" /\ d \notin descendants[c]
  /\ descendants' = [descendants EXCEPT ![c] = @ \cup {d}]
  /\ holds' = [holds EXCEPT ![c] =
       [p \in Pipes |-> IF "leader" \in @[p] THEN @[p] \cup {d} ELSE @[p]]]
  /\ UNCHANGED <<pc, outcome, slots, brokerVars, leader, success, readerVars,
                 loopVars, late>>

DescendantExits(c, d) ==
  /\ d \in descendants[c] /\ ~Ended(c)
  /\ descendants' = [descendants EXCEPT ![c] = @ \ {d}]
  /\ CloseAll(c, {d})
  /\ UNCHANGED <<pc, outcome, slots, brokerVars, leader, success, readerVars,
                 loopVars, late>>

ClosePipe(c, p) ==
  /\ ~Ended(c)
  /\ \E x \in holds[c][p] : holds' = [holds EXCEPT ![c][p] = @ \ {x}]
  /\ UNCHANGED <<pc, outcome, slots, brokerVars, leader, success, descendants,
                 readerVars, loopVars, late>>

-----------------------------------------------------------------------------
CallStep(c) ==
  \/ SpawnFails(c) \/ Spawn(c) \/ Top(c) \/ WaitChild(c)
  \/ \E p \in Pipes : Join(c, p)
  \/ Deadline(c) \/ CancelSeen(c)
  \/ Kill(c) \/ ReapReader(c) \/ ReapPanics(c) \/ ReturnError(c) \/ Finish(c)

Program(c) ==
  \/ LeaderExits(c)
  \/ \E d \in Descendants : Fork(c, d) \/ DescendantExits(c, d)
  \/ \E p \in Pipes : ClosePipe(c, p)

Next ==
  \/ \E c \in Calls : Refuse(c) \/ Admit(c) \/ CallStep(c) \/ Tick(c) \/ Program(c)
  \/ \E c \in Calls, p \in Pipes : Read(c, p) \/ ReadEof(c, p) \/ ReadFails(c, p)
  \/ Cancel \/ Exit \/ OtherRequest

(* A call's own step that is enabled is taken, and the serve loop goes on.    *)
(* The clock, the program and the arrival of calls and signals are not fair.  *)
Spec == Init /\ [][Next]_vars
FairSpec == Spec /\ (\A c \in Calls : WF_vars(CallStep(c))) /\ WF_vars(Exit)
-----------------------------------------------------------------------------
(* Properties *)

\* A call that has ended left no zombie, and one that did not end by itself left
\* no process of its group: also when its leader had exited before, and when
\* the call itself died half-way.
GroupReaped ==
  \A c \in Calls : Ended(c) =>
    /\ leader[c] \in {"none", "reaped"}
    /\ outcome[c] \in {"TARGET_TIMEOUT", "CANCELLED", "OUTPUT_LIMIT_EXCEEDED", "none"} =>
         "member" \notin descendants[c]

\* A result means that the program exited with status 0 and that all it and its
\* descendants wrote was read, within the limits.
ResultIsComplete ==
  \A c \in Calls : outcome[c] = "OK" =>
    /\ success[c]
    /\ \A p \in Pipes : reader[c][p] = "eof" /\ total[c][p] <= Limit /\ holds[c][p] = {}

\* A call that has returned left no reader task, even if an escaped descendant
\* keeps the pipe open. One that died half-way may have left the one of stderr,
\* never that of stdout; it reads on, at the latest until the broker exits.
NoReaderLeft ==
  \A c \in Calls : \A p \in Pipes : reader[c][p] = "reading" =>
    /\ pc[c] # "done"
    /\ pc[c] = "panicked" => p = "stderr"
    /\ broker # "exited"

\* A permit is held from before the child is spawned until it is reaped, and is
\* given back once: also by the call that dies half-way.
HasChild(c) == leader[c] \in {"up", "zombie"}
PermitCoversChild ==
  slots + others + Cardinality({c \in Calls : c \in InFlight \/ HasChild(c)}) = Slots

\* Past its deadline, or once the broker is cancelled, a call ends, whoever holds
\* its pipes: the cancellation alone is enough, no point of the loop misses it,
\* and the broker exits.
CallEnds ==
  /\ \A c \in Calls : (late[c] /\ c \in InFlight) ~> Ended(c)
  /\ cancelled ~> broker = "exited"

\* What docs/design.md (E09) says of timeout, cancellation and too much output:
\* the call returns a stable error code.
EveryCallAnswered == \A c \in Calls : Ended(c) => outcome[c] # "none"
=============================================================================
