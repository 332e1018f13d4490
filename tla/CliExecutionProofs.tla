------------------------- MODULE CliExecutionProofs -------------------------
(***************************************************************************)
(* What CliExecution guarantees for every number of calls and slots and     *)
(* every output limit. The inductive invariant is                           *)
(*   TypeOK /\ PermitsAdd /\ \A c \in Calls : CallFits(c)                    *)
(* CallFits says what a call's process, group and readers are at each point *)
(* of its future; without it a call could end with a child, or a reader     *)
(* count past its limit, in states that are typed but never reached.        *)
(*                                                                          *)
(* Of a call's output it says more once Collected joins it: which readers   *)
(* have ended at each point of a call. Without it a call could be at        *)
(* "finish" with a pipe nobody has read to its end.                         *)
(***************************************************************************)
EXTENDS CliExecution, FiniteSetTheorems, TLAPS

\* The permits that are free, held by others, and held by calls in flight.
PermitsAdd == slots + others + Cardinality(InFlight) = Slots

\* A call before its spawn has nothing; one in its loop has no code yet; one that
\* reaps its readers, or has ended, has no child and, if interrupted, no group.
Interrupted == {"TARGET_TIMEOUT", "CANCELLED", "OUTPUT_LIMIT_EXCEEDED", "none"}
CallFits(c) ==
  /\ pc[c] \in {"idle", "spawning"} =>
       /\ leader[c] = "none" /\ status[c] = "none" /\ descendants[c] = {}
       /\ \A p \in Pipes : total[c][p] = 0 /\ reader[c][p] = "none"
  /\ status[c] # "none" => leader[c] = "reaped"
  /\ pc[c] = "finish" => status[c] # "none"
  /\ pc[c] = "reap" => leader[c] = "reaped" /\ "member" \notin descendants[c]
  /\ Ended(c) => leader[c] \in {"none", "reaped"}
  /\ Ended(c) /\ outcome[c] \in Interrupted => "member" \notin descendants[c]
  /\ \A p \in Pipes : reader[c][p] = "reading" => total[c][p] <= Limit

IInv == TypeOK /\ PermitsAdd /\ \A c \in Calls : CallFits(c)

-----------------------------------------------------------------------------
(* Types. *)

\* What the steps of a call's loop assign is typed.
LoopTyped ==
  /\ outcome' \in [Calls -> Codes]
  /\ toReap' \in [Calls -> SUBSET Pipes]
  /\ pc' \in [Calls -> {"idle", "spawning", "top", "select", "grace", "reap", "finish",
                       "done", "panicked"}]

\* A termination that begins is typed.
LEMMA BeginType ==
  ASSUME TypeOK, NEW c \in Calls, NEW code \in Codes, NEW pipes \in SUBSET Pipes,
         BeginTermination(c, code, pipes)
  PROVE  LoopTyped
BY DEF TypeOK, LoopTyped, BeginTermination, Answer, Goto

\* Every step keeps the types, given the bounds on the permits.
LEMMA TypeStep ==
  ASSUME TypeOK, \A c \in Calls : CallFits(c),
         slots' \in 0 .. Slots, others' \in 0 .. Slots, Next
  PROVE  TypeOK'
<1>. USE CliAssumption
         DEF TypeOK, LoopTyped, Descendants, Goto, Answer, CloseAll,
             processVars, readerVars, loopVars, brokerVars
<1>1. ASSUME NEW c \in Calls, Refuse(c) PROVE TypeOK'
  BY <1>1 DEF Refuse, Codes
<1>2. ASSUME NEW c \in Calls, Admit(c) PROVE TypeOK'
  BY <1>2 DEF Admit
<1>3. ASSUME NEW c \in Calls, SpawnFails(c) PROVE TypeOK'
  BY <1>3 DEF SpawnFails, Codes
<1>4. ASSUME NEW c \in Calls, Spawn(c) PROVE TypeOK'
  BY <1>4 DEF Spawn
<1>5. ASSUME NEW c \in Calls, Top(c) PROVE TypeOK'
  <2>1. LoopTyped
    BY <1>5, BeginType, "TARGET_TIMEOUT" \in Codes DEF Top, Codes
  <2>. QED  BY <1>5, <2>1 DEF Top
<1>6. ASSUME NEW c \in Calls, WaitChild(c) PROVE TypeOK'
  BY <1>6 DEF WaitChild
<1>7. ASSUME NEW c \in Calls, NEW p \in Pipes, Join(c, p) PROVE TypeOK'
  <2>1. LoopTyped
    <3>1. CASE reader[c][p] = "eof"  BY <1>7, <3>1 DEF Join
    <3>2. CASE reader[c][p] = "limit"
      <4>1. BeginTermination(c, "OUTPUT_LIMIT_EXCEEDED", Pipes \ {p})  BY <1>7, <3>2 DEF Join
      <4>. QED  BY <4>1, BeginType DEF Codes
    <3>3. CASE reader[c][p] = "io"
      <4>1. BeginTermination(c, "TARGET_FAILED", Pipes \ {p})  BY <1>7, <3>3 DEF Join
      <4>. QED  BY <4>1, BeginType DEF Codes
    <3>. QED  BY <1>7, <3>1, <3>2, <3>3 DEF Join
  <2>. QED  BY <1>7, <2>1 DEF Join
<1>8. ASSUME NEW c \in Calls, Deadline(c) \/ CancelSeen(c) PROVE TypeOK'
  <2>1. BeginTermination(c, "TARGET_TIMEOUT", Pipes) \/ BeginTermination(c, "CANCELLED", Pipes)
    BY <1>8 DEF Deadline, CancelSeen
  <2>2. LoopTyped
    BY <2>1, BeginType DEF Codes
  <2>. QED  BY <1>8, <2>2 DEF Deadline, CancelSeen
<1>9. ASSUME NEW c \in Calls, Kill(c) PROVE TypeOK'
  BY <1>9 DEF Kill
<1>10. ASSUME NEW c \in Calls, ReapReader(c) PROVE TypeOK'
  <2>1. ReapNext(c) \in Pipes  BY DEF ReapNext, Pipes
  <2>. QED  BY <1>10, <2>1 DEF ReapReader
<1>11. ASSUME NEW c \in Calls, ReapPanics(c) \/ ReturnError(c) PROVE TypeOK'
  BY <1>11 DEF ReapPanics, ReturnError, Codes
<1>12. ASSUME NEW c \in Calls, Finish(c) PROVE TypeOK'
  <2>1. LoopTyped
    <3>1. CASE status[c] = "failed"
      <4>1. BeginTermination(c, "TARGET_FAILED", {})  BY <1>12, <3>1 DEF Finish
      <4>. QED  BY <4>1, BeginType DEF Codes
    <3>2. CASE status[c] # "failed"  BY <1>12, <3>2 DEF Finish, Codes
    <3>. QED  BY <3>1, <3>2
  <2>. QED  BY <1>12, <2>1 DEF Finish
<1>13. ASSUME NEW c \in Calls, NEW p \in Pipes, Read(c, p) PROVE TypeOK'
  BY <1>13 DEF Read, CallFits
<1>14. ASSUME NEW c \in Calls, NEW p \in Pipes, ReadEof(c, p) \/ ReadFails(c, p) PROVE TypeOK'
  <2>1. CASE ReadEof(c, p)  BY <2>1 DEF ReadEof
  <2>2. CASE ReadFails(c, p)  BY <2>2 DEF ReadFails
  <2>. QED  BY <1>14, <2>1, <2>2
<1>15. ASSUME NEW c \in Calls, Tick(c) PROVE TypeOK'
  BY <1>15 DEF Tick
<1>16. ASSUME Cancel \/ Exit \/ OtherRequest PROVE TypeOK'
  <2>1. CASE Exit
    <3>1. reader' \in [Calls -> [Pipes -> {"none", "reading", "eof", "limit", "io", "aborted"}]]
      BY <2>1 DEF Exit
    <3>. QED  BY <2>1, <3>1 DEF Exit
  <2>2. CASE Cancel \/ OtherRequest  BY <2>2 DEF Cancel, OtherRequest
  <2>. QED  BY <1>16, <2>1, <2>2
<1>17. ASSUME NEW c \in Calls, LeaderExits(c) PROVE TypeOK'
  BY <1>17 DEF LeaderExits
<1>18. ASSUME NEW c \in Calls, NEW d \in Descendants, Fork(c, d) \/ DescendantExits(c, d)
       PROVE  TypeOK'
  <2>1. CASE Fork(c, d)  BY <2>1 DEF Fork
  <2>2. CASE DescendantExits(c, d)  BY <2>2 DEF DescendantExits
  <2>. QED  BY <1>18, <2>1, <2>2
<1>19. ASSUME NEW c \in Calls, NEW p \in Pipes, ClosePipe(c, p) PROVE TypeOK'
  BY <1>19 DEF ClosePipe
<1>. QED
  BY <1>1, <1>2, <1>3, <1>4, <1>5, <1>6, <1>7, <1>8, <1>9, <1>10, <1>11, <1>12, <1>13, <1>14,
     <1>15, <1>16, <1>17, <1>18, <1>19 DEF Next, CallStep, Program

-----------------------------------------------------------------------------
(* The shape of a call. *)

\* What Next does not do to x leaves it fitting: the parts of CallFits that are
\* about x only.
Untouched(x) ==
  /\ pc'[x] = pc[x] /\ outcome'[x] = outcome[x] /\ leader'[x] = leader[x]
  /\ status'[x] = status[x] /\ descendants'[x] = descendants[x]
  /\ total'[x] = total[x] /\ reader'[x] = reader[x]

\* A call that a step does not touch fits its stage as before.
LEMMA UntouchedFits ==
  ASSUME NEW x \in Calls, CallFits(x), Untouched(x)
  PROVE  CallFits(x)'
BY DEF Untouched, CallFits, Ended

\* The beginning of a termination moves a call with a child to its grace period.
LEMMA BeginFits ==
  ASSUME TypeOK, NEW x \in Calls, NEW code, NEW pipes, CallFits(x),
         pc[x] \in {"top", "select", "finish"}, BeginTermination(x, code, pipes),
         UNCHANGED <<processVars, readerVars, status>>
  PROVE  CallFits(x)'
BY DEF TypeOK, BeginTermination, Goto, Answer, processVars, readerVars, CallFits, Ended

\* A reader that is below its limit may read one more chunk.
LEMMA OneMoreFits ==
  ASSUME NEW n \in 0 .. Limit + 1, n <= Limit, n # Limit
  PROVE  n + 1 <= Limit
BY CliAssumption

\* Every step keeps the shape of every call.
LEMMA FitsStep ==
  ASSUME TypeOK, NEW x \in Calls, CallFits(x), Next
  PROVE  CallFits(x)'
<1>. USE CliAssumption
         DEF TypeOK, Goto, Answer, CloseAll, processVars, readerVars, loopVars, brokerVars
<1>1. ASSUME NEW c \in Calls, Next, c # x,
             Refuse(c) \/ Admit(c) \/ CallStep(c) \/ Tick(c) \/ Program(c)
      PROVE  Untouched(x)
  <2>1. CASE Refuse(c) \/ Admit(c) \/ Tick(c)
    BY <1>1, <2>1 DEF Untouched, Refuse, Admit, Tick
  <2>2. CASE SpawnFails(c) \/ Spawn(c) \/ WaitChild(c)
    BY <1>1, <2>2 DEF Untouched, SpawnFails, Spawn, WaitChild
  <2>3. CASE Top(c)
    BY <1>1, <2>3 DEF Untouched, Top, BeginTermination
  <2>4. CASE \E p \in Pipes : Join(c, p)
    <3>1. PICK p \in Pipes : Join(c, p)  BY <2>4
    <3>2. CASE reader[c][p] = "eof"
      BY <1>1, <3>1, <3>2 DEF Untouched, Join
    <3>3. CASE reader[c][p] # "eof"
      <4>1. \E code : BeginTermination(c, code, Pipes \ {p})  BY <3>1, <3>3 DEF Join
      <4>. QED  BY <1>1, <3>1, <4>1 DEF Untouched, Join, BeginTermination
    <3>. QED  BY <3>2, <3>3
  <2>5. CASE Deadline(c) \/ CancelSeen(c)
    BY <1>1, <2>5 DEF Untouched, Deadline, CancelSeen, BeginTermination
  <2>6. CASE Kill(c) \/ ReapReader(c) \/ ReapPanics(c) \/ ReturnError(c)
    BY <1>1, <2>6 DEF Untouched, Kill, ReapReader, ReapPanics, ReturnError
  <2>7. CASE Finish(c)
    BY <1>1, <2>7 DEF Untouched, Finish, BeginTermination
  <2>8. CASE Program(c)
    BY <1>1, <2>8 DEF Untouched, Program, LeaderExits, Fork, DescendantExits, ClosePipe
  <2>. QED  BY <1>1, <2>1, <2>2, <2>3, <2>4, <2>5, <2>6, <2>7, <2>8 DEF CallStep
<1>2. ASSUME NEW c \in Calls, NEW p \in Pipes, c # x,
             Read(c, p) \/ ReadEof(c, p) \/ ReadFails(c, p)
      PROVE  Untouched(x)
  BY <1>2 DEF Untouched, Read, ReadEof, ReadFails
<1>3. ASSUME Cancel \/ OtherRequest PROVE Untouched(x)
  BY <1>3 DEF Untouched, Cancel, OtherRequest
<1>18. ASSUME Exit PROVE CallFits(x)'
  BY <1>18 DEF Exit, CallFits, Ended
<1>4. ASSUME Refuse(x) \/ Admit(x) \/ Tick(x) PROVE CallFits(x)'
  BY <1>4 DEF Refuse, Admit, Tick, CallFits, Ended
<1>5. ASSUME SpawnFails(x) PROVE CallFits(x)'
  BY <1>5 DEF SpawnFails, CallFits, Ended
<1>6. ASSUME Spawn(x) PROVE CallFits(x)'
  BY <1>6 DEF Spawn, CallFits, Ended
<1>7. ASSUME WaitChild(x) PROVE CallFits(x)'
  BY <1>7 DEF WaitChild, CallFits, Ended
<1>8. ASSUME Top(x) PROVE CallFits(x)'
  <2>1. CASE BeginTermination(x, "TARGET_TIMEOUT", Pipes)
    BY <1>8, <2>1, BeginFits DEF Top
  <2>2. CASE Complete(x) /\ Goto(x, "finish") /\ UNCHANGED outcome
    BY <1>8, <2>2 DEF Top, Complete, CallFits, Ended
  <2>3. CASE Goto(x, "select") /\ UNCHANGED outcome
    BY <1>8, <2>3 DEF Top, CallFits, Ended
  <2>. QED  BY <1>8, <2>1, <2>2, <2>3 DEF Top
<1>9. ASSUME NEW p \in Pipes, Join(x, p) PROVE CallFits(x)'
  <2>1. CASE reader[x][p] = "eof"
    BY <1>9, <2>1 DEF Join, CallFits, Ended
  <2>2. CASE reader[x][p] # "eof"
    <3>1. \E code : BeginTermination(x, code, Pipes \ {p})  BY <1>9, <2>2 DEF Join
    <3>. QED  BY <1>9, <3>1, BeginFits DEF Join
  <2>. QED  BY <2>1, <2>2
<1>10. ASSUME Deadline(x) \/ CancelSeen(x) PROVE CallFits(x)'
  BY <1>10, BeginFits DEF Deadline, CancelSeen
<1>11. ASSUME Kill(x) PROVE CallFits(x)'
  BY <1>11 DEF Kill, CallFits, Ended
<1>12. ASSUME ReapReader(x) PROVE CallFits(x)'
  BY <1>12 DEF ReapReader, CallFits, Ended
<1>13. ASSUME ReapPanics(x) \/ ReturnError(x) PROVE CallFits(x)'
  BY <1>13 DEF ReapPanics, ReturnError, CallFits, Ended
<1>14. ASSUME Finish(x) PROVE CallFits(x)'
  <2>1. CASE BeginTermination(x, "TARGET_FAILED", {})
    BY <1>14, <2>1, BeginFits DEF Finish
  <2>2. CASE Goto(x, "done") /\ outcome'[x] \in {"OK", "INVALID_TARGET_OUTPUT", "TARGET_FAILED"}
    BY <1>14, <2>2 DEF Finish, CallFits, Ended, Interrupted
  <2>. QED  BY <1>14, <2>1, <2>2 DEF Finish
<1>15. ASSUME Program(x) PROVE CallFits(x)'
  <2>1. CASE LeaderExits(x)  BY <2>1 DEF LeaderExits, CallFits, Ended
  <2>2. ASSUME NEW d \in Descendants, Fork(x, d) PROVE CallFits(x)'
    BY <2>2 DEF Fork, CallFits, Ended
  <2>3. ASSUME NEW d \in Descendants, DescendantExits(x, d) PROVE CallFits(x)'
    BY <2>3 DEF DescendantExits, CallFits, Ended
  <2>4. ASSUME NEW p \in Pipes, ClosePipe(x, p) PROVE CallFits(x)'
    BY <2>4 DEF ClosePipe, CallFits, Ended
  <2>. QED  BY <1>15, <2>1, <2>2, <2>3, <2>4 DEF Program
<1>16. ASSUME NEW p \in Pipes, Read(x, p) PROVE CallFits(x)'
  <2>1. /\ reader[x][p] = "reading" /\ total[x][p] <= Limit
        /\ pc[x] \notin {"idle", "spawning"}
    BY <1>16 DEF Read, CallFits
  <2>2. total'[x] = [total[x] EXCEPT ![p] = @ + 1]
    BY <1>16 DEF Read
  <2>3. reader'[x] = [reader[x] EXCEPT ![p] = IF total[x][p] = Limit THEN "limit" ELSE @]
    BY <1>16 DEF Read
  <2>4. /\ UNCHANGED <<pc, outcome, leader, status, descendants>>
        /\ total[x] \in [Pipes -> 0 .. Limit + 1]
        /\ reader[x] \in [Pipes -> {"none", "reading", "eof", "limit", "io", "aborted"}]
    BY <1>16 DEF Read
  <2>5. ASSUME NEW q \in Pipes, reader'[x][q] = "reading" PROVE total'[x][q] <= Limit
    <3>1. CASE q = p
      <4>1. total[x][p] # Limit  BY <2>3, <2>4, <2>5, <3>1
      <4>2. total'[x][p] = total[x][p] + 1 /\ total[x][p] \in 0 .. Limit + 1  BY <2>2, <2>4
      <4>3. total[x][p] + 1 <= Limit  BY <2>1, <4>1, <4>2, OneMoreFits
      <4>. QED  BY <3>1, <4>2, <4>3
    <3>2. CASE q # p  BY <2>2, <2>3, <2>4, <2>5, <3>2 DEF CallFits
    <3>. QED  BY <3>1, <3>2
  <2>. QED  BY <2>1, <2>4, <2>5 DEF CallFits, Ended
<1>17. ASSUME NEW p \in Pipes, ReadEof(x, p) \/ ReadFails(x, p) PROVE CallFits(x)'
  <2>1. CASE ReadEof(x, p)  BY <2>1 DEF ReadEof, CallFits, Ended
  <2>2. CASE ReadFails(x, p)  BY <2>2 DEF ReadFails, CallFits, Ended
  <2>. QED  BY <1>17, <2>1, <2>2
<1>. QED
  <2>1. CASE Untouched(x)  BY <2>1, UntouchedFits
  <2>2. ASSUME NEW c \in Calls, Refuse(c) \/ Admit(c) \/ CallStep(c) \/ Tick(c) \/ Program(c)
        PROVE  CallFits(x)'
    <3>1. CASE c = x
      BY <2>2, <3>1, <1>4, <1>5, <1>6, <1>7, <1>8, <1>9, <1>10, <1>11, <1>12, <1>13, <1>14,
         <1>15 DEF CallStep
    <3>2. CASE c # x  BY <2>2, <3>2, <2>1, <1>1
    <3>. QED  BY <3>1, <3>2
  <2>3. ASSUME NEW c \in Calls, NEW p \in Pipes, Read(c, p) \/ ReadEof(c, p) \/ ReadFails(c, p)
        PROVE  CallFits(x)'
    <3>1. CASE c = x  BY <2>3, <3>1, <1>16, <1>17
    <3>2. CASE c # x  BY <2>3, <3>2, <2>1, <1>2
    <3>. QED  BY <3>1, <3>2
  <2>4. CASE Cancel \/ Exit \/ OtherRequest  BY <2>4, <2>1, <1>3, <1>18
  <2>. QED  BY <2>2, <2>3, <2>4 DEF Next

-----------------------------------------------------------------------------
(* The permits. *)

\* A call's step leaves it in flight, ends it with Release, or admits it.
InFlightSame == InFlight' = InFlight /\ UNCHANGED <<slots, others>>

\* A call that ends gives its permit back.
LEMMA EndsOne ==
  ASSUME TypeOK, PermitsAdd, NEW c \in InFlight, InFlight' = InFlight \ {c}, Release,
         UNCHANGED others
  PROVE  PermitsAdd' /\ slots' \in 0 .. Slots /\ others' \in 0 .. Slots
<1>1. IsFiniteSet(InFlight)
  BY CliAssumption, FS_Subset DEF InFlight
<1>2. /\ Cardinality(InFlight) \in Nat
      /\ Cardinality(InFlight \ {c}) = Cardinality(InFlight) - 1
      /\ Cardinality(InFlight \ {c}) \in Nat
  BY <1>1, FS_RemoveElement, FS_CardinalityType, FS_Subset, InFlight \ {c} \subseteq InFlight
<1>. QED  BY <1>2, CliAssumption DEF TypeOK, PermitsAdd, Release

\* A call that begins takes a permit.
LEMMA AdmitsOne ==
  ASSUME TypeOK, PermitsAdd, NEW c, c \notin InFlight, InFlight' = InFlight \cup {c},
         slots > 0, slots' = slots - 1, UNCHANGED others
  PROVE  PermitsAdd' /\ slots' \in 0 .. Slots /\ others' \in 0 .. Slots
<1>1. IsFiniteSet(InFlight)
  BY CliAssumption, FS_Subset DEF InFlight
<1>2. /\ Cardinality(InFlight) \in Nat
      /\ Cardinality(InFlight \cup {c}) = Cardinality(InFlight) + 1
  BY <1>1, FS_AddElement, FS_CardinalityType
<1>. QED  BY <1>2, CliAssumption DEF TypeOK, PermitsAdd

\* Every step keeps the sum of the permits, and each part within its bounds.
LEMMA PermitsStep ==
  ASSUME TypeOK, PermitsAdd, Next
  PROVE  PermitsAdd' /\ slots' \in 0 .. Slots /\ others' \in 0 .. Slots
<1>. DEFINE Bounded == PermitsAdd' /\ slots' \in 0 .. Slots /\ others' \in 0 .. Slots
<1>1. ASSUME InFlightSame PROVE Bounded
  BY <1>1 DEF InFlightSame, PermitsAdd, TypeOK
<1>2. ASSUME NEW c \in Calls, Refuse(c) \/ Tick(c) \/ Program(c) PROVE Bounded
  <2>1. CASE Refuse(c)
    <3>1. InFlightSame  BY <2>1 DEF TypeOK, InFlightSame, InFlight, Ended, Goto, Refuse, brokerVars
    <3>. QED  BY <3>1, <1>1
  <2>2. CASE Tick(c) \/ Program(c)
    <3>1. UNCHANGED <<pc, slots, others>>
      BY <2>2 DEF Tick, Program, LeaderExits, Fork, DescendantExits, ClosePipe, brokerVars
    <3>2. InFlightSame  BY <3>1 DEF InFlightSame, InFlight, Ended
    <3>. QED  BY <3>2, <1>1
  <2>. QED  BY <1>2, <2>1, <2>2
<1>3. ASSUME NEW c \in Calls, Admit(c) PROVE Bounded
  <2>1. c \notin InFlight /\ InFlight' = InFlight \cup {c}
    BY <1>3 DEF TypeOK, InFlight, Ended, Goto, Admit
  <2>. QED  BY <2>1, <1>3, AdmitsOne DEF Admit, brokerVars
<1>4. ASSUME NEW c \in Calls, SpawnFails(c) \/ ReapPanics(c) \/ ReturnError(c) PROVE Bounded
  <2>1. c \in InFlight /\ InFlight' = InFlight \ {c} /\ Release /\ UNCHANGED others
    BY <1>4 DEF TypeOK, InFlight, Ended, Goto, SpawnFails, ReapPanics, ReturnError, brokerVars
  <2>. QED  BY <2>1, EndsOne
<1>5. ASSUME NEW c \in Calls, Spawn(c) \/ WaitChild(c) \/ Kill(c) \/ ReapReader(c)
      PROVE  Bounded
  <2>1. InFlightSame
    BY <1>5 DEF TypeOK, InFlightSame, InFlight, Ended, Goto, Spawn, WaitChild, Kill, ReapReader,
                brokerVars
  <2>. QED  BY <2>1, <1>1
<1>6. ASSUME NEW c \in Calls, pc[c] \in {"top", "select", "finish"}, UNCHANGED <<slots, others>>,
             pc'[c] \in {"top", "select", "finish", "grace"},
             Goto(c, pc'[c])
      PROVE  Bounded
  <2>1. InFlightSame  BY <1>6 DEF TypeOK, InFlightSame, InFlight, Ended, Goto
  <2>. QED  BY <2>1, <1>1
<1>7. ASSUME NEW c \in Calls, Top(c) \/ Deadline(c) \/ CancelSeen(c) PROVE Bounded
  BY <1>6, <1>7 DEF TypeOK, Top, Deadline, CancelSeen, BeginTermination, Goto, brokerVars
<1>8. ASSUME NEW c \in Calls, NEW p \in Pipes, Join(c, p) PROVE Bounded
  <2>1. CASE reader[c][p] = "eof"
    BY <1>6, <1>8, <2>1 DEF TypeOK, Join, Goto, brokerVars
  <2>2. CASE reader[c][p] # "eof"
    <3>1. \E code : BeginTermination(c, code, Pipes \ {p})  BY <1>8, <2>2 DEF Join
    <3>. QED  BY <1>6, <1>8, <3>1 DEF TypeOK, Join, BeginTermination, Goto, brokerVars
  <2>. QED  BY <2>1, <2>2
<1>9. ASSUME NEW c \in Calls, Finish(c) PROVE Bounded
  <2>1. CASE BeginTermination(c, "TARGET_FAILED", {})
    BY <1>6, <1>9, <2>1 DEF TypeOK, Finish, BeginTermination, Goto, brokerVars
  <2>2. CASE Release /\ Goto(c, "done")
    <3>1. c \in InFlight /\ InFlight' = InFlight \ {c} /\ UNCHANGED others
      BY <1>9, <2>2 DEF TypeOK, InFlight, Ended, Goto, Finish, brokerVars
    <3>. QED  BY <3>1, <2>2, EndsOne
  <2>. QED  BY <1>9, <2>1, <2>2 DEF Finish
<1>10. ASSUME NEW c \in Calls, NEW p \in Pipes, Read(c, p) \/ ReadEof(c, p) \/ ReadFails(c, p)
       PROVE  Bounded
  <2>1. InFlightSame
    BY <1>10 DEF InFlightSame, InFlight, Ended, Read, ReadEof, ReadFails, brokerVars
  <2>. QED  BY <2>1, <1>1
<1>11. ASSUME Cancel \/ Exit PROVE Bounded
  <2>1. InFlightSame  BY <1>11 DEF InFlightSame, InFlight, Ended, Cancel, Exit
  <2>. QED  BY <2>1, <1>1
<1>12. ASSUME OtherRequest PROVE Bounded
  <2>1. InFlight' = InFlight  BY <1>12 DEF InFlight, Ended, OtherRequest
  <2>2. Cardinality(InFlight) \in Nat
    BY CliAssumption, FS_Subset, FS_CardinalityType DEF InFlight
  <2>3. CASE slots > 0 /\ slots' = slots - 1 /\ others' = others + 1
    BY <2>1, <2>2, <2>3, CliAssumption DEF PermitsAdd, TypeOK
  <2>4. CASE others > 0 /\ slots' = slots + 1 /\ others' = others - 1
    BY <2>1, <2>2, <2>4, CliAssumption DEF PermitsAdd, TypeOK
  <2>. QED  BY <1>12, <2>3, <2>4 DEF OtherRequest
<1>. QED
  BY <1>2, <1>3, <1>4, <1>5, <1>7, <1>8, <1>9, <1>10, <1>11, <1>12 DEF Next, CallStep

-----------------------------------------------------------------------------
(* The theorems. *)

\* The inductive invariant holds in every state: what TypeOK, PermitCoversChild
\* and GroupReaped rest on.
THEOREM Invariance == Spec => []IInv
<1>1. Init => IInv
  <2>1. SUFFICES ASSUME Init PROVE IInv  OBVIOUS
  <2>2. TypeOK
    <3>1. slots \in 0 .. Slots /\ others \in 0 .. Slots  BY <2>1, CliAssumption DEF Init
    <3>2. total \in [Calls -> [Pipes -> 0 .. Limit + 1]]  BY <2>1, CliAssumption DEF Init
    <3>3. /\ holds \in [Calls -> [Pipes -> SUBSET ({"leader"} \cup Descendants)]]
          /\ reader \in [Calls -> [Pipes -> {"none", "reading", "eof", "limit", "io", "aborted"}]]
      BY <2>1 DEF Init
    <3>. QED  BY <2>1, <3>1, <3>2, <3>3 DEF Init, TypeOK, Codes
  <2>3. PermitsAdd
    <3>1. InFlight = {}  BY <2>1 DEF Init, InFlight
    <3>. QED  BY <2>1, <3>1, FS_EmptySet, CliAssumption DEF Init, PermitsAdd
  <2>4. ASSUME NEW c \in Calls PROVE CallFits(c)
    BY <2>1 DEF Init, CallFits, Ended
  <2>. QED  BY <2>2, <2>3, <2>4 DEF IInv
<1>2. IInv /\ [Next]_vars => IInv'
  <2>1. SUFFICES ASSUME IInv, [Next]_vars PROVE IInv'  OBVIOUS
  <2>2. CASE Next
    <3>1. PermitsAdd' /\ slots' \in 0 .. Slots /\ others' \in 0 .. Slots
      BY <2>1, <2>2, PermitsStep DEF IInv
    <3>2. TypeOK'  BY <2>1, <2>2, <3>1, TypeStep DEF IInv
    <3>3. \A c \in Calls : CallFits(c)'  BY <2>1, <2>2, FitsStep DEF IInv
    <3>. QED  BY <3>1, <3>2, <3>3 DEF IInv
  <2>3. CASE UNCHANGED vars
    BY <2>1, <2>3 DEF vars, processVars, readerVars, loopVars, brokerVars, IInv, TypeOK,
                      PermitsAdd, InFlight, CallFits, Ended
  <2>. QED  BY <2>1, <2>2, <2>3
<1>. QED  BY <1>1, <1>2, PTL DEF Spec

\* The state is typed: no reader goes past the chunk that exceeds its limit, and the
\* permits stay between none and all (execute_cli_inner, Admission).
THEOREM TypeCorrect == Spec => []TypeOK
<1>1. IInv => TypeOK  BY DEF IInv
<1>. QED  BY <1>1, Invariance, PTL

\* A permit is held from before the child is spawned until it is reaped, and is
\* given back once, however a call ends (try_acquire_owned and the guard's drop).
THEOREM PermitIsHeld == Spec => []PermitCoversChild
<1>1. IInv => PermitCoversChild
  <2>1. SUFFICES ASSUME IInv PROVE PermitCoversChild  OBVIOUS
  <2>2. ASSUME NEW c \in Calls, HasChild(c) PROVE c \in InFlight
    BY <2>1, <2>2 DEF IInv, CallFits, HasChild, InFlight, Ended
  <2>3. {c \in Calls : c \in InFlight \/ HasChild(c)} = InFlight
    BY <2>2 DEF InFlight
  <2>. QED  BY <2>1, <2>3 DEF IInv, PermitsAdd, PermitCoversChild
<1>. QED  BY <1>1, Invariance, PTL

\* A call that has ended left no zombie, and one that was interrupted left no process
\* of its group (terminate_cli_process).
THEOREM GroupIsReaped == Spec => []GroupReaped
<1>1. IInv => GroupReaped
  BY DEF IInv, CallFits, GroupReaped, Interrupted
<1>. QED  BY <1>1, Invariance, PTL

-----------------------------------------------------------------------------
(* What becomes of a call's output. *)

\* A call that has no future: it has not begun or it has ended.
Parked(c) == pc[c] = "idle" \/ Ended(c)

\* In the loop the readers whose result was taken ended well, at its end both
\* did; when a call terminates, those it will not reap have ended, and stdout comes
\* first; when the broker exits, all have; an ended pipe has no writer left; a result is given by a call that ended with all of it.
Collected(c) ==
  /\ pc[c] \in {"idle", "spawning"} => joined[c] = {}
  /\ pc[c] \in {"top", "select", "finish"} => \A p \in joined[c] : reader[c][p] = "eof"
  /\ pc[c] = "finish" => joined[c] = Pipes
  /\ pc[c] \in {"grace", "reap"} => \A p \in Pipes \ toReap[c] : reader[c][p] # "reading"
  /\ pc[c] = "done" => \A p \in Pipes : reader[c][p] # "reading"
  /\ pc[c] = "panicked" => reader[c]["stdout"] # "reading"
  /\ \A p \in joined[c] : reader[c][p] # "reading"
  /\ broker = "exited" =>
       Parked(c) /\ \A p \in Pipes : reader[c][p] # "reading"
  /\ \A p \in Pipes : reader[c][p] = "eof" => total[c][p] <= Limit /\ holds[c][p] = {}
  /\ outcome[c] = "OK" =>
       /\ pc[c] = "done" /\ leader[c] = "reaped" /\ success[c]
       /\ \A p \in Pipes : reader[c][p] = "eof"

AllCollected == \A c \in Calls : Collected(c)
RInv == IInv /\ AllCollected

-----------------------------------------------------------------------------
(* Steps: what becomes of the readers. *)

\* A step of another call changes nothing that Collected says of x.
Apart(x) ==
  /\ pc'[x] = pc[x] /\ outcome'[x] = outcome[x] /\ joined'[x] = joined[x]
  /\ reader'[x] = reader[x] /\ toReap'[x] = toReap[x] /\ total'[x] = total[x]
  /\ holds'[x] = holds[x] /\ leader'[x] = leader[x] /\ success'[x] = success[x]
  /\ broker' = broker

\* A call that a step does not touch has collected what it had.
LEMMA ApartStays ==
  ASSUME NEW x \in Calls, Collected(x), Apart(x)
  PROVE  Collected(x)'
BY DEF Apart, Collected, Parked, Ended

\* A step of one call is no step of another.
LEMMA OthersApart ==
  ASSUME TypeOK, NEW x \in Calls, NEW c \in Calls, c # x,
         Refuse(c) \/ Admit(c) \/ CallStep(c) \/ Tick(c) \/ Program(c)
         \/ \E p \in Pipes : Read(c, p) \/ ReadEof(c, p) \/ ReadFails(c, p)
  PROVE  Apart(x)
<1>. USE DEF TypeOK, Goto, Answer, CloseAll, processVars, readerVars, loopVars, brokerVars, Apart
<1>1. CASE Refuse(c) \/ Admit(c) \/ Tick(c)
  BY <1>1 DEF Refuse, Admit, Tick
<1>2. CASE SpawnFails(c) \/ Spawn(c) \/ WaitChild(c)
  BY <1>2 DEF SpawnFails, Spawn, WaitChild
<1>3. CASE Top(c)
  BY <1>3 DEF Top, BeginTermination
<1>4. ASSUME NEW p \in Pipes, Join(c, p) PROVE Apart(x)
  <2>1. CASE reader[c][p] = "eof"  BY <1>4, <2>1 DEF Join
  <2>2. CASE reader[c][p] # "eof"
    <3>1. \E code : BeginTermination(c, code, Pipes \ {p})  BY <1>4, <2>2 DEF Join
    <3>. QED  BY <1>4, <3>1 DEF Join, BeginTermination
  <2>. QED  BY <2>1, <2>2
<1>5. CASE Deadline(c) \/ CancelSeen(c)
  BY <1>5 DEF Deadline, CancelSeen, BeginTermination
<1>6. CASE Kill(c) \/ ReapReader(c) \/ ReapPanics(c) \/ ReturnError(c)
  BY <1>6 DEF Kill, ReapReader, ReapPanics, ReturnError
<1>7. CASE Finish(c)
  BY <1>7 DEF Finish, BeginTermination
<1>8. CASE Program(c)
  BY <1>8 DEF Program, LeaderExits, Fork, DescendantExits, ClosePipe
<1>9. ASSUME NEW p \in Pipes, Read(c, p) \/ ReadEof(c, p) \/ ReadFails(c, p) PROVE Apart(x)
  BY <1>9 DEF Read, ReadEof, ReadFails
<1>. QED  BY <1>1, <1>2, <1>3, <1>4, <1>5, <1>6, <1>7, <1>8, <1>9 DEF CallStep

\* A termination begins with every reader ended or to be reaped.
LEMMA BeginCollected ==
  ASSUME TypeOK, NEW x \in Calls, NEW code, code # "OK", NEW pipes, Collected(x),
         pc[x] \in {"top", "select", "finish"}, BeginTermination(x, code, pipes),
         \A p \in Pipes \ pipes : reader[x][p] # "reading",
         UNCHANGED <<processVars, readerVars, joined, brokerVars>>
  PROVE  Collected(x)'
<1>. USE DEF TypeOK, BeginTermination, Goto, Answer, processVars, readerVars, brokerVars
<1>1. broker' # "exited"  BY DEF Collected, Parked, Ended
<1>2. pc'[x] = "grace" /\ outcome'[x] # "OK" /\ toReap'[x] = pipes
  OBVIOUS
<1>3. \A p \in joined'[x] : reader'[x][p] # "reading"  BY DEF Collected
<1>4. \A p \in Pipes : reader'[x][p] = "eof" => total'[x][p] <= Limit /\ holds'[x][p] = {}
  BY DEF Collected
<1>. QED  BY <1>1, <1>2, <1>3, <1>4 DEF Collected

\* Every step of a call keeps account of its readers.
LEMMA CollectedStep ==
  ASSUME TypeOK, NEW x \in Calls, CallFits(x), Collected(x), Next
  PROVE  Collected(x)'
<1>. USE DEF TypeOK, Parked, Ended, Goto, Answer, CloseAll, processVars, readerVars, loopVars, brokerVars
<1>1. ASSUME Refuse(x) \/ Admit(x) \/ Tick(x) PROVE Collected(x)'
  BY <1>1 DEF Refuse, Admit, Tick, Collected, CallFits
<1>2. ASSUME SpawnFails(x) PROVE Collected(x)'
  BY <1>2 DEF SpawnFails, Collected, CallFits
<1>3. ASSUME Spawn(x) PROVE Collected(x)'
  BY <1>3 DEF Spawn, Collected, CallFits
<1>4. ASSUME Top(x) PROVE Collected(x)'
  <2>1. CASE BeginTermination(x, "TARGET_TIMEOUT", Pipes)
    BY <1>4, <2>1, BeginCollected DEF Top
  <2>2. CASE Complete(x) /\ Goto(x, "finish") /\ UNCHANGED <<outcome, toReap>>
    BY <1>4, <2>2 DEF Top, Complete, Collected
  <2>3. CASE Goto(x, "select") /\ UNCHANGED <<outcome, toReap>>
    BY <1>4, <2>3 DEF Top, Collected
  <2>. QED  BY <1>4, <2>1, <2>2, <2>3 DEF Top
<1>5. ASSUME WaitChild(x) PROVE Collected(x)'
  BY <1>5 DEF WaitChild, Collected
<1>6. ASSUME NEW p \in Pipes, Join(x, p) PROVE Collected(x)'
  <2>1. CASE reader[x][p] = "eof"
    BY <1>6, <2>1 DEF Join, Collected
  <2>2. CASE reader[x][p] # "eof"
    <3>1. PICK code \in {"OUTPUT_LIMIT_EXCEEDED", "TARGET_FAILED"} :
            BeginTermination(x, code, Pipes \ {p})
      BY <1>6, <2>2 DEF Join
    <3>2. /\ pc[x] = "select" /\ reader[x][p] # "reading"
          /\ UNCHANGED <<processVars, readerVars>>
          /\ joined' = [joined EXCEPT ![x] = @ \cup {p}]
      BY <1>6 DEF Join
    <3>3. \A q \in Pipes \ (Pipes \ {p}) : reader[x][q] # "reading"  BY <3>2
    <3>4. \A q \in joined'[x] : reader'[x][q] # "reading"
      <4>1. \A q \in joined[x] : reader[x][q] # "reading"  BY DEF Collected
      <4>2. joined'[x] = joined[x] \cup {p} /\ reader' = reader  BY <3>2
      <4>. QED  BY <3>2, <4>1, <4>2
    <3>5. broker' # "exited"
      BY <1>6, <3>2 DEF Join, Collected
    <3>6. pc'[x] = "grace" /\ outcome'[x] = code /\ toReap'[x] = Pipes \ {p}
      BY <3>1 DEF BeginTermination
    <3>7. \A q \in Pipes : reader'[x][q] = "eof" => total'[x][q] <= Limit /\ holds'[x][q] = {}
      BY <3>2 DEF Collected
    <3>8. reader' = reader  BY <3>2
    <3>. QED  BY <3>1, <3>3, <3>4, <3>5, <3>6, <3>7, <3>8 DEF Collected
  <2>. QED  BY <2>1, <2>2
<1>7. ASSUME Deadline(x) \/ CancelSeen(x) PROVE Collected(x)'
  <2>1. \E code \in {"TARGET_TIMEOUT", "CANCELLED"} : BeginTermination(x, code, Pipes)
    BY <1>7 DEF Deadline, CancelSeen
  <2>. QED  BY <1>7, <2>1, BeginCollected DEF Deadline, CancelSeen
<1>8. ASSUME Kill(x) PROVE Collected(x)'
  BY <1>8 DEF Kill, Collected
<1>9. ASSUME ReapReader(x) PROVE Collected(x)'
  BY <1>9 DEF ReapReader, Collected
<1>10. ASSUME ReapPanics(x) \/ ReturnError(x) PROVE Collected(x)'
  <2>1. CASE ReturnError(x)  BY <2>1 DEF ReturnError, Collected
  <2>2. CASE ReapPanics(x)
    <3>1. reader[x]["stdout"] # "reading"
      <4>1. "stdout" \in toReap[x] => "stdout" \in joined[x]
        BY <2>2 DEF ReapPanics, ReapNext
      <4>2. pc[x] = "reap" /\ "stdout" \in Pipes  BY <2>2 DEF ReapPanics, Pipes
      <4>. QED  BY <4>1, <4>2 DEF Collected
    <3>2. pc[x] = "reap" /\ pc'[x] = "panicked" /\ outcome'[x] = "none"
      BY <2>2 DEF ReapPanics
    <3>. QED  BY <2>2, <3>1, <3>2 DEF ReapPanics, Collected
  <2>. QED  BY <1>10, <2>1, <2>2
<1>11. ASSUME Finish(x) PROVE Collected(x)'
  <2>1. /\ pc[x] = "finish" /\ \A p \in Pipes : reader[x][p] = "eof"
        /\ UNCHANGED <<processVars, readerVars, status, joined, brokerVars>>
    BY <1>11 DEF Finish, Collected
  <2>2. CASE BeginTermination(x, "TARGET_FAILED", {})
    BY <2>1, <2>2, BeginCollected
  <2>3. CASE /\ status[x] = "exited" /\ Goto(x, "done")
             /\ success[x] \/ outcome'[x] # "OK"
    <3>1. leader[x] = "reaped"  BY <2>3 DEF CallFits
    <3>. QED  BY <2>1, <2>3, <3>1 DEF Collected
  <2>. QED  BY <1>11, <2>2, <2>3 DEF Finish
<1>12. ASSUME Program(x) PROVE Collected(x)'
  <2>1. CASE LeaderExits(x)  BY <2>1 DEF LeaderExits, Collected
  <2>2. ASSUME NEW d \in Descendants, Fork(x, d) PROVE Collected(x)'
    BY <2>2 DEF Fork, Collected
  <2>3. ASSUME NEW d \in Descendants, DescendantExits(x, d) PROVE Collected(x)'
    BY <2>3 DEF DescendantExits, Collected
  <2>4. ASSUME NEW p \in Pipes, ClosePipe(x, p) PROVE Collected(x)'
    BY <2>4 DEF ClosePipe, Collected
  <2>. QED  BY <1>12, <2>1, <2>2, <2>3, <2>4 DEF Program
<1>13. ASSUME NEW p \in Pipes, Read(x, p) PROVE Collected(x)'
  BY <1>13 DEF Read, Collected
<1>14. ASSUME NEW p \in Pipes, ReadEof(x, p) PROVE Collected(x)'
  BY <1>14 DEF ReadEof, Collected, CallFits
<1>15. ASSUME NEW p \in Pipes, ReadFails(x, p) PROVE Collected(x)'
  BY <1>15 DEF ReadFails, Collected
<1>16. ASSUME Cancel \/ Exit \/ OtherRequest PROVE Collected(x)'
  <2>1. CASE Exit
    <3>1. Parked(x)  BY <2>1 DEF Exit, InFlight
    <3>2. \A p \in Pipes : reader'[x][p] =
            IF reader[x][p] = "reading" THEN "aborted" ELSE reader[x][p]
      BY <2>1 DEF Exit
    <3>3. /\ UNCHANGED <<pc, outcome, joined, toReap, total, holds, leader, success>>
          /\ \A p \in Pipes : reader'[x][p] # "reading"
          /\ \A p \in Pipes : reader'[x][p] = "eof" <=> reader[x][p] = "eof"
      BY <2>1, <3>2 DEF Exit
    <3>4. pc[x] \notin {"top", "select", "finish", "grace", "reap"}  BY <3>1
    <3>5. "stdout" \in Pipes  BY DEF Pipes
    <3>6. \A p \in joined'[x] : reader'[x][p] # "reading"  BY <3>3
    <3>7. \A p \in Pipes : reader'[x][p] = "eof" => total'[x][p] <= Limit /\ holds'[x][p] = {}
      BY <3>3 DEF Collected
    <3>8. outcome'[x] = "OK" =>
            /\ pc'[x] = "done" /\ leader'[x] = "reaped" /\ success'[x]
            /\ \A p \in Pipes : reader'[x][p] = "eof"
      BY <3>3 DEF Collected
    <3>9. pc'[x] \in {"idle", "spawning"} => joined'[x] = {}  BY <3>3 DEF Collected
    <3>. QED  BY ONLY <3>1, <3>3, <3>4, <3>5, <3>6, <3>7, <3>8, <3>9 DEF Collected, Parked, Ended
  <2>2. CASE Cancel \/ OtherRequest  BY <2>2 DEF Cancel, OtherRequest, Collected
  <2>. QED  BY <1>16, <2>1, <2>2
<1>. QED
  <2>1. ASSUME NEW c \in Calls, Refuse(c) \/ Admit(c) \/ CallStep(c) \/ Tick(c) \/ Program(c)
        PROVE  Collected(x)'
    <3>1. CASE c = x
      BY <2>1, <3>1, <1>1, <1>2, <1>3, <1>4, <1>5, <1>6, <1>7, <1>8, <1>9, <1>10, <1>11, <1>12
         DEF CallStep
    <3>2. CASE c # x  BY <2>1, <3>2, OthersApart, ApartStays
    <3>. QED  BY <3>1, <3>2
  <2>2. ASSUME NEW c \in Calls, NEW p \in Pipes, Read(c, p) \/ ReadEof(c, p) \/ ReadFails(c, p)
        PROVE  Collected(x)'
    <3>1. CASE c = x  BY <2>2, <3>1, <1>13, <1>14, <1>15
    <3>2. CASE c # x  BY <2>2, <3>2, OthersApart, ApartStays
    <3>. QED  BY <3>1, <3>2
  <2>3. CASE Cancel \/ Exit \/ OtherRequest  BY <2>3, <1>16
  <2>. QED  BY <2>1, <2>2, <2>3 DEF Next

-----------------------------------------------------------------------------
(* The theorems about output. *)

\* The joined invariant holds of every behaviour.
THEOREM ResultsInvariance == Spec => []RInv
<1>1. Init => AllCollected
  BY DEF Init, AllCollected, Collected
<1>2. IInv /\ AllCollected /\ [Next]_vars => AllCollected'
  <2>1. SUFFICES ASSUME IInv, AllCollected, [Next]_vars, NEW c \in Calls PROVE Collected(c)'
    BY DEF AllCollected
  <2>2. CASE Next  BY <2>1, <2>2, CollectedStep DEF IInv, AllCollected
  <2>3. CASE UNCHANGED vars
    BY <2>1, <2>3 DEF vars, processVars, readerVars, loopVars, brokerVars, AllCollected, Collected,
                      Parked, Ended
  <2>. QED  BY <2>1, <2>2, <2>3
<1>. QED  BY <1>1, <1>2, Invariance, PTL DEF Spec, RInv

\* A result means that the program exited with status 0 and that all it and its
\* descendants wrote was read, within the limits (execute_cli_inner's loop).
THEOREM ResultsAreComplete == Spec => []ResultIsComplete
<1>1. RInv => ResultIsComplete  BY DEF RInv, AllCollected, Collected, ResultIsComplete
<1>. QED  BY <1>1, ResultsInvariance, PTL

\* A call that returned left no reader task, one that died left at most that of
\* stderr, and none is left when the broker exits (reap_cli_reader, whose second
\* poll of a reader kills the call, and the drop of the runtime).
THEOREM ReadersEnd == Spec => []NoReaderLeft
<1>1. ASSUME RInv, NEW c \in Calls, NEW p \in Pipes, reader[c][p] = "reading"
      PROVE  /\ pc[c] # "done"
             /\ pc[c] = "panicked" => p = "stderr"
             /\ broker # "exited"
  BY <1>1 DEF RInv, AllCollected, Collected, Pipes
<1>2. RInv => NoReaderLeft  BY <1>1 DEF NoReaderLeft
<1>. QED  BY <1>2, ResultsInvariance, PTL
=============================================================================
