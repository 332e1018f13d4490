-------------------------- MODULE ServeLoopProofs --------------------------
(***************************************************************************)
(* What ServeLoop guarantees for every stream of the client, every limit    *)
(* and every way the stream is cut into chunks. The inductive invariant is  *)
(*   TypeOK /\ Answers /\ Announces /\ Framed                               *)
(*   Answers    which tasks have a line on stdout, and which have ended     *)
(*   Announces  the revision in force is the one that was answered last     *)
(*   Framed     the messages so far are the lines of the bytes so far, and  *)
(*              the incomplete message is what follows the last of them     *)
(***************************************************************************)
EXTENDS ServeLoop, FiniteSetTheorems, SequenceTheorems, WellFoundedInduction, TLAPS

\* Only a task that has ended has a line, and only one; each that is done has, except a
\* notification's; while the client reads, none fails; a task is joined when it has ended,
\* and one without a line that is not done makes the broker fail.
HasLine(m) == \E k \in 1 .. Len(written) : written[k].task = m
Answers ==
  /\ \A k \in 1 .. Len(written) : written[k].task \in 1 .. Len(tasks) /\ Ended(written[k].task)
  /\ \A j, k \in 1 .. Len(written) : written[j].task = written[k].task => j = k
  /\ \A m \in 1 .. Len(tasks) :
       /\ reading => tasks[m] # "failed"
       /\ tasks[m] = "done" /\ KindOf(m) # "notification" => HasLine(m)
  /\ \A m \in 1 .. joined : Ended(m) /\ (tasks[m] = "done" \/ HasLine(m) \/ failed)
  /\ loop = "exited" => joined = Len(tasks)

\* The last of a set of places.
LastOf(S) == CHOOSE j \in S : \A i \in S : i <= j

\* While the client reads, the revision in force is that of the last negotiation among
\* the lines written.
Negotiations(n) == {j \in 1 .. n : written[j].kind = "negotiated"}
InForce(n) ==
  IF Negotiations(n) = {} THEN "legacy" ELSE written[LastOf(Negotiations(n))].revision
Announces ==
  /\ reading => revision = InForce(Len(written))
  /\ RevisionAnnounced

\* The n-th message is the n-th line, as FramingExact has it: lines are told by their
\* place, and each place has its number. There may be one message more, the rest of the
\* stream, after which nothing is read; until then the rest is the incomplete message.
Rank(i) == Cardinality({j \in LineEnds : j <= i})
Start(i) == LastOf({j \in LineEnds : j < i} \cup {0})
Expected(i) == IF Len(Body(i)) > RequestBytes THEN TooLarge ELSE Strip(Body(i))
Placed ==
  /\ \A n \in 1 .. Cardinality(LineEnds) : \E i \in LineEnds : Rank(i) = n
  /\ \A i \in LineEnds : requests[Rank(i)] = Expected(i)
Pending ==
  \/ /\ Len(requests) = Cardinality(LineEnds)
     /\ loop = "reading" => message = Body(pos + 1)
  \/ /\ Len(requests) = Cardinality(LineEnds) + 1
     /\ requests[Cardinality(LineEnds) + 1] = Expected(pos + 1)
     /\ message = <<>>
     /\ loop # "reading" \/ (closed /\ pos = Len(sent))
Framed == Placed /\ Pending

IInv == TypeOK /\ Answers /\ Announces /\ Framed

-----------------------------------------------------------------------------
(* Types of the helpers. *)

\* A chunk is so many bytes of what the client sent.
LEMMA ChunkType ==
  ASSUME TypeOK, NEW n \in 1 .. Len(sent) - pos
  PROVE  /\ Chunk(n) \in Seq(Byte) /\ Len(Chunk(n)) = n
         /\ pos + n \in 0 .. Len(sent)
         /\ \A i \in 1 .. n : Chunk(n)[i] = sent[pos + i]
<1>1. pos + 1 \in Int /\ pos + n \in Int /\ n \in Nat /\ pos \in Nat /\ Len(sent) \in Nat
  BY DEF TypeOK
<1>2. \A i \in pos + 1 .. pos + n : sent[i] \in Byte  BY <1>1 DEF TypeOK
<1>3. /\ SubSeq(sent, pos + 1, pos + n) \in Seq(Byte)
      /\ Len(SubSeq(sent, pos + 1, pos + n)) = n
      /\ \A i \in 1 .. n : SubSeq(sent, pos + 1, pos + n)[i] = sent[pos + i]
  <2>1. /\ SubSeq(sent, pos + 1, pos + n) \in Seq(Byte)
        /\ Len(SubSeq(sent, pos + 1, pos + n)) =
             IF pos + 1 <= pos + n THEN pos + n - (pos + 1) + 1 ELSE 0
        /\ \A i \in 1 .. pos + n - (pos + 1) + 1 :
             SubSeq(sent, pos + 1, pos + n)[i] = sent[pos + 1 + i - 1]
    BY <1>1, <1>2, SubSeqProperties
  <2>2. pos + n - (pos + 1) + 1 = n /\ pos + 1 <= pos + n
        /\ \A i \in 1 .. n : pos + 1 + i - 1 = pos + i
    BY <1>1
  <2>. QED  BY <2>1, <2>2
<1>. QED  BY <1>1, <1>3 DEF Chunk

\* A line without its carriage return is a sequence of bytes.
LEMMA StripType ==
  ASSUME NEW s \in Seq(Byte)
  PROVE  Strip(s) \in Seq(Byte)
<1>1. CASE s = <<>>  BY <1>1 DEF Strip
<1>2. CASE s # <<>>
  <2>1. Len(s) \in Nat /\ Len(s) - 1 \in Int /\ \A i \in 1 .. Len(s) - 1 : s[i] \in Byte
    BY <1>2
  <2>2. SubSeq(s, 1, Len(s) - 1) \in Seq(Byte)  BY <2>1, SubSeqProperties
  <2>. QED  BY <2>2 DEF Strip
<1>. QED  BY <1>1, <1>2

\* A message read is one more task, with its message.
LEMMA SpawnType ==
  ASSUME TypeOK, NEW r \in Seq(Byte), Spawn(r)
  PROVE  /\ requests' \in Seq(Seq(Byte)) /\ Len(requests') = Len(requests) + 1
         /\ \A m \in 1 .. Len(requests) : requests'[m] = requests[m]
         /\ requests'[Len(requests) + 1] = r
         /\ tasks' \in Seq(TaskStates)
         /\ Len(tasks') = Len(tasks) + 1
         /\ \A m \in 1 .. Len(tasks) : tasks'[m] = tasks[m]
         /\ tasks'[Len(tasks) + 1] = "spawned"
BY DEF TypeOK, TaskStates, Spawn

\* What one poll of the loop reads, and what it makes of it.
LEMMA ReadType ==
  ASSUME TypeOK, NEW n \in 1 .. Len(sent) - pos
  PROVE  /\ SubSeq(Chunk(n), 1, n - 1) \in Seq(Byte)
         /\ Len(SubSeq(Chunk(n), 1, n - 1)) = n - 1
         /\ message \o Chunk(n) \in Seq(Byte)
         /\ Len(message \o Chunk(n)) = Len(message) + n
         /\ message \o SubSeq(Chunk(n), 1, n - 1) \in Seq(Byte)
<1>1. Chunk(n) \in Seq(Byte) /\ Len(Chunk(n)) = n  BY ChunkType
<1>2. n \in Nat /\ n - 1 \in Int /\ \A i \in 1 .. n - 1 : Chunk(n)[i] \in Byte  BY <1>1
<1>3. /\ SubSeq(Chunk(n), 1, n - 1) \in Seq(Byte)
      /\ Len(SubSeq(Chunk(n), 1, n - 1)) = IF 1 <= n - 1 THEN n - 1 - 1 + 1 ELSE 0
  BY <1>2, SubSeqProperties
<1>4. Len(SubSeq(Chunk(n), 1, n - 1)) = n - 1  BY <1>2, <1>3
<1>5. message \in Seq(Byte)  BY DEF TypeOK
<1>6. /\ message \o Chunk(n) \in Seq(Byte)
      /\ Len(message \o Chunk(n)) = Len(message) + Len(Chunk(n))
  BY <1>1, <1>5, ConcatProperties
<1>7. message \o SubSeq(Chunk(n), 1, n - 1) \in Seq(Byte)  BY <1>3, <1>5, ConcatProperties
<1>. QED  BY <1>1, <1>3, <1>4, <1>6, <1>7

\* A task that goes on, and no other, is in a new state.
LEMMA TaskType ==
  ASSUME TypeOK, NEW m \in 1 .. Len(tasks), NEW st \in TaskStates,
         tasks' = [tasks EXCEPT ![m] = st]
  PROVE  /\ tasks' \in Seq(TaskStates)
         /\ Len(tasks') = Len(tasks)
         /\ \A j \in 1 .. Len(tasks) : tasks'[j] = IF j = m THEN st ELSE tasks[j]
<1>. DEFINE T == TaskStates
<1>1. tasks \in Seq(T) /\ st \in T  BY DEF TypeOK
<1>. HIDE DEF T
<1>2. [tasks EXCEPT ![m] = st] \in Seq(T)  BY <1>1, ExceptSeq
<1>3. /\ Len([tasks EXCEPT ![m] = st]) = Len(tasks)
      /\ \A j \in 1 .. Len(tasks) : [tasks EXCEPT ![m] = st][j] = IF j = m THEN st ELSE tasks[j]
  BY <1>1, ExceptSeq
<1>. QED  BY <1>2, <1>3 DEF T

\* A line written is one more, and its task has ended; or its client is gone.
LEMMA WriteType ==
  ASSUME TypeOK, NEW m \in 1 .. Len(tasks), NEW kind \in {"negotiated", "result", "other"},
         NEW rev \in {"legacy", "modern"}, WriteLine(m, kind, rev)
  PROVE  /\ written' \in Seq(Line) /\ Len(written') \in Nat /\ Len(written) <= Len(written')
         /\ tasks' \in Seq(TaskStates)
         /\ Len(tasks') = Len(tasks)
<1>1. [task |-> m, kind |-> kind, revision |-> rev] \in Line  BY DEF TypeOK, Line
<1>2. tasks' = [tasks EXCEPT ![m] = "done"] \/ tasks' = [tasks EXCEPT ![m] = "failed"]
  BY DEF WriteLine
<1>3. /\ tasks' \in Seq(TaskStates)
      /\ Len(tasks') = Len(tasks)
  BY <1>2, TaskType DEF TaskStates
<1>4. written \in Seq(Line)  BY DEF TypeOK
<1>5. \/ written' = written
      \/ written' = Append(written, [task |-> m, kind |-> kind, revision |-> rev])
  BY DEF WriteLine
<1>6. written' \in Seq(Line) /\ Len(written') \in Nat /\ Len(written) <= Len(written')
  BY <1>1, <1>4, <1>5
<1>. QED  BY <1>3, <1>6

-----------------------------------------------------------------------------
(* Types. *)

\* Every step keeps the types.
LEMMA TypeStep ==
  ASSUME TypeOK, \A k \in 1 .. Len(written) : written[k].task \in 1 .. Len(tasks), Next
  PROVE  TypeOK'
<1>. USE ServeAssumption DEF clientVars, loopVars
<1>1. ASSUME NEW n \in 1 .. Len(sent) - pos, ReadPart(n) PROVE TypeOK'
  BY <1>1, ChunkType, ReadType DEF TypeOK, ReadPart
<1>2. ASSUME NEW n \in 1 .. Len(sent) - pos, ReadLine(n) PROVE TypeOK'
  <2>. DEFINE r == Strip(message \o SubSeq(Chunk(n), 1, n - 1))
  <2>1. r \in Seq(Byte)  BY ReadType, StripType
  <2>2. Spawn(r)  BY <1>2 DEF ReadLine
  <2>. HIDE DEF r
  <2>3. /\ requests' \in Seq(Seq(Byte)) /\ tasks' \in Seq(TaskStates)
        /\ Len(tasks') = Len(tasks) + 1 /\ Len(requests') = Len(requests) + 1
    BY <2>1, <2>2, SpawnType
  <2>. QED  BY <1>2, <2>3, ChunkType DEF TypeOK, ReadLine
<1>3. ASSUME NEW n \in 1 .. Len(sent) - pos, ReadTooLarge(n) PROVE TypeOK'
  <2>1. TooLarge \in Seq(Byte)  BY DEF TooLarge, Byte
  <2>. QED  BY <1>3, <2>1, SpawnType, ChunkType DEF TypeOK, ReadTooLarge, Break
<1>4. ASSUME ReadEnd PROVE TypeOK'
  <2>1. CASE message = <<>>  BY <1>4, <2>1 DEF TypeOK, ReadEnd, Break
  <2>2. CASE message # <<>>
    <3>1. Strip(message) \in Seq(Byte)  BY StripType DEF TypeOK
    <3>. QED  BY <1>4, <2>2, <3>1, SpawnType DEF TypeOK, ReadEnd
  <2>. QED  BY <2>1, <2>2
<1>5. ASSUME TakeSignal \/ ReadFails PROVE TypeOK'
  BY <1>5 DEF TypeOK, TakeSignal, ReadFails, Break
<1>6. ASSUME NEW m \in 1 .. Len(tasks),
             AnswerAtOnce(m) \/ Negotiate(m) \/ StartCall(m) \/ EndCall(m)
      PROVE  TypeOK'
  <2>1. revision' \in {"legacy", "modern"}
    BY <1>6 DEF TypeOK, AnswerAtOnce, Negotiate, StartCall, EndCall
  <2>2. \/ \E kind \in {"negotiated", "result", "other"}, rev \in {"legacy", "modern"} :
             WriteLine(m, kind, rev)
        \/ tasks' = [tasks EXCEPT ![m] = "executing"] /\ written' = written
    BY <1>6 DEF TypeOK, AnswerAtOnce, Negotiate, StartCall, EndCall
  <2>3. /\ written' \in Seq(Line) /\ Len(written') \in Nat /\ Len(written) <= Len(written')
        /\ tasks' \in Seq(TaskStates)
        /\ Len(tasks') = Len(tasks)
    <3>1. CASE \E kind \in {"negotiated", "result", "other"}, rev \in {"legacy", "modern"} :
                 WriteLine(m, kind, rev)
      BY <3>1, WriteType
    <3>2. CASE tasks' = [tasks EXCEPT ![m] = "executing"] /\ written' = written
      BY <3>2, TaskType DEF TypeOK, TaskStates
    <3>. QED  BY <2>2, <3>1, <3>2
  <2>4. UNCHANGED <<clientVars, loopVars>>
    BY <1>6 DEF AnswerAtOnce, Negotiate, StartCall, EndCall
  <2>. QED  BY <2>1, <2>3, <2>4 DEF TypeOK
<1>7. ASSUME NEW m \in 1 .. Len(tasks), AcceptNotification(m) \/ CallPanics(m) PROVE TypeOK'
  <2>1. /\ tasks' \in Seq(TaskStates)
        /\ Len(tasks') = Len(tasks)
    BY <1>7, TaskType DEF AcceptNotification, CallPanics, TaskStates
  <2>. QED  BY <1>7, <2>1 DEF TypeOK, AcceptNotification, CallPanics
<1>8. ASSUME Join \/ Exit PROVE TypeOK'
  <2>1. CASE Join
    <3>1. joined' \in 0 .. Len(tasks)  BY <2>1 DEF TypeOK, Join
    <3>2. failed' \in BOOLEAN  BY <2>1 DEF Join
    <3>. QED  BY <2>1, <3>1, <3>2 DEF TypeOK, Join
  <2>2. CASE Exit  BY <2>2 DEF TypeOK, Exit
  <2>. QED  BY <1>8, <2>1, <2>2
<1>9. ASSUME NEW b \in Bodies, Send(b) PROVE TypeOK'
  <2>1. b \in Seq(Byte) /\ <<LF>> \in Seq(Byte)  BY DEF Byte
  <2>2. sent' \in Seq(Byte) /\ Len(sent') = Len(sent) + Len(b) + 1
    BY <1>9, <2>1 DEF TypeOK, Send
  <2>. QED  BY <1>9, <2>1, <2>2 DEF TypeOK, Send
<1>10. ASSUME Close PROVE TypeOK'
  <2>1. PICK b \in Bodies \cup {<<>>} : Len(sent) + Len(b) <= MaxBytes /\ sent' = sent \o b
    BY <1>10 DEF Close
  <2>2. b \in Seq(Byte)
    <3>1. <<>> \in Seq(Byte)  OBVIOUS
    <3>. QED  BY <2>1, <3>1
  <2>3. sent' \in Seq(Byte) /\ Len(sent') = Len(sent) + Len(b)
    BY <2>1, <2>2 DEF TypeOK
  <2>. QED  BY <1>10, <2>1, <2>2, <2>3 DEF TypeOK, Close
<1>11. ASSUME Signal \/ Take PROVE TypeOK'
  <2>1. CASE Signal  BY <2>1 DEF TypeOK, Signal
  <2>2. CASE Take
    <3>1. taken' \in 0 .. Len(written)  BY <2>2 DEF TypeOK, Take
    <3>. QED  BY <2>2, <3>1 DEF TypeOK, Take
  <2>. QED  BY <1>11, <2>1, <2>2
<1>12. ASSUME StopReading PROVE TypeOK'
  <2>1. Stuck => written[Len(written)].task \in 1 .. Len(tasks)
    BY ServeAssumption DEF TypeOK, Stuck
  <2>2. /\ tasks' \in Seq(TaskStates)
        /\ Len(tasks') = Len(tasks)
    BY <1>12, <2>1, TaskType DEF TypeOK, StopReading, TaskStates
  <2>. QED  BY <1>12, <2>2 DEF TypeOK, StopReading
<1>13. ASSUME Finished PROVE TypeOK'
  BY <1>13 DEF TypeOK, Finished, vars
<1>. QED  BY <1>1, <1>2, <1>3, <1>4, <1>5, <1>6, <1>7, <1>8, <1>9, <1>10, <1>11, <1>12, <1>13
          DEF Next, Read, Handle, End

-----------------------------------------------------------------------------
(* Tasks and their lines. *)

\* What a write does to the history and to the tasks.
LEMMA Wrote ==
  ASSUME TypeOK, NEW m \in 1 .. Len(tasks), NEW kind, NEW rev, WriteLine(m, kind, rev)
  PROVE  /\ Len(tasks') = Len(tasks)
         /\ \A j \in 1 .. Len(tasks) : j # m => tasks'[j] = tasks[j]
         /\ Ended(m)'
         /\ reading => /\ Len(written') = Len(written) + 1 /\ tasks'[m] = "done"
                       /\ written'[Len(written) + 1] =
                            [task |-> m, kind |-> kind, revision |-> rev]
         /\ ~reading => written' = written
         /\ \A k \in 1 .. Len(written) : written'[k] = written[k]
<1>1. written \in Seq(Line) /\ Len(written) \in Nat  BY DEF TypeOK
<1>2. CASE reading
  <2>1. /\ written' = Append(written, [task |-> m, kind |-> kind, revision |-> rev])
        /\ tasks' = [tasks EXCEPT ![m] = "done"]
    BY <1>2 DEF WriteLine
  <2>2. /\ Len(tasks') = Len(tasks) /\ tasks'[m] = "done"
        /\ \A j \in 1 .. Len(tasks) : j # m => tasks'[j] = tasks[j]
    BY <2>1, TaskType
  <2>. DEFINE l == [task |-> m, kind |-> kind, revision |-> rev]
  <2>3. written' = Append(written, l)  BY <2>1
  <2>. HIDE DEF l
  <2>4. /\ Len(written') = Len(written) + 1 /\ written'[Len(written) + 1] = l
        /\ \A k \in 1 .. Len(written) : written'[k] = written[k]
    BY <1>1, <2>3
  <2>. QED  BY <1>2, <2>2, <2>4 DEF Ended, l
<1>3. CASE ~reading
  BY <1>1, <1>3, TaskType DEF WriteLine, Ended
<1>. QED  BY <1>2, <1>3

\* The answer to a task that has not ended is its only line.
LEMMA WriteAnswers ==
  ASSUME TypeOK, Answers, NEW m \in 1 .. Len(tasks), ~Ended(m), NEW kind, NEW rev,
         WriteLine(m, kind, rev), UNCHANGED <<reading, requests, joined, loop, failed>>
  PROVE  Answers'
<1>1. /\ Len(tasks') = Len(tasks) /\ Len(written) \in Nat
      /\ \A j \in 1 .. Len(tasks) : j # m => tasks'[j] = tasks[j]
      /\ Ended(m)'
      /\ reading => /\ Len(written') = Len(written) + 1 /\ tasks'[m] = "done"
                    /\ written'[Len(written) + 1] = [task |-> m, kind |-> kind, revision |-> rev]
      /\ ~reading => written' = written
      /\ \A k \in 1 .. Len(written) : written'[k] = written[k]
  <2>1. Len(written) \in Nat  BY DEF TypeOK
  <2>. QED  BY <2>1, Wrote
<1>2. \A j \in 1 .. Len(tasks) : Ended(j) => Ended(j)'  BY <1>1 DEF Ended
<1>3. \A k \in 1 .. Len(written) : written[k].task # m  BY DEF Answers
<1>4. \A k \in 1 .. Len(written') :
        \/ k \in 1 .. Len(written) /\ written'[k] = written[k]
        \/ reading /\ k = Len(written) + 1 /\ written'[k].task = m
  BY <1>1
<1>5. \A k \in 1 .. Len(written') :
        written'[k].task \in 1 .. Len(tasks') /\ Ended(written[k].task)'
  BY <1>1, <1>2, <1>4 DEF Answers, Ended
<1>6. \A j, k \in 1 .. Len(written') : written'[j].task = written'[k].task => j = k
  BY <1>3, <1>4 DEF Answers
<1>7. \A j \in 1 .. Len(tasks) : HasLine(j) \/ (reading /\ j = m) => HasLine(j)'
  <2>1. reading => Len(written) + 1 \in 1 .. Len(written')  BY <1>1
  <2>2. \A k \in 1 .. Len(written) : k \in 1 .. Len(written')  BY <1>1
  <2>. QED  BY <1>1, <2>1, <2>2 DEF HasLine
<1>8. \A j \in 1 .. Len(tasks') :
        /\ reading' => tasks'[j] # "failed"
        /\ tasks'[j] = "done" /\ KindOf(j)' # "notification" => HasLine(j)'
  <2>1. ~reading => tasks'[m] = "failed"  BY TaskType DEF WriteLine, TaskStates
  <2>. QED  BY <1>1, <1>7, <2>1 DEF Answers, KindOf
<1>9. \A j \in 1 .. joined' : Ended(j)' /\ (tasks'[j] = "done" \/ HasLine(j)' \/ failed')
  <2>1. \A j \in 1 .. joined : j \in 1 .. Len(tasks) /\ Ended(j)
    <3>1. \A j \in 1 .. joined : j \in 1 .. Len(tasks)  BY DEF TypeOK
    <3>. QED  BY <3>1 DEF Answers
  <2>2. \A j \in 1 .. joined : j # m  BY <2>1
  <2>. QED  BY <1>1, <1>2, <1>7, <2>1, <2>2 DEF Answers
<1>10. loop' = "exited" => joined' = Len(tasks')  BY <1>1 DEF Answers
<1>. QED  BY <1>5, <1>6, <1>8, <1>9, <1>10 DEF Answers

\* A new task has neither ended nor a line.
LEMMA SpawnAnswers ==
  ASSUME TypeOK, Answers, loop = "reading", NEW r \in Seq(Byte), Spawn(r),
         UNCHANGED <<reading, written, joined, failed>>, loop' \in {"reading", "joining"}
  PROVE  Answers'
<1>1. /\ Len(tasks') = Len(tasks) + 1 /\ Len(tasks) \in Nat /\ Len(requests) = Len(tasks)
      /\ \A m \in 1 .. Len(tasks) : tasks'[m] = tasks[m] /\ requests'[m] = requests[m]
      /\ tasks'[Len(tasks) + 1] = "spawned"
  BY SpawnType DEF TypeOK
<1>2. \A m \in 1 .. Len(tasks') : m \in 1 .. Len(tasks) \/ tasks'[m] = "spawned"  BY <1>1
<1>3. \A m \in 1 .. Len(tasks) : m \in 1 .. Len(tasks')  BY <1>1
<1>4. \A m \in 1 .. joined : m \in 1 .. Len(tasks)  BY DEF TypeOK
<1>. QED  BY <1>1, <1>2, <1>3, <1>4 DEF Answers, Ended, HasLine, KindOf

\* Nothing of the tasks changes.
LEMMA SameAnswers ==
  ASSUME Answers, UNCHANGED <<tasks, written, requests, reading, joined>>, failed => failed',
         loop' = "exited" => loop = "exited" \/ joined = Len(tasks)
  PROVE  Answers'
BY DEF Answers, Ended, HasLine, KindOf

\* Every step keeps the account of tasks and lines.
LEMMA AnswersStep ==
  ASSUME TypeOK, Answers, Next
  PROVE  Answers'
<1>. USE DEF clientVars, loopVars
<1>1. ASSUME NEW n \in 1 .. Len(sent) - pos, ReadPart(n) PROVE Answers'
  BY <1>1, SameAnswers DEF ReadPart
<1>2. ASSUME NEW n \in 1 .. Len(sent) - pos, ReadLine(n) PROVE Answers'
  <2>. DEFINE r == Strip(message \o SubSeq(Chunk(n), 1, n - 1))
  <2>1. r \in Seq(Byte)  BY ReadType, StripType
  <2>2. Spawn(r)  BY <1>2 DEF ReadLine
  <2>. HIDE DEF r
  <2>. QED  BY <1>2, <2>1, <2>2, SpawnAnswers DEF ReadLine
<1>3. ASSUME NEW n \in 1 .. Len(sent) - pos, ReadTooLarge(n) PROVE Answers'
  <2>1. TooLarge \in Seq(Byte)  BY DEF TooLarge, Byte
  <2>. QED  BY <1>3, <2>1, SpawnAnswers DEF ReadTooLarge, Break
<1>4. ASSUME ReadEnd PROVE Answers'
  <2>1. CASE message = <<>>  BY <1>4, <2>1, SameAnswers DEF ReadEnd, Break
  <2>2. CASE message # <<>>
    <3>1. Strip(message) \in Seq(Byte)  BY StripType DEF TypeOK
    <3>. QED  BY <1>4, <2>2, <3>1, SpawnAnswers DEF ReadEnd
  <2>. QED  BY <2>1, <2>2
<1>5. ASSUME TakeSignal \/ ReadFails PROVE Answers'
  <2>1. CASE TakeSignal  BY <2>1, SameAnswers DEF TakeSignal, Break
  <2>2. CASE ReadFails  BY <2>2, SameAnswers DEF ReadFails, Break
  <2>. QED  BY <1>5, <2>1, <2>2
<1>6. ASSUME NEW m \in 1 .. Len(tasks), tasks[m] \in {"spawned", "executing"},
             NEW kind, NEW rev, WriteLine(m, kind, rev),
             UNCHANGED <<reading, requests, joined, loop, failed>>
      PROVE  Answers'
  BY <1>6, WriteAnswers DEF Ended
<1>7. ASSUME NEW m \in 1 .. Len(tasks), AnswerAtOnce(m) \/ Negotiate(m) \/ EndCall(m)
      PROVE  Answers'
  BY <1>6, <1>7 DEF AnswerAtOnce, Negotiate, EndCall
<1>8. ASSUME NEW m \in 1 .. Len(tasks), StartCall(m) \/ AcceptNotification(m) \/ CallPanics(m)
      PROVE  Answers'
  <2>1. CASE WriteLine(m, "other", revision)
    <3>1. /\ tasks[m] \in {"spawned", "executing"}
          /\ UNCHANGED <<reading, requests, joined, loop, failed>>
      BY <1>8 DEF StartCall, AcceptNotification, CallPanics
    <3>. QED  BY <1>6, <2>1, <3>1
  <2>2. CASE /\ tasks[m] \in {"spawned", "executing"}
             /\ \/ tasks' = [tasks EXCEPT ![m] = "executing"]
                \/ tasks' = [tasks EXCEPT ![m] = "panicked"]
                \/ tasks' = [tasks EXCEPT ![m] = "done"] /\ KindOf(m) = "notification"
             /\ UNCHANGED <<written, requests, reading, joined, loop, failed>>
    <3>1. /\ Len(tasks') = Len(tasks)
          /\ \A j \in 1 .. Len(tasks) : j # m => tasks'[j] = tasks[j]
          /\ \/ tasks'[m] \in {"executing", "panicked"}
             \/ tasks'[m] = "done" /\ KindOf(m) = "notification"
      BY <2>2, TaskType DEF TaskStates
    <3>2. \A j \in 1 .. Len(tasks) : Ended(j) => Ended(j)'  BY <2>2, <3>1 DEF Ended
    <3>3. \A j \in 1 .. joined : j \in 1 .. Len(tasks) /\ j # m
      <4>1. \A j \in 1 .. joined : j \in 1 .. Len(tasks)  BY DEF TypeOK
      <4>2. \A j \in 1 .. joined : Ended(j)  BY DEF Answers
      <4>. QED  BY <2>2, <4>1, <4>2 DEF Ended
    <3>4. \A j \in 1 .. Len(tasks) : HasLine(j)' = HasLine(j) /\ KindOf(j)' = KindOf(j)
      BY <2>2 DEF HasLine, KindOf
    <3>5. \A j \in 1 .. Len(tasks') :
            /\ reading' => tasks'[j] # "failed"
            /\ tasks'[j] = "done" /\ KindOf(j)' # "notification" => HasLine(j)'
      BY <2>2, <3>1, <3>4 DEF Answers
    <3>6. \A j \in 1 .. joined : Ended(j)' /\ (tasks'[j] = "done" \/ HasLine(j)' \/ failed')
      BY <2>2, <3>1, <3>2, <3>3, <3>4 DEF Answers
    <3>. QED  BY <2>2, <3>1, <3>2, <3>5, <3>6 DEF Answers
  <2>. QED  BY <1>8, <2>1, <2>2 DEF StartCall, AcceptNotification, CallPanics
<1>9. ASSUME Join PROVE Answers'
  <2>1. /\ joined \in Nat /\ joined' = joined + 1 /\ loop' = "joining" /\ Ended(joined + 1)
        /\ UNCHANGED <<tasks, written, requests, reading>>
    BY <1>9 DEF TypeOK, Join, Ended
  <2>2. \A m \in 1 .. joined' : m \in 1 .. joined \/ m = joined + 1  BY <2>1
  <2>3. (failed => failed') /\ (tasks[joined + 1] # "done" => failed')  BY <1>9 DEF Join
  <2>4. \A m : HasLine(m)' = HasLine(m) /\ KindOf(m)' = KindOf(m) /\ Ended(m)' = Ended(m)
    BY <2>1 DEF HasLine, KindOf, Ended
  <2>5. \A m \in 1 .. joined' : Ended(m)' /\ (tasks'[m] = "done" \/ HasLine(m)' \/ failed')
    BY <2>1, <2>2, <2>3, <2>4 DEF Answers
  <2>. QED  BY <2>1, <2>4, <2>5 DEF Answers
<1>10. ASSUME Exit PROVE Answers'
  BY <1>10, SameAnswers DEF Exit
<1>11. ASSUME (\E b \in Bodies : Send(b)) \/ Close \/ Signal \/ Take \/ Finished PROVE Answers'
  BY <1>11, SameAnswers DEF Send, Close, Signal, Take, Finished, vars
<1>12. ASSUME StopReading PROVE Answers'
  <2>1. ~reading' /\ UNCHANGED <<written, requests, joined, loop>>
    BY <1>12 DEF StopReading
  <2>2. Stuck => written[Len(written)].task \in 1 .. Len(tasks)
    BY ServeAssumption DEF TypeOK, Stuck, Answers
  <2>3. /\ Len(tasks') = Len(tasks)
        /\ \A j \in 1 .. Len(tasks) :
             tasks'[j] = tasks[j] \/ (tasks'[j] = "failed" /\ HasLine(j))
    <3>1. Stuck => Len(written) \in 1 .. Len(written)
      BY ServeAssumption DEF TypeOK, Stuck
    <3>2. Stuck => HasLine(written[Len(written)].task)  BY <3>1 DEF HasLine
    <3>. QED  BY <1>12, <2>2, <3>2, TaskType DEF StopReading, TaskStates
  <2>4. \A j \in 1 .. Len(tasks) : Ended(j) => Ended(j)'  BY <2>3 DEF Ended
  <2>5. \A j \in 1 .. joined : j \in 1 .. Len(tasks)  BY DEF TypeOK
  <2>6. \A j : HasLine(j)' = HasLine(j) /\ KindOf(j)' = KindOf(j)
    BY <2>1 DEF HasLine, KindOf
  <2>7. failed' = failed  BY <1>12 DEF StopReading
  <2>8. \A j \in 1 .. joined' : Ended(j)' /\ (tasks'[j] = "done" \/ HasLine(j)' \/ failed')
    BY <2>1, <2>3, <2>4, <2>5, <2>6, <2>7 DEF Answers
  <2>9. \A j \in 1 .. Len(tasks') : tasks'[j] = "done" /\ KindOf(j)' # "notification" => HasLine(j)'
    BY <2>3, <2>6 DEF Answers
  <2>. QED  BY <2>1, <2>3, <2>4, <2>8, <2>9 DEF Answers
<1>. QED  BY <1>1, <1>2, <1>3, <1>4, <1>5, <1>7, <1>8, <1>9, <1>10, <1>11, <1>12
          DEF Next, Read, Handle, End

-----------------------------------------------------------------------------
(* The revision in force. *)

\* Places up to n that are some have a last one.
LEMMA HasLast ==
  ASSUME NEW n \in Nat, NEW S \in SUBSET (0 .. n), S # {}
  PROVE  LastOf(S) \in S /\ \A i \in S : i <= LastOf(S)
<1>. DEFINE R == OpToRel(<, Nat)
            T == {k \in 0 .. n : n - k \in S}
<1>1. T \subseteq Nat /\ T # {}
  <2>1. PICK i \in S : TRUE  OBVIOUS
  <2>2. n - i \in 0 .. n /\ n - (n - i) = i  BY <2>1
  <2>3. n - i \in T  BY <2>1, <2>2
  <2>4. \A k \in T : k \in Nat  OBVIOUS
  <2>. HIDE DEF T
  <2>. QED  BY <2>3, <2>4
<1>2. PICK k \in T : \A l \in T : <<l, k>> \notin R
  BY <1>1, NatLessThanWellFounded, WFMin
<1>3. \A l \in T : ~ (l < k)  BY <1>1, <1>2 DEF OpToRel
<1>4. ASSUME NEW i \in S PROVE i <= n - k
  <2>1. n - i \in T
    <3>1. n - i \in 0 .. n /\ n - (n - i) = i  OBVIOUS
    <3>. QED  BY <3>1
  <2>. QED  BY <1>3, <2>1
<1>5. \E j \in S : \A i \in S : i <= j  BY <1>4
<1>. QED  BY <1>5 DEF LastOf

\* A line written later does not change what was in force before it.
LEMMA InForceStays ==
  ASSUME TypeOK, NEW n \in 0 .. Len(written),
         \A k \in 1 .. Len(written) : written'[k] = written[k]
  PROVE  InForce(n)' = InForce(n)
<1>1. n \in Nat /\ \A j \in 1 .. n : written'[j] = written[j]  BY DEF TypeOK
<1>2. Negotiations(n)' = Negotiations(n)  BY <1>1 DEF Negotiations
<1>3. LastOf(Negotiations(n))' = LastOf(Negotiations(n))  BY <1>2 DEF LastOf
<1>4. Negotiations(n) # {} => LastOf(Negotiations(n)) \in 1 .. n
  <2>1. Negotiations(n) \in SUBSET (0 .. n)  BY <1>1 DEF Negotiations
  <2>2. Negotiations(n) # {} => LastOf(Negotiations(n)) \in Negotiations(n)
    BY <1>1, <2>1, HasLast
  <2>. QED  BY <2>2 DEF Negotiations
<1>. QED  BY <1>1, <1>2, <1>3, <1>4 DEF InForce

\* RevisionAnnounced in terms of what was in force.
LEMMA AnnouncedIs ==
  RevisionAnnounced <=>
    \A k \in 1 .. Len(written) : written[k].kind = "result" => written[k].revision = InForce(k - 1)
BY DEF RevisionAnnounced, InForce, Negotiations, LastOf

\* The same of the state that follows.
LEMMA AnnouncedNext ==
  ASSUME \A k \in 1 .. Len(written') :
           written'[k].kind = "result" => written'[k].revision = InForce(k - 1)'
  PROVE  RevisionAnnounced'
BY DEF RevisionAnnounced, InForce, Negotiations, LastOf

\* A line that is no negotiation leaves the revision; a negotiation's line is the new one;
\* a result's line is in the one in force.
LEMMA WriteAnnounces ==
  ASSUME TypeOK, Announces, NEW m \in 1 .. Len(tasks), NEW kind, NEW rev,
         WriteLine(m, kind, rev), reading' = reading,
         kind = "negotiated" => revision' = rev,
         kind # "negotiated" => revision' = revision,
         kind = "result" => rev = revision
  PROVE  Announces'
<1>1. PICK n \in Nat : n = Len(written)  BY DEF TypeOK
<1>2. \A k \in 1 .. n : written'[k] = written[k]  BY <1>1, Wrote
<1>3. \A k \in 0 .. n : InForce(k)' = InForce(k)  BY <1>1, <1>2, InForceStays
<1>4. \A k \in 1 .. n : written'[k].kind = "result" => written'[k].revision = InForce(k - 1)'
  <2>1. \A k \in 1 .. n : written[k].kind = "result" => written[k].revision = InForce(k - 1)
    BY <1>1, AnnouncedIs DEF Announces
  <2>2. \A k \in 1 .. n : k - 1 \in 0 .. n  BY <1>1
  <2>. QED  BY <1>2, <1>3, <2>1, <2>2
<1>5. CASE ~reading
  <2>1. written' = written  BY <1>5, Wrote
  <2>2. RevisionAnnounced'  BY <1>1, <1>4, <2>1, AnnouncedNext
  <2>. QED  BY <1>5, <2>2 DEF Announces
<1>6. CASE reading
  <2>1. /\ Len(written') = n + 1
        /\ written'[n + 1] = [task |-> m, kind |-> kind, revision |-> rev]
    BY <1>1, <1>6, Wrote
  <2>2. InForce(n) = revision  BY <1>1, <1>6 DEF Announces
  <2>3. kind = "result" => rev = InForce(n)'  BY <1>1, <1>3, <2>2
  <2>4. \A k \in 1 .. n + 1 : written'[k].kind = "result" => written'[k].revision = InForce(k - 1)'
    <3>1. \A k \in 1 .. n + 1 : k \in 1 .. n \/ (k = n + 1 /\ k - 1 = n)  BY <1>1
    <3>. QED  BY <1>4, <2>1, <2>3, <3>1
  <2>5. RevisionAnnounced'  BY <2>1, <2>4, AnnouncedNext
  <2>6. InForce(n + 1)' = revision'
    <3>1. CASE kind = "negotiated"
      <4>1. n + 1 \in Negotiations(n + 1)'  BY <1>1, <2>1, <3>1 DEF Negotiations
      <4>2. Negotiations(n + 1)' \in SUBSET (0 .. n + 1)  BY <1>1 DEF Negotiations
      <4>3. ASSUME NEW S, n + 1 \in S, S \in SUBSET (0 .. n + 1) PROVE LastOf(S) = n + 1
        <5>1. n + 1 \in Nat /\ S # {}  BY <1>1, <4>3
        <5>2. LastOf(S) \in S /\ \A i \in S : i <= LastOf(S)  BY <4>3, <5>1, HasLast
        <5>3. LastOf(S) \in 0 .. n + 1 /\ n + 1 <= LastOf(S)  BY <4>3, <5>2
        <5>. QED  BY <1>1, <5>3
      <4>4. LastOf(Negotiations(n + 1)') = n + 1  BY <4>1, <4>2, <4>3
      <4>5. LastOf(Negotiations(n + 1))' = n + 1  BY <4>4 DEF LastOf
      <4>. QED  BY <2>1, <3>1, <4>1, <4>5 DEF InForce
    <3>2. CASE kind # "negotiated"
      <4>1. Negotiations(n + 1)' = Negotiations(n)'
        <5>1. \A j \in 1 .. n + 1 : written'[j].kind = "negotiated" => j \in 1 .. n
          BY <1>1, <2>1, <3>2
        <5>2. \A j \in 1 .. n : j \in 1 .. n + 1  BY <1>1
        <5>. QED  BY <5>1, <5>2 DEF Negotiations
      <4>2. LastOf(Negotiations(n + 1))' = LastOf(Negotiations(n))'  BY <4>1 DEF LastOf
      <4>3. InForce(n + 1)' = InForce(n)'  BY <4>1, <4>2 DEF InForce
      <4>4. InForce(n)' = InForce(n)  BY <1>1, <1>3
      <4>. QED  BY <2>2, <3>2, <4>3, <4>4
    <3>. QED  BY <3>1, <3>2
  <2>7. reading' => revision' = InForce(Len(written))'
    <3>1. \A S : (S = n + 1) => InForce(S)' = InForce(n + 1)'  OBVIOUS
    <3>. QED  BY <2>1, <2>6 DEF InForce, Negotiations
  <2>. QED  BY <2>5, <2>7 DEF Announces
<1>. QED  BY <1>5, <1>6

\* Nothing is written, no revision fixed.
LEMMA SameRevision ==
  ASSUME Announces, UNCHANGED <<written, revision>>, reading' => reading
  PROVE  Announces'
<1>1. written' = written /\ revision' = revision  OBVIOUS
<1>2. RevisionAnnounced' = RevisionAnnounced  BY <1>1 DEF RevisionAnnounced
<1>3. InForce(Len(written))' = InForce(Len(written))  BY <1>1 DEF InForce, Negotiations
<1>. QED  BY <1>1, <1>2, <1>3 DEF Announces

\* Every step keeps what was announced in force.
LEMMA AnnouncesStep ==
  ASSUME TypeOK, Announces, Next
  PROVE  Announces'
<1>. USE DEF clientVars, loopVars
<1>1. ASSUME UNCHANGED <<written, revision>>, reading' => reading PROVE Announces'
  BY <1>1, SameRevision
<1>2. ASSUME Read \/ ReadFails \/ Join \/ Exit PROVE Announces'
  BY <1>1, <1>2 DEF Read, ReadPart, ReadLine, ReadTooLarge, ReadEnd, TakeSignal, ReadFails,
                    Join, Exit
<1>3. ASSUME (\E b \in Bodies : Send(b)) \/ Close \/ Signal \/ Take \/ StopReading \/ Finished
      PROVE  Announces'
  BY <1>1, <1>3 DEF Send, Close, Signal, Take, StopReading, Finished, vars
<1>4. ASSUME NEW m \in 1 .. Len(tasks), AnswerAtOnce(m) PROVE Announces'
  BY <1>4, WriteAnnounces DEF AnswerAtOnce
<1>5. ASSUME NEW m \in 1 .. Len(tasks), AcceptNotification(m) PROVE Announces'
  BY <1>1, <1>5 DEF AcceptNotification
<1>6. ASSUME NEW m \in 1 .. Len(tasks), Negotiate(m) PROVE Announces'
  BY <1>6, WriteAnnounces DEF Negotiate
<1>7. ASSUME NEW m \in 1 .. Len(tasks), StartCall(m) PROVE Announces'
  BY <1>1, <1>7, WriteAnnounces DEF StartCall
<1>8. ASSUME NEW m \in 1 .. Len(tasks), End(m) PROVE Announces'
  BY <1>1, <1>8, WriteAnnounces DEF End, EndCall, CallPanics
<1>. QED  BY <1>2, <1>3, <1>4, <1>5, <1>6, <1>7, <1>8 DEF Next, Handle, End

-----------------------------------------------------------------------------
(* Lines and their places. *)

\* A line end is a byte that was read; there are finitely many, each with a number.
LEMMA Ends ==
  ASSUME TypeOK
  PROVE  /\ LineEnds \subseteq 1 .. pos /\ IsFiniteSet(LineEnds)
         /\ Cardinality(LineEnds) \in Nat
         /\ \A i \in LineEnds : Rank(i) \in 1 .. Cardinality(LineEnds)
<1>1. LineEnds \subseteq 1 .. pos /\ pos \in Nat  BY DEF LineEnds, TypeOK
<1>2. IsFiniteSet(LineEnds)
  <2>1. IsFiniteSet(1 .. pos)  BY <1>1, FS_Interval
  <2>. QED  BY <1>1, <2>1, FS_Subset
<1>3. Cardinality(LineEnds) \in Nat  BY <1>2, FS_CardinalityType
<1>4. ASSUME NEW i \in LineEnds PROVE Rank(i) \in 1 .. Cardinality(LineEnds)
  <2>. DEFINE S == {j \in LineEnds : j <= i}
  <2>1. S \subseteq LineEnds /\ i \in S  BY <1>1
  <2>2. IsFiniteSet(S) /\ Cardinality(S) <= Cardinality(LineEnds)  BY <1>2, <2>1, FS_Subset
  <2>3. Cardinality(S) \in Nat /\ Cardinality(S) # 0
    BY <2>1, <2>2, FS_CardinalityType, FS_EmptySet
  <2>4. Cardinality(S) \in 1 .. Cardinality(LineEnds)  BY <1>3, <2>2, <2>3
  <2>. QED  BY <2>4 DEF Rank
<1>. QED  BY <1>1, <1>2, <1>3, <1>4

\* The text of a line begins after the line end before it.
LEMMA BodyIs ==
  ASSUME TypeOK, NEW i \in 1 .. pos + 1
  PROVE  /\ Body(i) = SubSeq(sent, Start(i) + 1, i - 1)
         /\ Start(i) \in 0 .. i - 1
         /\ Body(i) \in Seq(Byte) /\ Len(Body(i)) = i - 1 - Start(i)
<1>1. pos \in Nat /\ i \in Nat /\ i - 1 \in Nat /\ i - 1 <= Len(sent) /\ Len(sent) \in Nat
      /\ sent \in Seq(Byte)
  BY DEF TypeOK
<1>2. Body(i) = SubSeq(sent, Start(i) + 1, i - 1)  BY DEF Body, Start, LastOf
<1>3. Start(i) \in 0 .. i - 1
  <2>. DEFINE S == {j \in LineEnds : j < i} \cup {0}
  <2>1. S \in SUBSET (0 .. i - 1) /\ S # {}  BY <1>1, Ends
  <2>2. LastOf(S) \in S  BY <1>1, <2>1, HasLast
  <2>. QED  BY <2>1, <2>2 DEF Start
<1>4. Start(i) + 1 \in Int /\ i - 1 \in Int
      /\ \A k \in Start(i) + 1 .. i - 1 : sent[k] \in Byte
  BY <1>1, <1>3
<1>5. /\ SubSeq(sent, Start(i) + 1, i - 1) \in Seq(Byte)
      /\ Len(SubSeq(sent, Start(i) + 1, i - 1)) =
           IF Start(i) + 1 <= i - 1 THEN i - 1 - (Start(i) + 1) + 1 ELSE 0
  BY <1>4, SubSeqProperties
<1>. QED  BY <1>1, <1>2, <1>3, <1>5

\* Text is that of the bytes it is made of and of the line end before it.
LEMMA SameBody ==
  ASSUME TypeOK, TypeOK', NEW i \in 1 .. pos + 1, i - 1 <= pos',
         {j \in LineEnds : j < i}' = {j \in LineEnds : j < i},
         \A k \in 1 .. pos : sent'[k] = sent[k]
  PROVE  Body(i)' = Body(i)
<1>1. Start(i)' = Start(i)
  <2>1. (({j \in LineEnds : j < i} \cup {0})') = {j \in LineEnds : j < i} \cup {0}  OBVIOUS
  <2>. QED  BY <2>1 DEF Start, LastOf
<1>2. /\ pos \in Nat /\ pos' \in Nat /\ i \in Nat /\ Start(i) \in Nat
      /\ Body(i) = SubSeq(sent, Start(i) + 1, i - 1)
  <2>1. pos \in Nat /\ pos' \in Nat  BY DEF TypeOK
  <2>2. Body(i) = SubSeq(sent, Start(i) + 1, i - 1) /\ Start(i) \in 0 .. i - 1  BY BodyIs
  <2>. QED  BY <2>1, <2>2
<1>3. Body(i)' = SubSeq(sent', Start(i) + 1, i - 1)  BY <1>1 DEF Body, Start, LastOf
<1>4. \A k \in Start(i) + 1 .. i - 1 : sent'[k] \in Byte /\ sent'[k] = sent[k] /\ sent[k] \in Byte
  <2>1. ASSUME NEW k \in Start(i) + 1 .. i - 1 PROVE k \in 1 .. pos /\ k \in 1 .. pos'
    <3>1. k \in Int /\ 1 <= k /\ k <= i - 1 /\ i <= pos + 1  BY <1>2
    <3>. QED  BY <1>2, <3>1
  <2>2. /\ pos <= Len(sent) /\ Len(sent) \in Nat /\ sent \in Seq(Byte)
        /\ pos' <= Len(sent') /\ Len(sent') \in Nat /\ sent' \in Seq(Byte)
    BY DEF TypeOK
  <2>3. \A k \in Start(i) + 1 .. i - 1 : k \in 1 .. Len(sent) /\ k \in 1 .. Len(sent')
    BY <1>2, <2>1, <2>2
  <2>4. \A k \in Start(i) + 1 .. i - 1 : sent[k] \in Byte /\ sent'[k] \in Byte
    BY <2>2, <2>3
  <2>. QED  BY <2>1, <2>4
<1>5. PICK a \in Int : a = Start(i) + 1  BY <1>2
<1>6. PICK b \in Int : b = i - 1  OBVIOUS
<1>7. /\ SubSeq(sent', a, b) \in Seq(Byte)
      /\ Len(SubSeq(sent', a, b)) = IF a <= b THEN b - a + 1 ELSE 0
      /\ \A k \in 1 .. b - a + 1 : SubSeq(sent', a, b)[k] = sent'[a + k - 1]
  BY <1>4, <1>5, <1>6, SubSeqProperties
<1>8. /\ SubSeq(sent, a, b) \in Seq(Byte)
      /\ Len(SubSeq(sent, a, b)) = IF a <= b THEN b - a + 1 ELSE 0
      /\ \A k \in 1 .. b - a + 1 : SubSeq(sent, a, b)[k] = sent[a + k - 1]
  BY <1>4, <1>5, <1>6, SubSeqProperties
<1>9. \A k \in 1 .. Len(SubSeq(sent', a, b)) : SubSeq(sent', a, b)[k] = SubSeq(sent, a, b)[k]
  <2>1. \A k \in 1 .. b - a + 1 : a + k - 1 \in a .. b  OBVIOUS
  <2>2. \A k \in 1 .. b - a + 1 : sent'[a + k - 1] = sent[a + k - 1]
    BY <1>4, <1>5, <1>6, <2>1
  <2>. QED  BY <1>7, <1>8, <2>2
<1>10. SubSeq(sent', a, b) = SubSeq(sent, a, b)  BY <1>7, <1>8, <1>9, SeqEqual
<1>. QED  BY <1>2, <1>3, <1>5, <1>6, <1>10

\* A chunk adds at most its last byte to the line ends.
LEMMA ChunkEnds ==
  ASSUME TypeOK, NEW n \in 1 .. Len(sent) - pos, IsChunk(n), sent' = sent, pos' = pos + n
  PROVE  /\ Chunk(n)[n] = LF => LineEnds' = LineEnds \cup {pos + n}
         /\ Chunk(n)[n] # LF => LineEnds' = LineEnds
<1>1. pos \in Nat /\ n \in Nat  BY DEF TypeOK
<1>2. \A i \in 1 .. n : Chunk(n)[i] = sent[pos + i]  BY ChunkType
<1>3. \A i \in 1 .. pos + n : i \in 1 .. pos \/ (i - pos \in 1 .. n /\ i = pos + (i - pos))
  BY <1>1
<1>4. \A i \in 1 .. n : i \in 1 .. n - 1 \/ i = n  BY <1>1
<1>5. ASSUME NEW i \in 1 .. pos + n, i \notin 1 .. pos, sent[i] = LF
      PROVE  i = pos + n /\ Chunk(n)[n] = LF
  <2>1. PICK d \in 1 .. n : i = pos + d  BY <1>3, <1>5
  <2>2. Chunk(n)[d] = LF  BY <1>2, <1>5, <2>1
  <2>3. d = n  BY <1>4, <2>2 DEF IsChunk
  <2>. QED  BY <2>1, <2>2, <2>3
<1>6. pos + n \in 1 .. pos + n /\ sent[pos + n] = Chunk(n)[n] /\ n \in 1 .. n  BY <1>1, <1>2
<1>7. \A i \in 1 .. pos : i \in 1 .. pos + n  BY <1>1
<1>8. LineEnds = {i \in 1 .. pos : sent[i] = LF} /\ LineEnds' = {i \in 1 .. pos + n : sent[i] = LF}
  BY DEF LineEnds
<1>. QED  BY <1>5, <1>6, <1>7, <1>8
\* The text up to a place within a chunk without a line end before it: the rest of the
\* stream so far, and the part of the chunk.
LEMMA Rest ==
  ASSUME TypeOK, TypeOK', NEW n \in 1 .. Len(sent) - pos, sent' = sent, pos' = pos + n,
         NEW c \in 0 .. n, NEW q, q = pos + c + 1, {j \in LineEnds : j < q}' = LineEnds
  PROVE  Body(q)' = Body(pos + 1) \o SubSeq(Chunk(n), 1, c)
<1>1. /\ pos \in Nat /\ n \in Nat /\ c \in Nat /\ pos + 1 \in 1 .. pos + 1 /\ Len(sent) \in Nat
      /\ sent \in Seq(Byte) /\ pos + n <= Len(sent) /\ q - 1 = pos + c
  BY DEF TypeOK
<1>2. PICK s \in 0 .. pos : s = Start(pos + 1)
  <2>1. Start(pos + 1) \in 0 .. (pos + 1) - 1  BY <1>1, BodyIs
  <2>. QED  BY <1>1, <2>1
<1>3. Body(pos + 1) = SubSeq(sent, s + 1, pos)
  <2>1. Body(pos + 1) = SubSeq(sent, Start(pos + 1) + 1, (pos + 1) - 1)  BY <1>1, BodyIs
  <2>. QED  BY <1>1, <1>2, <2>1
<1>4. Start(q)' = s
  <2>1. {j \in LineEnds : j < pos + 1} = LineEnds  BY <1>1, Ends
  <2>. QED  BY <1>2, <2>1 DEF Start, LastOf
<1>5. Body(q)' = SubSeq(sent, s + 1, pos + c)
  <2>1. Body(q)' = SubSeq(sent', Start(q)' + 1, q - 1)  BY DEF Body, Start, LastOf
  <2>. QED  BY <1>1, <1>4, <2>1
<1>6. SubSeq(Chunk(n), 1, c) = SubSeq(sent, pos + 1, pos + c)
  <2>1. CASE c = 0
    <3>1. 0 < 1 /\ pos + 0 < pos + 1 /\ pos + 0 \in Int /\ pos + 1 \in Int  BY <1>1
    <3>2. SubSeq(Chunk(n), 1, 0) = <<>> /\ SubSeq(sent, pos + 1, pos + 0) = <<>>
      BY <3>1, SubSeqEmpty
    <3>. QED  BY <2>1, <3>2
  <2>2. CASE c # 0
    <3>1. /\ pos + 1 \in 1 .. Len(sent) /\ pos + n \in 1 .. Len(sent)
          /\ 1 \in 1 .. (pos + n) - (pos + 1) + 1 /\ c \in 1 .. (pos + n) - (pos + 1) + 1
      BY <1>1, <2>2
    <3>2. SubSeq(SubSeq(sent, pos + 1, pos + n), 1, c)
            = SubSeq(sent, (pos + 1) + 1 - 1, (pos + 1) + c - 1)
      BY <1>1, <3>1, SubSeqOfSubSeq
    <3>3. (pos + 1) + 1 - 1 = pos + 1 /\ (pos + 1) + c - 1 = pos + c  BY <1>1
    <3>. QED  BY <3>2, <3>3 DEF Chunk
  <2>. QED  BY <2>1, <2>2
<1>7. SubSeq(sent, s + 1, pos) \o SubSeq(sent, pos + 1, pos + c) = SubSeq(sent, s + 1, pos + c)
  <2>1. /\ s + 1 \in 1 .. Len(sent) + 1 /\ pos \in (s + 1) - 1 .. Len(sent)
        /\ pos + c \in pos .. Len(sent)
    BY <1>1
  <2>. QED  BY <1>1, <2>1, ConcatAdjacentSubSeq
<1>. QED  BY <1>3, <1>5, <1>6, <1>7

\* A last place is that of the places before the next.
LEMMA LastPlace ==
  ASSUME NEW e \in Nat, NEW L, L \subseteq 1 .. e, e \in L
  PROVE  LastOf({j \in L : j < e + 1} \cup {0}) = e
<1>1. PICK S : S = {j \in L : j < e + 1} \cup {0}  OBVIOUS
<1>2. e \in S /\ S \in SUBSET (0 .. e) /\ S # {}
  <2>1. e < e + 1 /\ 0 \in 0 .. e /\ \A j \in 1 .. e : j \in 0 .. e  OBVIOUS
  <2>2. e \in S  BY <1>1, <2>1
  <2>3. \A j \in S : j \in L \/ j = 0  BY <1>1
  <2>4. \A j \in S : j \in 0 .. e  BY <2>1, <2>3
  <2>. QED  BY <2>2, <2>4
<1>3. LastOf(S) \in S /\ \A i \in S : i <= LastOf(S)  BY <1>2, HasLast
<1>. QED  BY <1>1, <1>2, <1>3

\* A place after p is before no place up to p.
LEMMA Before ==
  ASSUME NEW p \in Nat, NEW i \in 1 .. p + 1, NEW j \in Nat, j > p
  PROVE  ~(j < i) /\ (i \in 1 .. p => ~(j <= i))
OBVIOUS

\* After a line end the text begins anew.
LEMMA Anew ==
  ASSUME TypeOK', NEW e \in LineEnds', e = pos'
  PROVE  Body(pos + 1)' = <<>>
<1>1. e \in Nat /\ LineEnds' \subseteq 1 .. e
  <2>1. pos' \in Nat  BY DEF TypeOK
  <2>2. LineEnds' \subseteq 1 .. pos'  BY DEF LineEnds
  <2>. QED  BY <2>1, <2>2, Zenon
<1>2. LastOf({j \in LineEnds' : j < e + 1} \cup {0}) = e  BY <1>1, LastPlace, Zenon
<1>3. Body(pos + 1)' = SubSeq(sent', e + 1, (e + 1) - 1)
  BY <1>2, Zenon DEF Body, LastOf
<1>4. e + 1 \in Int /\ (e + 1) - 1 \in Int /\ (e + 1) - 1 < e + 1
  <2>1. \A d \in Nat : d + 1 \in Int /\ (d + 1) - 1 \in Int /\ (d + 1) - 1 < d + 1  OBVIOUS
  <2>. QED  BY <1>1, <2>1, Zenon
<1>5. SubSeq(sent', e + 1, (e + 1) - 1) = <<>>  BY <1>4, SubSeqEmpty, Zenon
<1>. QED  BY <1>3, <1>5, Zenon

\* What was read before a step has its lines and their numbers after it.
LEMMA Kept ==
  ASSUME TypeOK, TypeOK', pos <= pos', LineEnds \subseteq LineEnds',
         \A j \in LineEnds' : j \in LineEnds \/ j > pos,
         \A k \in 1 .. pos : sent'[k] = sent[k]
  PROVE  /\ \A i \in 1 .. pos + 1 : Body(i)' = Body(i) /\ Expected(i)' = Expected(i)
         /\ \A i \in LineEnds : i \in 1 .. pos + 1 /\ Rank(i)' = Rank(i)
<1>1. pos \in Nat /\ LineEnds \subseteq 1 .. pos /\ pos' \in Nat
  BY Ends DEF TypeOK
<1>2. \A j \in LineEnds' : j \in LineEnds \/ (j \in Nat /\ j > pos)
  <2>1. \A j \in LineEnds' : j \in Nat  BY DEF LineEnds
  <2>. QED  BY <2>1
<1>3. /\ \A i \in 1 .. pos + 1 : {j \in LineEnds' : j < i} = {j \in LineEnds : j < i}
      /\ \A i \in LineEnds :
           {j \in LineEnds' : j <= i} = {j \in LineEnds : j <= i} /\ i \in 1 .. pos + 1
  <2>1. ASSUME NEW i \in 1 .. pos + 1 PROVE {j \in LineEnds' : j < i} = {j \in LineEnds : j < i}
    <3>1. \A j \in LineEnds' : j < i => j \in LineEnds  BY <1>1, <1>2, Before
    <3>. QED  BY <3>1, Zenon
  <2>2. ASSUME NEW i \in LineEnds
        PROVE  {j \in LineEnds' : j <= i} = {j \in LineEnds : j <= i} /\ i \in 1 .. pos + 1
    <3>1. i \in 1 .. pos /\ i \in 1 .. pos + 1  BY <1>1
    <3>2. \A j \in LineEnds' : j <= i => j \in LineEnds  BY <1>1, <1>2, <3>1, Before
    <3>. QED  BY <3>1, <3>2, Zenon
  <2>. QED  BY <2>1, <2>2, Zenon
<1>4. ASSUME NEW i \in 1 .. pos + 1 PROVE Body(i)' = Body(i) /\ Expected(i)' = Expected(i)
  <2>1. i - 1 <= pos'  BY <1>1
  <2>2. Body(i)' = Body(i)  BY <1>3, <2>1, SameBody
  <2>. QED  BY <2>2 DEF Expected
<1>5. ASSUME NEW i \in LineEnds PROVE i \in 1 .. pos + 1 /\ Rank(i)' = Rank(i)
  BY <1>3 DEF Rank
<1>. QED  BY <1>4, <1>5

\* A line end after all others has the next number.
LEMMA NewEnd ==
  ASSUME TypeOK, NEW e \in Nat, e > pos, LineEnds' = LineEnds \cup {e}
  PROVE  /\ Cardinality(LineEnds)' = Cardinality(LineEnds) + 1
         /\ Rank(e)' = Cardinality(LineEnds) + 1
<1>1. IsFiniteSet(LineEnds) /\ LineEnds \subseteq 1 .. pos /\ pos \in Nat  BY Ends DEF TypeOK
<1>2. e \notin LineEnds /\ \A j \in LineEnds : j <= e  BY <1>1
<1>3. Cardinality(LineEnds \cup {e}) = Cardinality(LineEnds) + 1  BY <1>1, <1>2, FS_AddElement
<1>4. {j \in LineEnds' : j <= e} = LineEnds \cup {e}
  <2>. PICK L : L = LineEnds'  OBVIOUS
  <2>1. L = LineEnds \cup {e} /\ e <= e  OBVIOUS
  <2>2. {j \in L : j <= e} = LineEnds \cup {e}  BY <1>2, <2>1
  <2>. QED  BY <2>2
<1>. QED  BY <1>3, <1>4 DEF Rank

-----------------------------------------------------------------------------
(* Framing. *)

\* While there is more to read, every message is a line and the rest is incomplete.
LEMMA InOrder ==
  ASSUME TypeOK, Framed, loop = "reading", NEW n \in 1 .. Len(sent) - pos
  PROVE  Len(requests) = Cardinality(LineEnds) /\ message = Body(pos + 1)
<1>1. pos # Len(sent)  BY DEF TypeOK
<1>. QED  BY <1>1 DEF Framed, Pending

\* No line ends: the lines stay in their places.
LEMMA SameLines ==
  ASSUME TypeOK, TypeOK', Framed, LineEnds' = LineEnds, pos <= pos',
         \A k \in 1 .. pos : sent'[k] = sent[k],
         \A m \in 1 .. Len(requests) : requests'[m] = requests[m]
  PROVE  Placed' /\ Cardinality(LineEnds)' = Cardinality(LineEnds)
<1>1. \A i \in LineEnds : Rank(i)' = Rank(i) /\ Expected(i)' = Expected(i)  BY Kept
<1>2. \A i \in LineEnds : Rank(i) \in 1 .. Len(requests)
  <2>1. Cardinality(LineEnds) \in Nat /\ \A i \in LineEnds : Rank(i) \in 1 .. Cardinality(LineEnds)
    BY Ends
  <2>2. Len(requests) \in {Cardinality(LineEnds), Cardinality(LineEnds) + 1}
    BY DEF Framed, Pending
  <2>. QED  BY <2>1, <2>2
<1>. QED  BY <1>1, <1>2 DEF Framed, Placed

\* What was sent is read up to the same byte, in the same messages: as before.
LEMMA Unread ==
  ASSUME TypeOK, TypeOK', Framed, pos' = pos, requests' = requests, message' = message,
         \A k \in 1 .. pos : sent'[k] = sent[k],
         loop' = "reading" => loop = "reading",
         ~closed \/ (sent' = sent /\ closed' = closed)
  PROVE  Framed'
<1>1. pos \in Nat /\ pos <= pos'  BY DEF TypeOK
<1>2. LineEnds' = LineEnds  BY DEF LineEnds
<1>3. Placed' /\ Cardinality(LineEnds)' = Cardinality(LineEnds)  BY <1>1, <1>2, SameLines
<1>4. pos + 1 \in 1 .. pos + 1  BY <1>1
<1>5. \A i \in 1 .. pos + 1 : Body(i)' = Body(i) /\ Expected(i)' = Expected(i)
  <2>1. LineEnds \subseteq LineEnds' /\ \A j \in LineEnds' : j \in LineEnds  BY <1>2
  <2>. QED  BY <1>1, <2>1, Kept
<1>6. PICK q : q = pos + 1 /\ Body(q)' = Body(q) /\ Expected(q)' = Expected(q)  BY <1>4, <1>5
<1>7. Body(pos + 1)' = Body(q)' /\ Expected(pos + 1)' = Expected(q)'
  <2>1. (pos + 1)' = q  BY <1>6
  <2>2. Body(pos + 1)' = Body(q)'  BY <2>1 DEF Body
  <2>. QED  BY <2>2 DEF Expected
<1>8. Body(pos + 1)' = Body(pos + 1) /\ Expected(pos + 1)' = Expected(pos + 1)  BY <1>6, <1>7
<1>9. Pending'  BY <1>3, <1>8 DEF Framed, Pending
<1>. QED  BY <1>3, <1>9 DEF Framed

\* A chunk within a line is part of the rest.
LEMMA PartRead ==
  ASSUME TypeOK, TypeOK', Framed, loop = "reading", NEW n \in 1 .. Len(sent) - pos,
         IsChunk(n), Chunk(n)[n] # LF, sent' = sent, pos' = pos + n,
         \A m \in 1 .. Len(requests) : requests'[m] = requests[m]
  PROVE  /\ Placed' /\ Cardinality(LineEnds)' = Len(requests)
         /\ Body(pos + 1)' = message \o Chunk(n)
<1>1. pos \in Nat /\ n \in Nat /\ pos <= pos'
  <2>1. pos \in Nat /\ n \in Nat /\ pos <= pos + n  BY DEF TypeOK
  <2>. QED  BY <2>1
<1>2. LineEnds' = LineEnds  BY ChunkEnds
<1>3. Len(requests) = Cardinality(LineEnds) /\ message = Body(pos + 1)  BY InOrder
<1>4. Placed' /\ Cardinality(LineEnds)' = Len(requests)  BY <1>1, <1>2, <1>3, SameLines
<1>5. PICK q : q = pos + n + 1  OBVIOUS
<1>6. {j \in LineEnds : j < q}' = LineEnds
  <2>1. \A j \in LineEnds : j < q  BY <1>1, <1>5, Ends
  <2>. QED  BY <1>2, <2>1
<1>7. Body(q)' = Body(pos + 1) \o SubSeq(Chunk(n), 1, n)
  <2>1. n \in 0 .. n  BY <1>1
  <2>. QED  BY <1>5, <1>6, <2>1, Rest
<1>8. SubSeq(Chunk(n), 1, n) = Chunk(n)  BY ChunkType, SubSeqFull
<1>9. Body(pos + 1)' = Body(q)'
  <2>1. (pos + 1)' = q  BY <1>1, <1>5
  <2>. QED  BY <2>1 DEF Body
<1>. QED  BY <1>3, <1>4, <1>7, <1>8, <1>9

\* The end of a line, and its message.
LEMMA LineRead ==
  ASSUME TypeOK, TypeOK', Framed, loop = "reading", NEW n \in 1 .. Len(sent) - pos,
         IsChunk(n), Chunk(n)[n] = LF, sent' = sent, pos' = pos + n, message' = <<>>,
         NEW r \in Seq(Byte), Spawn(r),
         NEW b, b = message \o SubSeq(Chunk(n), 1, n - 1),
         r = IF Len(b) > RequestBytes THEN TooLarge ELSE Strip(b)
  PROVE  Framed'
<1>1. pos \in Nat /\ n \in Nat /\ pos <= pos' /\ n - 1 \in 0 .. n
  <2>1. pos \in Nat /\ n \in Nat /\ pos <= pos + n /\ n - 1 \in 0 .. n  BY DEF TypeOK
  <2>. QED  BY <2>1
<1>2. PICK e \in Nat : e = pos + n /\ e > pos /\ e = pos + (n - 1) + 1  BY <1>1
<1>3. LineEnds' = LineEnds \cup {e}  BY <1>2, ChunkEnds
<1>4. Len(requests) = Cardinality(LineEnds) /\ message = Body(pos + 1)  BY InOrder
<1>5. /\ Len(requests') = Len(requests) + 1 /\ requests'[Len(requests) + 1] = r
      /\ \A m \in 1 .. Len(requests) : requests'[m] = requests[m]
  BY SpawnType
<1>6. /\ Cardinality(LineEnds)' = Len(requests) + 1
      /\ Rank(e)' = Len(requests) + 1
  BY <1>2, <1>3, <1>4, NewEnd
<1>7. \A i \in LineEnds : Rank(i)' = Rank(i) /\ Expected(i)' = Expected(i)
  <2>1. LineEnds \subseteq LineEnds' /\ \A j \in LineEnds' : j \in LineEnds \/ j > pos
    BY <1>2, <1>3
  <2>. QED  BY <1>1, <2>1, Kept
<1>8. Expected(e)' = r
  <2>1. {j \in LineEnds : j < e}' = LineEnds
    <3>1. \A j \in LineEnds : j < e  BY <1>1, <1>2, Ends
    <3>2. ~(e < e)  BY <1>2
    <3>. QED  BY <1>3, <3>1, <3>2
  <2>2. Body(e)' = Body(pos + 1) \o SubSeq(Chunk(n), 1, n - 1)  BY <1>1, <1>2, <2>1, Rest
  <2>. QED  BY <1>4, <2>2 DEF Expected
<1>9. Placed'
  <2>1. Cardinality(LineEnds) \in Nat /\ \A i \in LineEnds : Rank(i) \in 1 .. Len(requests)
    BY <1>4, Ends
  <2>2. \A m \in 1 .. Cardinality(LineEnds)' : m \in 1 .. Len(requests) \/ m = Len(requests) + 1
    BY <1>4, <1>6, <2>1
  <2>3. \A m \in 1 .. Cardinality(LineEnds)' : \E i \in LineEnds' : Rank(i)' = m
    BY <1>3, <1>4, <1>6, <1>7, <2>2 DEF Framed, Placed
  <2>4. \A i \in LineEnds' : requests'[Rank(i)'] = Expected(i)'
    BY <1>3, <1>5, <1>6, <1>7, <1>8, <2>1 DEF Framed, Placed
  <2>. QED  BY <2>3, <2>4 DEF Placed
<1>10. Body(pos + 1)' = <<>>
  <2>1. e \in LineEnds' /\ e = pos'  BY <1>2, <1>3
  <2>. QED  BY <2>1, Anew
<1>11. Pending'  BY <1>5, <1>6, <1>10 DEF Pending
<1>. QED  BY <1>9, <1>11 DEF Framed

\* Every step keeps the messages in step with the lines.
LEMMA FramedStep ==
  ASSUME TypeOK, TypeOK', Framed, Next
  PROVE  Framed'
<1>. USE DEF clientVars, loopVars
<1>1. \A k \in 1 .. pos : sent[k] = sent[k]  OBVIOUS
<1>2. ASSUME NEW n \in 1 .. Len(sent) - pos, ReadPart(n) PROVE Framed'
  <2>1. /\ loop = "reading" /\ IsChunk(n) /\ Chunk(n)[n] # LF /\ sent' = sent /\ pos' = pos + n
        /\ requests' = requests /\ message' = message \o Chunk(n)
    BY <1>2 DEF ReadPart
  <2>2. /\ Placed' /\ Cardinality(LineEnds)' = Len(requests)
        /\ Body(pos + 1)' = message \o Chunk(n)
    BY <2>1, PartRead
  <2>3. Pending'  BY <2>1, <2>2 DEF Pending
  <2>. QED  BY <2>2, <2>3 DEF Framed
<1>3. ASSUME NEW n \in 1 .. Len(sent) - pos, ReadLine(n) PROVE Framed'
  <2>1. PICK b : b = message \o SubSeq(Chunk(n), 1, n - 1)  OBVIOUS
  <2>2. /\ loop = "reading" /\ IsChunk(n) /\ Chunk(n)[n] = LF /\ sent' = sent /\ pos' = pos + n
        /\ Len(message) + n - 1 <= RequestBytes /\ Spawn(Strip(b)) /\ message' = <<>>
    BY <1>3, <2>1 DEF ReadLine
  <2>3. b \in Seq(Byte) /\ Strip(b) \in Seq(Byte)  BY <2>1, ReadType, StripType
  <2>4. ~(Len(b) > RequestBytes)
    <3>1. Len(b) = Len(message) + (n - 1)
      <4>1. message \in Seq(Byte)  BY DEF TypeOK
      <4>. QED  BY <2>1, <4>1, ReadType, ConcatProperties
    <3>. QED  BY <2>2, <3>1, ServeAssumption DEF TypeOK
  <2>. QED  BY <2>1, <2>2, <2>3, <2>4, LineRead
<1>4. ASSUME NEW n \in 1 .. Len(sent) - pos, ReadTooLarge(n) PROVE Framed'
  <2>1. /\ loop = "reading" /\ IsChunk(n) /\ sent' = sent /\ pos' = pos + n
        /\ Len(message) + (IF Chunk(n)[n] = LF THEN n - 1 ELSE n) > RequestBytes
        /\ Spawn(TooLarge) /\ message' = <<>> /\ loop' = "joining"
    BY <1>4 DEF ReadTooLarge, Break
  <2>2. TooLarge \in Seq(Byte) /\ message \in Seq(Byte)  BY DEF TooLarge, Byte, TypeOK
  <2>3. CASE Chunk(n)[n] = LF
    <3>1. PICK b : b = message \o SubSeq(Chunk(n), 1, n - 1)  OBVIOUS
    <3>2. Len(b) = Len(message) + (n - 1)  BY <2>2, <3>1, ReadType, ConcatProperties
    <3>3. Len(b) > RequestBytes  BY <2>1, <2>3, <3>2
    <3>. QED  BY <2>1, <2>2, <2>3, <3>1, <3>3, LineRead
  <2>4. CASE Chunk(n)[n] # LF
    <3>1. /\ Len(requests') = Len(requests) + 1 /\ requests'[Len(requests) + 1] = TooLarge
          /\ \A m \in 1 .. Len(requests) : requests'[m] = requests[m]
      BY <2>1, <2>2, SpawnType
    <3>2. /\ Placed' /\ Cardinality(LineEnds)' = Len(requests)
          /\ Body(pos + 1)' = message \o Chunk(n)
      BY <2>1, <2>4, <3>1, PartRead
    <3>3. Expected(pos + 1)' = TooLarge
      <4>1. Len(message \o Chunk(n)) > RequestBytes  BY <2>1, <2>4, ReadType
      <4>. QED  BY <3>2, <4>1 DEF Expected
    <3>4. Pending'  BY <2>1, <3>1, <3>2, <3>3 DEF Pending
    <3>. QED  BY <3>2, <3>4 DEF Framed
  <2>. QED  BY <2>3, <2>4
<1>5. ASSUME ReadEnd PROVE Framed'
  <2>1. /\ loop = "reading" /\ closed /\ pos = Len(sent) /\ sent' = sent /\ pos' = pos
        /\ closed' = closed
    BY <1>5 DEF ReadEnd
  <2>2. CASE message = <<>>
    <3>1. message' = message /\ requests' = requests /\ loop' = "joining"
      BY <1>5, <2>2 DEF ReadEnd, Break
    <3>. QED  BY <1>1, <2>1, <3>1, Unread
  <2>3. CASE message # <<>>
    <3>1. Spawn(Strip(message)) /\ message' = <<>>  BY <1>5, <2>3 DEF ReadEnd
    <3>2. Strip(message) \in Seq(Byte)  BY StripType DEF TypeOK
    <3>3. /\ Len(requests') = Len(requests) + 1 /\ requests'[Len(requests) + 1] = Strip(message)
          /\ \A m \in 1 .. Len(requests) : requests'[m] = requests[m]
      BY <3>1, <3>2, SpawnType
    <3>4. Len(requests) = Cardinality(LineEnds) /\ message = Body(pos + 1)
      BY <2>1, <2>3 DEF Framed, Pending
    <3>5. pos <= pos' /\ LineEnds' = LineEnds  BY <2>1 DEF TypeOK, LineEnds
    <3>6. Placed' /\ Cardinality(LineEnds)' = Len(requests)
      BY <1>1, <2>1, <3>3, <3>4, <3>5, SameLines
    <3>7. Expected(pos + 1)' = Strip(message)
      <4>1. Body(pos + 1)' = message  BY <2>1, <3>4 DEF Body, LineEnds
      <4>2. ~(Len(message) > RequestBytes)  BY ServeAssumption DEF TypeOK
      <4>. QED  BY <4>1, <4>2 DEF Expected
    <3>8. closed' /\ pos' = Len(sent')  BY <2>1
    <3>9. Pending'  BY <3>1, <3>3, <3>6, <3>7, <3>8 DEF Pending
    <3>. QED  BY <3>6, <3>9 DEF Framed
  <2>. QED  BY <2>2, <2>3
<1>6. ASSUME UNCHANGED <<sent, closed, pos, requests, message>>,
             loop' = "reading" => loop = "reading"
      PROVE  Framed'
  BY <1>1, <1>6, Unread
<1>7. ASSUME TakeSignal \/ ReadFails \/ Join \/ Exit PROVE Framed'
  BY <1>6, <1>7 DEF TakeSignal, ReadFails, Break, Join, Exit
<1>8. ASSUME NEW m \in 1 .. Len(tasks),
             \/ AnswerAtOnce(m) \/ AcceptNotification(m) \/ Negotiate(m) \/ StartCall(m)
             \/ End(m)
      PROVE  Framed'
  BY <1>6, <1>8 DEF AnswerAtOnce, AcceptNotification, Negotiate, StartCall, End, EndCall,
                    CallPanics
<1>9. ASSUME NEW t \in Seq(Byte), sent' = sent \o t, ~closed,
             UNCHANGED <<pos, requests, message, loop>>
      PROVE  Framed'
  <2>1. \A k \in 1 .. pos : sent'[k] = sent[k]
    <3>1. \A k \in 1 .. pos : k \in 1 .. Len(sent)  BY DEF TypeOK
    <3>2. \A k \in 1 .. Len(sent) : (sent \o t)[k] = sent[k]
      BY ConcatProperties DEF TypeOK
    <3>. QED  BY <1>9, <3>1, <3>2
  <2>. QED  BY <1>9, <2>1, Unread
<1>10. ASSUME NEW b \in Bodies, Send(b) PROVE Framed'
  <2>1. b \in Seq(Byte) /\ <<LF>> \in Seq(Byte)  BY ServeAssumption DEF Byte
  <2>2. sent \in Seq(Byte)  BY DEF TypeOK
  <2>3. b \o <<LF>> \in Seq(Byte)  BY <2>1, ConcatProperties
  <2>4. (sent \o b) \o <<LF>> = sent \o (b \o <<LF>>)  BY <2>1, <2>2, ConcatAssociative
  <2>. QED  BY <1>9, <1>10, <2>3, <2>4 DEF Send
<1>11. ASSUME Close PROVE Framed'
  <2>1. PICK b \in Bodies \cup {<<>>} : sent' = sent \o b  BY <1>11 DEF Close
  <2>2. b \in Seq(Byte)
    <3>1. <<>> \in Seq(Byte)  OBVIOUS
    <3>. QED  BY <2>1, <3>1, ServeAssumption
  <2>. QED  BY <1>9, <1>11, <2>1, <2>2 DEF Close
<1>12. ASSUME Signal \/ Take \/ StopReading \/ Finished PROVE Framed'
  BY <1>6, <1>12 DEF Signal, Take, StopReading, Finished, vars
<1>. QED  BY <1>2, <1>3, <1>4, <1>5, <1>7, <1>8, <1>10, <1>11, <1>12 DEF Next, Read, Handle

-----------------------------------------------------------------------------
(* The theorems. *)

\* At the start nothing was read, nothing written.
LEMMA InitInv ==
  Init => IInv
<1>. SUFFICES ASSUME Init PROVE IInv
  OBVIOUS
<1>. USE ServeAssumption DEF Init
<1>1. TypeOK
  <2>1. sent \in Seq(Byte) /\ message \in Seq(Byte) /\ requests \in Seq(Seq(Byte))
        /\ written \in Seq(Line)
    OBVIOUS
  <2>2. tasks \in Seq(TaskStates)  OBVIOUS
  <2>3. /\ Len(sent) = 0 /\ Len(message) = 0 /\ Len(requests) = 0 /\ Len(tasks) = 0
        /\ Len(written) = 0 /\ 0 <= MaxBytes /\ 0 <= RequestBytes /\ 0 \in 0 .. 0
    OBVIOUS
  <2>4. taken \in 0 .. Len(written) /\ pos \in 0 .. Len(sent) /\ joined \in 0 .. Len(tasks)
    BY <2>3
  <2>. QED  BY <2>1, <2>2, <2>3, <2>4 DEF TypeOK
<1>2. Answers  BY DEF Answers
<1>3. Announces
  <2>1. Len(written) = 0 /\ 1 .. 0 = {}  OBVIOUS
  <2>2. Negotiations(0) = {}  BY <2>1 DEF Negotiations
  <2>. QED  BY <2>1, <2>2 DEF Announces, RevisionAnnounced, InForce
<1>4. Framed
  <2>1. LineEnds = {} /\ Cardinality(LineEnds) = 0
    <3>1. 1 .. 0 = {}  OBVIOUS
    <3>. QED  BY <3>1, FS_EmptySet DEF LineEnds
  <2>2. Body(pos + 1) = <<>>
    <3>1. pos + 1 \in 1 .. pos + 1 /\ pos + 1 = 1  OBVIOUS
    <3>2. Body(1) \in Seq(Byte) /\ Len(Body(1)) = 1 - 1 - Start(1) /\ Start(1) \in 0 .. 1 - 1
      <4>1. 1 \in 1 .. pos + 1  OBVIOUS
      <4>. QED  BY <1>1, <4>1, BodyIs
    <3>3. Len(Body(1)) = 0  BY <3>2
    <3>4. Body(1) = <<>>  BY <3>2, <3>3
    <3>. QED  BY <3>1, <3>4
  <2>3. Len(requests) = 0 /\ 1 .. 0 = {}  OBVIOUS
  <2>. QED  BY <2>1, <2>2, <2>3 DEF Framed, Placed, Pending
<1>. QED  BY <1>1, <1>2, <1>3, <1>4 DEF IInv

\* Every step keeps the invariant.
LEMMA StepInv ==
  IInv /\ [Next]_vars => IInv'
<1>. SUFFICES ASSUME IInv, [Next]_vars PROVE IInv'
  OBVIOUS
<1>. USE DEF IInv
<1>1. CASE Next
  <2>1. TypeOK'  BY <1>1, TypeStep DEF Answers
  <2>2. Answers'  BY <1>1, AnswersStep
  <2>3. Announces'  BY <1>1, AnnouncesStep
  <2>4. Framed'  BY <1>1, <2>1, FramedStep
  <2>. QED  BY <2>1, <2>2, <2>3, <2>4
<1>2. CASE UNCHANGED vars
  <2>1. TypeOK'  BY <1>2 DEF vars, clientVars, loopVars, TypeOK
  <2>2. Answers'  BY <1>2, SameAnswers DEF vars, clientVars, loopVars
  <2>3. Announces'
    <3>1. UNCHANGED <<written, revision>> /\ (reading' => reading)
      BY <1>2 DEF vars, clientVars
    <3>. QED  BY <3>1, SameRevision
  <2>4. Framed'
    <3>1. \A k \in 1 .. pos : sent[k] = sent[k]  OBVIOUS
    <3>. QED  BY <1>2, <2>1, <3>1, Unread DEF vars, clientVars, loopVars
  <2>. QED  BY <2>1, <2>2, <2>3, <2>4
<1>. QED  BY <1>1, <1>2

\* The invariant holds in every state of every behaviour.
THEOREM Invariance == Spec => []IInv
<1>1. Init => IInv  BY InitInv
<1>2. IInv /\ [Next]_vars => IInv'  BY StepInv
<1>. QED  BY <1>1, <1>2, PTL DEF Spec

\* The loop's counters stay within what was sent and spawned, and the incomplete message
\* of read_bounded_message within the limit, whatever the chunks.
THEOREM TypeCorrect == Spec => []TypeOK
<1>1. IInv => TypeOK  BY DEF IInv
<1>. QED  BY <1>1, Invariance, PTL

\* Each message a line carries is answered with one line at most. When the process exits,
\* one that wants an answer and has none is of a call that panicked, or the client is gone;
\* the loop that awaits the tasks has then made the broker fail.
THEOREM RequestsAnsweredOnce == Spec => []AnsweredOnce
<1>1. IInv => AnsweredOnce
  <2>. SUFFICES ASSUME IInv, NEW m \in 1 .. Len(requests)
                PROVE  LET answers == {k \in 1 .. Len(written) : written[k].task = m} IN
                       /\ Cardinality(answers) <= 1
                       /\ loop = "exited" /\ KindOf(m) # "notification" /\ answers = {} =>
                            failed /\ (tasks[m] = "panicked" \/ ~reading)
    BY DEF AnsweredOnce
  <2>. DEFINE answers == {k \in 1 .. Len(written) : written[k].task = m}
  <2>1. Cardinality(answers) <= 1
    <3>1. \A j, k \in answers : j = k  BY DEF IInv, Answers
    <3>2. CASE answers = {}
      <4>1. Cardinality(answers) = 0  BY <3>2, FS_EmptySet, Zenon
      <4>. QED  BY <4>1
    <3>3. CASE answers # {}
      <4>1. PICK k \in answers : TRUE  BY <3>3
      <4>2. answers = {k}  BY <3>1, <4>1
      <4>3. Cardinality(answers) = 1  BY <4>2, FS_Singleton, Zenon
      <4>. QED  BY <4>3
    <3>. QED  BY <3>2, <3>3
  <2>2. ASSUME loop = "exited", KindOf(m) # "notification", answers = {}
        PROVE  failed /\ (tasks[m] = "panicked" \/ ~reading)
    <3>1. m \in 1 .. joined /\ m \in 1 .. Len(tasks)  BY <2>2 DEF IInv, TypeOK, Answers
    <3>2. ~HasLine(m)  BY <2>2 DEF HasLine
    <3>3. tasks[m] # "done" /\ Ended(m) /\ failed  BY <2>2, <3>1, <3>2 DEF IInv, Answers
    <3>4. tasks[m] = "panicked" \/ ~reading  BY <3>1, <3>3 DEF IInv, Answers, Ended
    <3>. QED  BY <3>3, <3>4
  <2>. QED  BY <2>1, <2>2
<1>. QED  BY <1>1, Invariance, PTL

\* A call is answered in the revision of the last negotiation the client was answered.
THEOREM RevisionIsAnnounced == Spec => []RevisionAnnounced
<1>1. IInv => RevisionAnnounced  BY DEF IInv, Announces
<1>. QED  BY <1>1, Invariance, PTL

\* The messages are the lines of the stream in their order, however it was cut into
\* chunks; one beyond the limit is marked as such, and no other is.
THEOREM FramingIsExact == Spec => []FramingExact
<1>1. IInv => FramingExact
  <2>. SUFFICES ASSUME IInv, NEW n \in 1 .. Len(requests)
                PROVE  requests[n] = IF n > Cardinality(LineEnds) THEN Expected(pos + 1)
                                     ELSE Expected(NthEnd(n))
    BY DEF FramingExact, Expected
  <2>1. Cardinality(LineEnds) \in Nat  BY Ends DEF IInv
  <2>2. CASE n > Cardinality(LineEnds)
    <3>1. n = Cardinality(LineEnds) + 1 /\ requests[Cardinality(LineEnds) + 1] = Expected(pos + 1)
      BY <2>1, <2>2 DEF IInv, Framed, Pending
    <3>. QED  BY <2>2, <3>1
  <2>3. CASE ~(n > Cardinality(LineEnds))
    <3>1. n \in 1 .. Cardinality(LineEnds)  BY <2>1, <2>3
    <3>2. \E i \in LineEnds : Cardinality({j \in LineEnds : j <= i}) = n
      BY <3>1 DEF IInv, Framed, Placed, Rank
    <3>3. NthEnd(n) \in LineEnds /\ Cardinality({j \in LineEnds : j <= NthEnd(n)}) = n
      BY <3>2 DEF NthEnd
    <3>4. requests[n] = Expected(NthEnd(n))  BY <3>3 DEF IInv, Framed, Placed, Rank
    <3>. QED  BY <2>3, <3>4
  <2>. QED  BY <2>2, <2>3
<1>. QED  BY <1>1, Invariance, PTL
=============================================================================
