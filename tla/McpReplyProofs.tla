--------------------------- MODULE McpReplyProofs ---------------------------
(***************************************************************************)
(* What McpSession guarantees of requests and replies, for every number of  *)
(* callers, processes and pages and every behaviour of the upstream: a      *)
(* caller gets replies to its own requests, its call is sent once and after *)
(* the handshake, and a session that waits has no request unanswered.       *)
(* The invariant of McpSessionProofs says who holds the session; here it is *)
(* joined by                                                                *)
(*   Spawned  what has not been spawned has no messages                     *)
(*   Matched  ids of a process are not used twice, and a reply has the id   *)
(*            and the caller of a request                                   *)
(*   Sent     who has written a tool request, and to which process          *)
(*   Settled  a tool request on the ready process was answered, or is the   *)
(*            holder's own                                                  *)
(***************************************************************************)
EXTENDS McpSessionProofs

\* Processes are numbered as they are spawned.
Spawned ==
  /\ ready <= spawned /\ starting <= spawned /\ held <= spawned
  /\ \A p \in Proc : p > spawned => proc[p] = "unused" /\ asked[p] = {}

\* Ids grow; a message on the wire answers a request; the one waited for is the caller's.
IdsBelow(p, n) == n > 0 /\ \A r \in asked[p] : r.id < n
Replies(p) ==
  \A i \in 1 .. Len(wire[p]) : \E r \in asked[p] : r.id = wire[p][i].id /\ r.by = wire[p][i].by
Waiting(c) ==
  /\ pc[c] = "discover" => nextId = 2
  /\ pc[c] = "reply" => \A r \in asked[ready] : r.id = active => r.by = c
Matched ==
  /\ \A p \in Proc : p \in {ready, starting} => IdsBelow(p, nextId)
  /\ \A p \in Proc : Replies(p)
  /\ \A c \in Callers : Waiting(c)
  /\ OwnReply

\* A caller that has not come to send its request has none written; a list sends one for
\* each page.
Unsent(c) ==
  \/ pc[c] \in {"idle", "enter", "negotiate", "respawn", "discover", "initialize"}
  \/ pc[c] = "sending" /\ c \notin Listers
  \/ pc[c] = "reaping" /\ cont # "terminate"
Sent ==
  /\ \A c \in Callers : Unsent(c) => \A p \in Proc : ToolCalls(p, c) = {}
  /\ \A p \in Proc : p = ready => HandshakeDone(p)
  /\ \A p \in Proc : p = starting => \A r \in asked[p] : r.kind # "tool"
  /\ CallSentOnce

\* Whoever wrote to the ready process has its answer, or is still at it.
Settled ==
  /\ active # 0 => actor \in Callers /\ pc[actor] = "reply"
  /\ \A p \in Proc : p = ready =>
       \A r \in asked[p] : r.kind = "tool" => outcome[r.by] = "OK" \/ r.by = actor

RInv == IInv /\ Spawned /\ Matched /\ Sent /\ Settled

-----------------------------------------------------------------------------
(* Steps. *)

\* A step of the party at work moves nobody else, and nobody else is at work.
LEMMA OthersRest ==
  ASSUME TypeOK, SessionShape, NEW x \in Party, pc[x] \in Working, NEW q, Goto(x, q)
  PROVE  /\ pc'[x] = q /\ actor = x
         /\ \A y \in Party \ {x} : pc'[y] = pc[y] /\ pc[y] \notin Working
BY Alone DEF TypeOK, Goto

\* A request is written to one process.
LEMMA Wrote ==
  ASSUME TypeOK, NEW p \in Proc, NEW kind, NEW id, NEW c, Write(p, kind, id, c)
  PROVE  /\ asked'[p] = asked[p] \cup {[kind |-> kind, id |-> id, by |-> c]}
         /\ \A q \in Proc \ {p} : asked'[q] = asked[q]
BY DEF TypeOK, Write

-----------------------------------------------------------------------------
(* Processes that have not been spawned. *)

\* Every step keeps that a connection refers to a process that was spawned.
LEMMA SpawnedStep ==
  ASSUME TypeOK, SessionShape, Spawned, Next
  PROVE  Spawned'
<1>. USE DEF TypeOK, Spawned, brokerVars, callerVars, sessionVars, worldVars
<1>1. ASSUME UNCHANGED <<proc, asked, spawned>>,
             {ready', starting', held'} \subseteq {ready, starting, held, 0}
      PROVE  Spawned'
  <2>1. \A n \in {ready', starting', held'} : n <= spawned'  BY <1>1
  <2>. QED  BY <1>1, <2>1
<1>2. ASSUME NEW c \in Callers, Refuse(c) \/ Admit(c) \/ EnterLive(c) \/ EnterDead(c)
        \/ SpawnFails(c) \/ TooManyPages(c) \/ RequestReply(c) \/ CancelSend(c)
        \/ ReturnError(c) \/ Interrupt(c)
      PROVE  Spawned'
  BY <1>1, <1>2 DEF Refuse, Admit, EnterLive, EnterDead, BeginReap, SpawnFails, TooManyPages,
                    RequestReply, CancelSend, ReturnError, Interrupt
<1>3. ASSUME NEW c \in Callers, Spawn(c) PROVE Spawned'
  <2>0. /\ spawned < MaxProcs /\ spawned' = spawned + 1 /\ ready' = ready
        /\ proc' = [proc EXCEPT ![spawned + 1] = "up"]
        /\ \/ asked' = asked
           \/ Write(spawned + 1, IF pc[c] = "negotiate" THEN "discover" ELSE "initialize", 1, c)
    BY <1>3 DEF Spawn
  <2>1. /\ spawned + 1 \in Proc /\ spawned' = spawned + 1 /\ ready' = ready
        /\ \A p \in Proc \ {spawned + 1} : proc'[p] = proc[p] /\ asked'[p] = asked[p]
    <3>1. spawned + 1 \in Proc  BY <2>0, ConstantsAssumption DEF Proc
    <3>2. \A p \in Proc \ {spawned + 1} : proc'[p] = proc[p]  BY <2>0
    <3>3. \A p \in Proc \ {spawned + 1} : asked'[p] = asked[p]  BY <2>0, <3>1, Wrote
    <3>. QED  BY <2>0, <3>1, <3>2, <3>3
  <2>2. {starting', held'} \subseteq {starting, held, spawned + 1}
    BY <1>3 DEF Spawn, BeginReap
  <2>3. \A p \in Proc : p > spawned' => p # spawned + 1 /\ p > spawned
    BY <2>1 DEF Proc
  <2>4. ready' <= spawned' /\ starting' <= spawned' /\ held' <= spawned'  BY <2>1, <2>2
  <2>. QED  BY <2>1, <2>3, <2>4
<1>4. ASSUME NEW c \in Callers, DiscoverReply(c) \/ InitializeReply(c) PROVE Spawned'
  <2>1. starting \in Proc  BY <1>4 DEF DiscoverReply, InitializeReply, SessionShape, Owns,
                                       Party, Proc
  <2>2. /\ UNCHANGED <<proc, spawned>>
        /\ {ready', starting', held'} \subseteq {ready, starting, held, 0}
    BY <1>4 DEF DiscoverReply, LegacyInitialize, InitializeReply, BeginReap
  <2>3. \A p \in Proc \ {starting} : asked'[p] = asked[p]
    BY <1>4 DEF DiscoverReply, LegacyInitialize, InitializeReply, SendInitialized, Write
  <2>4. \A p \in Proc : p > spawned => p # starting  BY <2>1 DEF Proc
  <2>5. \A n \in {ready', starting', held'} : n <= spawned'  BY <2>2
  <2>. QED  BY <2>2, <2>3, <2>4, <2>5
<1>5. ASSUME NEW c \in Callers, SendRequest(c) PROVE Spawned'
  <2>1. /\ UNCHANGED <<ready, starting, held, proc, spawned>>
        /\ \A p \in Proc \ {ready} : asked'[p] = asked[p]
    BY <1>5 DEF SendRequest, Write
  <2>2. \A p \in Proc : p > spawned => p # ready  BY DEF Proc
  <2>. QED  BY <2>1, <2>2
<1>6. ASSUME NEW x \in Party, TakeNext(x) PROVE Spawned'
  BY <1>1, <1>6 DEF TakeNext
<1>7. ASSUME NEW x \in Party, Kill(x) PROVE Spawned'
  <2>1. /\ UNCHANGED <<ready, starting, spawned, asked>> /\ held' = 0
        /\ \A p \in Proc \ {held} : proc'[p] = proc[p]
    BY <1>7 DEF Kill
  <2>2. \A p \in Proc : p > spawned => p # held  BY DEF Proc
  <2>. QED  BY <2>1, <2>2
<1>8. ASSUME Cancel \/ Shutdown \/ Exit PROVE Spawned'
  BY <1>1, <1>8 DEF Cancel, Shutdown, Exit
<1>9. ASSUME NEW p \in Proc, Answer(p) \/ CloseStdout(p) \/ ReadStdin(p) PROVE Spawned'
  BY <1>1, <1>9 DEF Answer, CloseStdout, ReadStdin
<1>10. ASSUME NEW p \in Proc, ProcessExits(p) PROVE Spawned'
  <2>1. /\ UNCHANGED <<ready, starting, held, spawned, asked>> /\ proc[p] # "unused"
        /\ \A q \in Proc \ {p} : proc'[q] = proc[q]
    BY <1>10 DEF ProcessExits
  <2>. QED  BY <2>1
<1>. QED  BY <1>2, <1>3, <1>4, <1>5, <1>6, <1>7, <1>8, <1>9, <1>10 DEF Next, CallerNext, Upstream
-----------------------------------------------------------------------------
(* Requests, ids and replies. *)

\* Nothing that was written is taken back.
LEMMA AskedGrows ==
  ASSUME TypeOK, SessionShape, Next
  PROVE  \A p \in Proc : asked[p] \subseteq asked'[p]
<1>. USE DEF callerVars, brokerVars, sessionVars, worldVars
<1>1. ASSUME NEW p \in Proc, NEW kind, NEW id, NEW c, Write(p, kind, id, c)
      PROVE  \A q \in Proc : asked[q] \subseteq asked'[q]
  BY <1>1, Wrote
<1>2. ASSUME NEW c \in Callers, Spawn(c) PROVE \A q \in Proc : asked[q] \subseteq asked'[q]
  <2>1. spawned + 1 \in Proc  BY <1>2, ConstantsAssumption DEF Spawn, Proc, TypeOK
  <2>. QED  BY <1>1, <1>2, <2>1 DEF Spawn
<1>3. ASSUME NEW c \in Callers, DiscoverReply(c) \/ InitializeReply(c)
      PROVE  \A q \in Proc : asked[q] \subseteq asked'[q]
  <2>1. starting \in Proc  BY <1>3 DEF DiscoverReply, InitializeReply, SessionShape, Owns,
                                       Party, Proc, TypeOK
  <2>. QED  BY <1>1, <1>3, <2>1 DEF DiscoverReply, InitializeReply, LegacyInitialize,
                                    SendInitialized
<1>4. ASSUME NEW c \in Callers, SendRequest(c)
      PROVE  \A q \in Proc : asked[q] \subseteq asked'[q]
  <2>1. ready \in Proc  BY <1>4 DEF SendRequest, SessionShape, Owns, Party, Proc, TypeOK
  <2>. QED  BY <1>1, <1>4, <2>1 DEF SendRequest
<1>5. ASSUME NEW c \in Callers, Refuse(c) \/ Admit(c) \/ EnterLive(c) \/ EnterDead(c)
        \/ SpawnFails(c) \/ TooManyPages(c) \/ RequestReply(c) \/ CancelSend(c)
        \/ ReturnError(c) \/ Interrupt(c)
      PROVE  asked' = asked
  BY <1>5 DEF Refuse, Admit, EnterLive, EnterDead, SpawnFails, TooManyPages, RequestReply,
              CancelSend, ReturnError, Interrupt
<1>6. ASSUME NEW x \in Party, TakeNext(x) \/ Kill(x) PROVE asked' = asked
  BY <1>6 DEF TakeNext, Kill
<1>7. ASSUME Cancel \/ Shutdown \/ Exit PROVE asked' = asked
  BY <1>7 DEF Cancel, Shutdown, Exit
<1>8. ASSUME Upstream PROVE asked' = asked
  BY <1>8 DEF Upstream, Answer, ProcessExits, CloseStdout, ReadStdin
<1>. QED  BY <1>2, <1>3, <1>4, <1>5, <1>6, <1>7, <1>8 DEF Next, CallerNext

\* A process's unread messages are read in order, dropped, or joined by a reply.
Answered(p) ==
  \E r \in asked[p], b \in {"good", "more", "bad", "error"} :
    wire'[p] = Append(wire[p], [body |-> b, id |-> r.id, by |-> r.by])
Moves(p) ==
  \/ wire'[p] = wire[p]
  \/ wire[p] # <<>> /\ wire'[p] = Tail(wire[p])
  \/ wire'[p] = <<>>
  \/ Answered(p)

\* A step moves at most the wire of one process, in one of a few ways.
LEMMA WireMoves ==
  ASSUME TypeOK, SessionShape, Next
  PROVE  \A p \in Proc : Moves(p)
<1>. USE DEF callerVars, brokerVars, sessionVars, worldVars
<1>1. ASSUME NEW p, NEW id, NEW res, ReadEnds(p, id, res)
      PROVE  \A q \in Proc : Moves(q)
  BY <1>1 DEF ReadEnds, Moves, TypeOK
<1>2. ASSUME NEW p, DropPipes(p) PROVE \A q \in Proc : Moves(q)
  BY <1>2 DEF DropPipes, Moves, TypeOK
<1>3. ASSUME NEW c \in Callers, Refuse(c) \/ Admit(c) \/ EnterLive(c) \/ EnterDead(c)
        \/ SpawnFails(c) \/ Spawn(c) \/ SendRequest(c) \/ TooManyPages(c) \/ CancelSend(c)
        \/ ReturnError(c)
      PROVE  wire' = wire
  BY <1>3 DEF Refuse, Admit, EnterLive, EnterDead, SpawnFails, Spawn, SendRequest,
              TooManyPages, CancelSend, ReturnError
<1>4. ASSUME NEW c \in Callers, DiscoverReply(c) PROVE \A q \in Proc : Moves(q)
  BY <1>1, <1>4 DEF DiscoverReply
<1>5. ASSUME NEW c \in Callers, InitializeReply(c) PROVE \A q \in Proc : Moves(q)
  BY <1>1, <1>5 DEF InitializeReply
<1>6. ASSUME NEW c \in Callers, RequestReply(c) PROVE \A q \in Proc : Moves(q)
  BY <1>1, <1>6 DEF RequestReply
<1>7. ASSUME NEW c \in Callers, Interrupt(c) PROVE \A q \in Proc : Moves(q)
  BY <1>2, <1>7 DEF Interrupt, Moves
<1>8. ASSUME NEW x \in Party, TakeNext(x) \/ Kill(x) PROVE \A q \in Proc : Moves(q)
  BY <1>2, <1>8 DEF TakeNext, Kill, Moves
<1>9. ASSUME Cancel \/ Shutdown \/ Exit PROVE wire' = wire
  BY <1>9 DEF Cancel, Shutdown, Exit
<1>10. ASSUME NEW p \in Proc, Answer(p) PROVE \A q \in Proc : Moves(q)
  <2>1. PICK r \in asked[p], b \in {"good", "more", "bad", "error"} :
          wire' = [wire EXCEPT ![p] = Append(@, [body |-> b, id |-> r.id, by |-> r.by])]
    BY <1>10 DEF Answer
  <2>2. Answered(p)  BY <2>1 DEF Answered, TypeOK
  <2>3. \A q \in Proc \ {p} : wire'[q] = wire[q]  BY <2>1 DEF TypeOK
  <2>. QED  BY <2>2, <2>3 DEF Moves
<1>11. ASSUME NEW p \in Proc, ProcessExits(p) \/ CloseStdout(p) \/ ReadStdin(p)
       PROVE wire' = wire
  BY <1>11 DEF ProcessExits, CloseStdout, ReadStdin
<1>12. wire' = wire => \A q \in Proc : Moves(q)  BY DEF Moves
<1>. QED  BY <1>3, <1>4, <1>5, <1>6, <1>7, <1>8, <1>9, <1>10, <1>11, <1>12
          DEF Next, CallerNext, Upstream

\* Every message on the wire answers a request.
LEMMA RepliesStep ==
  ASSUME TypeOK, TypeOK', SessionShape, Next, \A p \in Proc : Replies(p)
  PROVE  \A p \in Proc : Replies(p)'
<1>. SUFFICES ASSUME NEW p \in Proc PROVE Replies(p)'  OBVIOUS
<1>1. asked[p] \subseteq asked'[p]  BY AskedGrows
<1>2. wire[p] \in Seq(Messages) /\ Replies(p)  BY DEF TypeOK
<1>3. CASE wire'[p] = wire[p]  BY <1>1, <1>2, <1>3 DEF Replies
<1>4. CASE wire[p] # <<>> /\ wire'[p] = Tail(wire[p])
  <2>1. /\ Len(wire[p]) \in Nat /\ Len(wire'[p]) = Len(wire[p]) - 1
        /\ \A i \in 1 .. Len(wire'[p]) : wire'[p][i] = wire[p][i + 1]
    BY <1>2, <1>4
  <2>2. \A i \in 1 .. Len(wire'[p]) : i + 1 \in 1 .. Len(wire[p]) /\ wire'[p][i] = wire[p][i + 1]
    BY <2>1
  <2>. QED  BY <1>1, <1>2, <2>2 DEF Replies
<1>5. CASE wire'[p] = <<>>  BY <1>5 DEF Replies
<1>6. CASE Answered(p)
  <2>1. PICK r \in asked[p], b \in {"good", "more", "bad", "error"} :
          wire'[p] = Append(wire[p], [body |-> b, id |-> r.id, by |-> r.by])
    BY <1>6 DEF Answered
  <2>2. \A i \in 1 .. Len(wire'[p]) :
          \/ i \in 1 .. Len(wire[p]) /\ wire'[p][i] = wire[p][i]
          \/ wire'[p][i].id = r.id /\ wire'[p][i].by = r.by
    BY <1>2, <2>1
  <2>. QED  BY <1>1, <1>2, <2>2 DEF Replies
<1>. QED  BY <1>3, <1>4, <1>5, <1>6, WireMoves DEF Moves

\* The ids of the process in use stay below the next one.
LEMMA IdsStep ==
  ASSUME TypeOK, SessionShape, Spawned, Matched, Next
  PROVE  \A p \in Proc : p \in {ready', starting'} => IdsBelow(p, nextId)'
<1>. USE DEF callerVars, brokerVars, sessionVars, worldVars, Matched
<1>. DEFINE Goal == \A p \in Proc : p \in {ready', starting'} => IdsBelow(p, nextId)'
<1>1. ASSUME UNCHANGED <<asked, nextId>>, {ready', starting'} \subseteq {ready, starting, 0}
      PROVE  Goal
  BY <1>1 DEF IdsBelow, Proc
<1>2. ASSUME NEW c \in Callers, Spawn(c) PROVE Goal
  <2>1. spawned + 1 \in Proc /\ asked[spawned + 1] = {} /\ ready = 0 /\ starting = 0
    BY <1>2, ConstantsAssumption DEF Spawn, Proc, TypeOK, Spawned, SessionShape, Owns, Party
  <2>2. CASE /\ starting' = spawned + 1 /\ nextId' = 2 /\ ready' = ready
             /\ Write(spawned + 1, IF pc[c] = "negotiate" THEN "discover" ELSE "initialize",
                      1, c)
    <3>1. \A r \in asked'[spawned + 1] : r.id = 1  BY <2>1, <2>2, Wrote
    <3>. QED  BY <2>1, <2>2, <3>1 DEF IdsBelow, Proc
  <2>3. CASE UNCHANGED <<starting, ready, asked, nextId>>
    BY <1>1, <2>3
  <2>. QED  BY <1>2, <2>2, <2>3 DEF Spawn
<1>3. ASSUME NEW c \in Callers, DiscoverReply(c) PROVE Goal
  <2>1. starting \in Proc /\ ready = 0 /\ nextId = 2
    BY <1>3 DEF DiscoverReply, SessionShape, Owns, Party, Proc, TypeOK, Waiting
  <2>2. CASE Write(starting, "initialize", 2, c) /\ nextId' = 3 /\ UNCHANGED <<starting, ready>>
    <3>1. \A r \in asked'[starting] : r \in asked[starting] \/ r.id = 2
      BY <2>1, <2>2, Wrote
    <3>2. \A r \in asked[starting] : r.id \in Nat  BY <2>1 DEF TypeOK, Requests
    <3>3. \A r \in asked'[starting] : r.id < 3  BY <2>1, <3>1, <3>2 DEF IdsBelow
    <3>. QED  BY <2>1, <2>2, <3>3 DEF IdsBelow, Proc
  <2>3. CASE UNCHANGED <<asked, nextId>> /\ {ready', starting'} \subseteq {ready, starting, 0}
    BY <1>1, <2>3
  <2>. QED  BY <1>3, <2>2, <2>3 DEF DiscoverReply, LegacyInitialize
<1>4. ASSUME NEW c \in Callers, InitializeReply(c) PROVE Goal
  <2>1. starting \in Proc /\ ready = 0
    BY <1>4 DEF InitializeReply, SessionShape, Owns, Party, Proc, TypeOK
  <2>2. CASE /\ Write(starting, "initialized", 0, c) /\ ready' = starting /\ starting' = 0
             /\ nextId' = nextId
    <3>1. \A r \in asked'[starting] : r \in asked[starting] \/ r.id = 0
      BY <2>1, <2>2, Wrote
    <3>2. \A r \in asked'[starting] : r.id < nextId  BY <2>1, <3>1 DEF IdsBelow
    <3>. QED  BY <2>1, <2>2, <3>2 DEF IdsBelow, Proc
  <2>3. CASE UNCHANGED <<asked, nextId>> /\ {ready', starting'} \subseteq {ready, starting, 0}
    BY <1>1, <2>3
  <2>. QED  BY <1>4, <2>2, <2>3 DEF InitializeReply, SendInitialized
<1>5. ASSUME NEW c \in Callers, SendRequest(c) PROVE Goal
  <2>1. ready \in Proc /\ starting = 0 /\ nextId \in Nat
    BY <1>5 DEF SendRequest, SessionShape, Owns, Party, Proc, TypeOK
  <2>2. nextId' = nextId + 1 /\ ready' = ready /\ starting' = starting
    BY <1>5 DEF SendRequest
  <2>3. \A r \in asked'[ready] : r \in asked[ready] \/ r.id = nextId
    BY <1>5, <2>1, Wrote DEF SendRequest
  <2>4. \A r \in asked[ready] : r.id \in Nat  BY <2>1 DEF TypeOK, Requests
  <2>5. \A r \in asked'[ready] : r.id < nextId'  BY <2>1, <2>2, <2>3, <2>4 DEF IdsBelow
  <2>. QED  BY <2>1, <2>2, <2>5 DEF IdsBelow, Proc
<1>6. ASSUME NEW c \in Callers, Refuse(c) \/ Admit(c) \/ EnterLive(c) \/ EnterDead(c)
        \/ SpawnFails(c) \/ TooManyPages(c) \/ RequestReply(c) \/ CancelSend(c)
        \/ ReturnError(c) \/ Interrupt(c)
      PROVE  Goal
  BY <1>1, <1>6 DEF Refuse, Admit, EnterLive, EnterDead, SpawnFails, TooManyPages,
              RequestReply, CancelSend, ReturnError, Interrupt
<1>7. ASSUME NEW x \in Party, TakeNext(x) \/ Kill(x) PROVE Goal
  BY <1>1, <1>7 DEF TakeNext, Kill
<1>8. ASSUME Cancel \/ Shutdown \/ Exit PROVE Goal
  BY <1>1, <1>8 DEF Cancel, Shutdown, Exit
<1>9. ASSUME Upstream PROVE Goal
  BY <1>1, <1>9 DEF Upstream, Answer, ProcessExits, CloseStdout, ReadStdin
<1>. QED  BY <1>2, <1>3, <1>4, <1>5, <1>6, <1>7, <1>8, <1>9 DEF Next, CallerNext

\* What a waiting caller waits for stays its own: only the party at work sends.
LEMMA WaitingStep ==
  ASSUME TypeOK, SessionShape, Matched, Next
  PROVE  \A c \in Callers : Waiting(c)'
<1>. USE DEF callerVars, brokerVars, sessionVars, worldVars, Matched
<1>. DEFINE Goal == \A c \in Callers : Waiting(c)'
<1>1. ASSUME NEW x \in Party, pc[x] \in Working,
             NEW q, Goto(x, q), q \notin {"discover", "reply"}
      PROVE  Goal
  BY <1>1, OthersRest DEF Waiting, Working, Points, Interruptible, Party
<1>2. ASSUME NEW x \in Party, NEW q, Goto(x, q), q \notin {"discover", "reply"},
             UNCHANGED <<ready, nextId, active, asked>>
      PROVE  Goal
  BY <1>2 DEF Waiting, Goto, TypeOK
<1>3. ASSUME NEW c \in Callers, Refuse(c) \/ Admit(c) \/ EnterLive(c) \/ SpawnFails(c)
        \/ TooManyPages(c) \/ CancelSend(c)
      PROVE  Goal
  BY <1>2, <1>3 DEF Refuse, Admit, EnterLive, SpawnFails, TooManyPages, CancelSend, FailTo,
                    Party
<1>4. ASSUME NEW c \in Callers, Spawn(c) PROVE Goal
  <2>1. pc[c] \in Working  BY <1>4 DEF Spawn, Working, Points
  <2>2. CASE nextId' = 2 /\ \E q \in {"discover", "initialize"} : Goto(c, q)
    BY <2>1, <2>2, OthersRest DEF Waiting, Working, Points, Interruptible, Party
  <2>3. CASE Goto(c, "reaping")  BY <1>1, <2>1, <2>3 DEF Party
  <2>. QED  BY <1>4, <2>2, <2>3 DEF Spawn, FailTo
<1>5. ASSUME NEW c \in Callers, DiscoverReply(c) \/ InitializeReply(c) \/ EnterDead(c)
        \/ RequestReply(c) \/ ReturnError(c) \/ Interrupt(c)
      PROVE  Goal
  <2>1. pc[c] \in Working
    BY <1>5 DEF DiscoverReply, InitializeReply, EnterDead, RequestReply, ReturnError,
                Interrupt, Interruptible, Working, Points
  <2>2. \E q : q \notin {"discover", "reply"} /\ Goto(c, q)
    BY <1>5 DEF DiscoverReply, LegacyInitialize, InitializeReply, EnterDead, RequestReply,
                ReturnError, Interrupt, FailTo
  <2>. QED  BY <1>1, <2>1, <2>2 DEF Party
<1>6. ASSUME NEW c \in Callers, SendRequest(c) PROVE Goal
  <2>1. pc[c] \in Working /\ ready \in Proc
    BY <1>6 DEF SendRequest, Working, Points, Interruptible, SessionShape, Owns, Party, Proc,
                TypeOK
  <2>2. CASE /\ Write(ready, "tool", nextId, c) /\ active' = nextId /\ ready' = ready
             /\ Goto(c, "reply")
    <3>1. \A r \in asked'[ready] : r \in asked[ready] \/ r.by = c  BY <2>1, <2>2, Wrote
    <3>2. \A r \in asked[ready] : r.id # nextId
      BY <2>1 DEF IdsBelow, TypeOK, Requests
    <3>3. \A r \in asked'[ready'] : r.id = active' => r.by = c  BY <2>2, <3>1, <3>2
    <3>. QED  BY <2>1, <2>2, <3>3, OthersRest DEF Waiting, Working, Points, Interruptible,
                                                 Party
  <2>3. CASE Goto(c, "terminate")  BY <1>1, <2>1, <2>3 DEF Party
  <2>. QED  BY <1>6, <2>2, <2>3 DEF SendRequest, FailTo
<1>7. ASSUME NEW x \in Party, TakeNext(x) \/ Kill(x) PROVE Goal
  <2>1. pc[x] \in Working  BY <1>7 DEF TakeNext, Kill, Working, Points, Interruptible
  <2>2. \E q : q \notin {"discover", "reply"} /\ Goto(x, q)
    BY <1>7 DEF TakeNext, Kill, TypeOK, Continuations
  <2>. QED  BY <1>1, <2>1, <2>2
<1>8. ASSUME Cancel \/ Shutdown PROVE Goal
  BY <1>2, <1>8 DEF Cancel, Shutdown, Party
<1>9. ASSUME Exit PROVE Goal
  BY <1>1, <1>9 DEF Exit, Party, Working, Points
<1>10. ASSUME Upstream PROVE Goal
  BY <1>10 DEF Upstream, Answer, ProcessExits, CloseStdout, ReadStdin, Waiting
<1>. QED  BY <1>3, <1>4, <1>5, <1>6, <1>7, <1>8, <1>9, <1>10 DEF Next, CallerNext

\* A caller accepts a reply only to what it asked for itself.
LEMMA OwnStep ==
  ASSUME TypeOK, SessionShape, Matched, Next
  PROVE  OwnReply'
<1>. USE DEF callerVars, brokerVars, sessionVars, worldVars, Matched
<1>1. ASSUME NEW c \in Callers, RequestReply(c) PROVE OwnReply'
  <2>1. ready \in Proc /\ pc[c] = "reply"
    BY <1>1 DEF RequestReply, SessionShape, Owns, Party, Proc, TypeOK
  <2>2. PICK res \in ReadResults :
          /\ ReadEnds(ready, active, res)
          /\ answers' = IF res \in {"good", "more"}
                        THEN [answers EXCEPT ![c] = @ \cup {Head(wire[ready]).by}]
                        ELSE answers
    BY <1>1 DEF RequestReply
  <2>3. ASSUME res \in {"good", "more"} PROVE Head(wire[ready]).by = c
    <3>1. wire[ready] # <<>> /\ Head(wire[ready]).id = active
      BY <2>2, <2>3 DEF ReadEnds
    <3>2. wire[ready] \in Seq(Messages)  BY <2>1 DEF TypeOK
    <3>3. 1 \in 1 .. Len(wire[ready]) /\ Head(wire[ready]) = wire[ready][1]
      BY <3>1, <3>2
    <3>4. PICK r \in asked[ready] : r.id = active /\ r.by = Head(wire[ready]).by
      BY <2>1, <3>1, <3>3 DEF Replies
    <3>. QED  BY <2>1, <3>4 DEF Waiting
  <2>. QED  BY <2>2, <2>3 DEF OwnReply, TypeOK
<1>2. ASSUME answers' = answers PROVE OwnReply'
  BY <1>2 DEF OwnReply
<1>3. ASSUME NEW c \in Callers, Refuse(c) \/ Admit(c) \/ EnterLive(c) \/ EnterDead(c)
        \/ SpawnFails(c) \/ Spawn(c) \/ DiscoverReply(c) \/ InitializeReply(c)
        \/ SendRequest(c) \/ TooManyPages(c) \/ CancelSend(c) \/ ReturnError(c)
        \/ Interrupt(c)
      PROVE  answers' = answers
  BY <1>3 DEF Refuse, Admit, EnterLive, EnterDead, SpawnFails, Spawn, DiscoverReply,
              InitializeReply, SendRequest, TooManyPages, CancelSend, ReturnError, Interrupt
<1>4. ASSUME NEW x \in Party, TakeNext(x) \/ Kill(x) PROVE answers' = answers
  BY <1>4 DEF TakeNext, Kill
<1>5. ASSUME Cancel \/ Shutdown \/ Exit \/ Upstream PROVE answers' = answers
  BY <1>5 DEF Cancel, Shutdown, Exit, Upstream, Answer, ProcessExits, CloseStdout, ReadStdin
<1>. QED  BY <1>1, <1>2, <1>3, <1>4, <1>5 DEF Next, CallerNext
-----------------------------------------------------------------------------
(* Tool requests and handshakes. *)

Tools(p) == {r \in asked[p] : r.kind = "tool"}

\* Only SendRequest writes a tool request.
LEMMA ToolsStay ==
  ASSUME TypeOK, SessionShape, Next, \A c \in Callers : ~SendRequest(c)
  PROVE  \A p \in Proc : Tools(p)' = Tools(p)
<1>. USE DEF callerVars, brokerVars, sessionVars, worldVars
<1>1. ASSUME NEW p \in Proc, NEW kind, kind # "tool", NEW id, NEW c, Write(p, kind, id, c)
      PROVE  \A q \in Proc : Tools(q)' = Tools(q)
  BY <1>1, Wrote DEF Tools
<1>2. ASSUME NEW c \in Callers, Spawn(c) PROVE \A q \in Proc : Tools(q)' = Tools(q)
  <2>1. spawned + 1 \in Proc  BY <1>2, ConstantsAssumption DEF Spawn, Proc, TypeOK
  <2>. QED  BY <1>1, <1>2, <2>1 DEF Spawn, Tools
<1>3. ASSUME NEW c \in Callers, DiscoverReply(c) \/ InitializeReply(c)
      PROVE  \A q \in Proc : Tools(q)' = Tools(q)
  <2>1. starting \in Proc  BY <1>3 DEF DiscoverReply, InitializeReply, SessionShape, Owns,
                                       Party, Proc, TypeOK
  <2>. QED  BY <1>1, <1>3, <2>1 DEF DiscoverReply, InitializeReply, LegacyInitialize,
                                    SendInitialized, Tools
<1>4. ASSUME NEW c \in Callers, Refuse(c) \/ Admit(c) \/ EnterLive(c) \/ EnterDead(c)
        \/ SpawnFails(c) \/ TooManyPages(c) \/ RequestReply(c) \/ CancelSend(c)
        \/ ReturnError(c) \/ Interrupt(c)
      PROVE  asked' = asked
  BY <1>4 DEF Refuse, Admit, EnterLive, EnterDead, SpawnFails, TooManyPages, RequestReply,
              CancelSend, ReturnError, Interrupt
<1>5. ASSUME NEW x \in Party, TakeNext(x) \/ Kill(x) PROVE asked' = asked
  BY <1>5 DEF TakeNext, Kill
<1>6. ASSUME Cancel \/ Shutdown \/ Exit \/ Upstream PROVE asked' = asked
  BY <1>6 DEF Cancel, Shutdown, Exit, Upstream, Answer, ProcessExits, CloseStdout, ReadStdin
<1>7. asked' = asked => \A q \in Proc : Tools(q)' = Tools(q)  BY DEF Tools
<1>. QED  BY <1>2, <1>3, <1>4, <1>5, <1>6, <1>7 DEF Next, CallerNext

\* SendRequest writes one, to the ready process, and then waits; or it fails.
LEMMA ToolSent ==
  ASSUME TypeOK, SessionShape, NEW c \in Callers, SendRequest(c)
  PROVE  /\ ready \in Proc /\ starting = 0 /\ pc[c] = "sending" /\ pc'[c] # "sending"
         /\ UNCHANGED <<ready, starting, revision, actor>>
         /\ \A p \in Proc \ {ready} : asked'[p] = asked[p]
         /\ \/ \A p \in Proc : asked'[p] = asked[p]
            \/ /\ asked'[ready] = asked[ready] \cup {[kind |-> "tool", id |-> nextId, by |-> c]}
               /\ pc'[c] = "reply"
<1>1. ready \in Proc /\ starting = 0 /\ pc[c] = "sending" /\ c \in Party
  BY DEF SendRequest, SessionShape, Owns, Party, Proc, TypeOK
<1>2. \/ Write(ready, "tool", nextId, c) /\ Goto(c, "reply")
      \/ asked' = asked /\ Goto(c, "terminate")
  BY DEF SendRequest, FailTo
<1>3. \/ Write(ready, "tool", nextId, c) /\ pc'[c] = "reply"
      \/ asked' = asked /\ pc'[c] = "terminate"
  BY <1>1, <1>2 DEF Goto, TypeOK
<1>4. UNCHANGED <<ready, starting, revision, actor>>  BY DEF SendRequest, brokerVars
<1>. QED  BY <1>1, <1>3, <1>4, Wrote

\* A caller that has sent nothing has sent nothing before the step either.
LEMMA UnsentBefore ==
  ASSUME TypeOK, SessionShape, Next, NEW d \in Callers, Unsent(d)'
  PROVE  Unsent(d)
<1>. USE DEF callerVars, brokerVars, sessionVars, worldVars, Unsent
<1>0. d \in Party  BY DEF Party
<1>1. ASSUME NEW x \in Party, x # d, pc[x] \in Working, NEW q, Goto(x, q) PROVE Unsent(d)
  BY <1>0, <1>1, OthersRest DEF Working, Points, Interruptible
<1>2. ASSUME NEW x \in Party, x # d, NEW q, Goto(x, q), cont' = cont PROVE Unsent(d)
  BY <1>0, <1>2 DEF Goto, TypeOK
<1>3. ASSUME NEW c \in Callers, Refuse(c) \/ Admit(c) \/ EnterLive(c) \/ SpawnFails(c)
        \/ TooManyPages(c) \/ CancelSend(c)
      PROVE  Unsent(d)
  <2>1. c \in Party /\ cont' = cont /\ \E q : Goto(c, q)
    BY <1>3 DEF Refuse, Admit, EnterLive, SpawnFails, TooManyPages, CancelSend, FailTo, Party
  <2>2. CASE c # d  BY <1>2, <2>1, <2>2
  <2>3. CASE c = d
    BY <1>0, <1>3, <2>3 DEF Refuse, Admit, EnterLive, SpawnFails, TooManyPages, CancelSend,
                            FailTo, Goto, TypeOK
  <2>. QED  BY <2>2, <2>3
<1>4. ASSUME NEW c \in Callers, EnterDead(c) \/ Spawn(c) \/ DiscoverReply(c)
        \/ InitializeReply(c) \/ SendRequest(c) \/ RequestReply(c) \/ ReturnError(c)
        \/ Interrupt(c)
      PROVE  Unsent(d)
  <2>1. c \in Party /\ pc[c] \in Working
    BY <1>4 DEF EnterDead, Spawn, DiscoverReply, InitializeReply, SendRequest, RequestReply,
                ReturnError, Interrupt, Interruptible, Working, Points, Party
  <2>2. CASE c # d
    <3>1. \E q : Goto(c, q)
      BY <1>4 DEF EnterDead, Spawn, DiscoverReply, LegacyInitialize, InitializeReply,
                  SendRequest, RequestReply, ReturnError, Interrupt, FailTo
    <3>. QED  BY <1>1, <2>1, <2>2, <3>1
  <2>3. CASE c = d
    <3>1. CASE EnterDead(d) \/ Spawn(d) \/ DiscoverReply(d) \/ InitializeReply(d)
      BY <3>1 DEF EnterDead, Spawn, DiscoverReply, InitializeReply
    <3>2. CASE SendRequest(d) \/ RequestReply(d) \/ ReturnError(d)
      BY <1>0, <3>2 DEF SendRequest, RequestReply, ReturnError, FailTo, Goto, TypeOK
    <3>3. CASE Interrupt(d)
      BY <1>0, <3>3 DEF Interrupt, Goto, TypeOK
    <3>. QED  BY <1>4, <2>3, <3>1, <3>2, <3>3
  <2>. QED  BY <2>2, <2>3
<1>5. ASSUME NEW x \in Party, TakeNext(x) \/ Kill(x) PROVE Unsent(d)
  <2>1. pc[x] \in Working /\ \E q : Goto(x, q)
    BY <1>5 DEF TakeNext, Kill, Working, Points, Interruptible
  <2>2. CASE x # d  BY <1>1, <2>1, <2>2
  <2>3. CASE x = d /\ TakeNext(x)  BY <1>0, <2>3 DEF TakeNext, Goto, TypeOK
  <2>4. CASE x = d /\ Kill(x)  BY <1>0, <2>4 DEF Kill, Goto, TypeOK, Continuations
  <2>. QED  BY <1>5, <2>2, <2>3, <2>4
<1>6. ASSUME Cancel \/ Shutdown \/ Exit PROVE Unsent(d)
  BY <1>2, <1>6, ConstantsAssumption DEF Cancel, Shutdown, Exit, Party
<1>7. ASSUME Upstream PROVE Unsent(d)
  BY <1>7 DEF Upstream, Answer, ProcessExits, CloseStdout, ReadStdin
<1>. QED  BY <1>3, <1>4, <1>5, <1>6, <1>7 DEF Next, CallerNext

\* A completed handshake stays so, and a process becomes ready by completing it.
LEMMA HandshakeStep ==
  ASSUME TypeOK, SessionShape, Sent, Next
  PROVE  \A p \in Proc : HandshakeDone(p) \/ p = ready' => HandshakeDone(p)'
<1>. USE DEF callerVars, brokerVars, sessionVars, worldVars, Sent
<1>. DEFINE Goal == \A p \in Proc : HandshakeDone(p) \/ p = ready' => HandshakeDone(p)'
<1>1. ASSUME revision' = revision, ready' \in {ready, 0} PROVE Goal
  BY <1>1, AskedGrows DEF HandshakeDone, Proc
<1>2. ASSUME NEW c \in Callers, DiscoverReply(c) PROVE Goal
  <2>1. starting \in Proc
    BY <1>2 DEF DiscoverReply, SessionShape, Owns, Party, Proc, TypeOK
  <2>2. CASE ready' = starting /\ revision' = [revision EXCEPT ![starting] = "modern"]
    BY <2>1, <2>2, AskedGrows DEF HandshakeDone, TypeOK
  <2>3. CASE revision' = revision /\ ready' = ready  BY <1>1, <2>3
  <2>. QED  BY <1>2, <2>2, <2>3 DEF DiscoverReply
<1>3. ASSUME NEW c \in Callers, InitializeReply(c) PROVE Goal
  <2>1. starting \in Proc
    BY <1>3 DEF InitializeReply, SessionShape, Owns, Party, Proc, TypeOK
  <2>2. CASE /\ Write(starting, "initialized", 0, c) /\ ready' = starting
             /\ revision' = [revision EXCEPT ![starting] = "legacy"]
    <3>0. [kind |-> "initialized", id |-> 0, by |-> c] \in asked'[starting]
      BY <2>1, <2>2, Wrote
    <3>1. \E r \in asked'[starting] : r.kind = "initialized"  BY <3>0
    <3>. QED  BY <2>1, <2>2, <3>1, AskedGrows DEF HandshakeDone, TypeOK
  <2>3. CASE revision' = revision /\ ready' = ready  BY <1>1, <2>3
  <2>. QED  BY <1>3, <2>2, <2>3 DEF InitializeReply, SendInitialized
<1>4. ASSUME NEW c \in Callers, Refuse(c) \/ Admit(c) \/ EnterLive(c) \/ EnterDead(c)
        \/ SpawnFails(c) \/ Spawn(c) \/ SendRequest(c) \/ TooManyPages(c) \/ RequestReply(c)
        \/ CancelSend(c) \/ ReturnError(c) \/ Interrupt(c)
      PROVE  Goal
  BY <1>1, <1>4 DEF Refuse, Admit, EnterLive, EnterDead, SpawnFails, Spawn, SendRequest,
              TooManyPages, RequestReply, CancelSend, ReturnError, Interrupt
<1>5. ASSUME NEW x \in Party, TakeNext(x) \/ Kill(x) PROVE Goal
  BY <1>1, <1>5 DEF TakeNext, Kill
<1>6. ASSUME Cancel \/ Shutdown \/ Exit \/ Upstream PROVE Goal
  BY <1>1, <1>6 DEF Cancel, Shutdown, Exit, Upstream, Answer, ProcessExits, CloseStdout,
                    ReadStdin
<1>. QED  BY <1>2, <1>3, <1>4, <1>5, <1>6 DEF Next, CallerNext

\* A starting process is the one just spawned, or the one that was starting.
LEMMA StartingStep ==
  ASSUME TypeOK, SessionShape, Spawned, Next
  PROVE  \A p \in Proc : p = starting' => p = starting \/ asked[p] = {}
<1>. USE DEF callerVars, brokerVars, sessionVars, worldVars
<1>1. ASSUME starting' \in {starting, 0}
      PROVE  \A p \in Proc : p = starting' => p = starting
  BY <1>1 DEF Proc
<1>2. ASSUME NEW c \in Callers, Spawn(c)
      PROVE  \A p \in Proc : p = starting' => p = starting \/ asked[p] = {}
  <2>1. starting' \in {starting, spawned + 1}  BY <1>2 DEF Spawn
  <2>2. \A p \in Proc : p = spawned + 1 => asked[p] = {}  BY DEF Spawned, TypeOK, Proc
  <2>. QED  BY <2>1, <2>2
<1>3. ASSUME NEW c \in Callers, Refuse(c) \/ Admit(c) \/ EnterLive(c) \/ EnterDead(c)
        \/ SpawnFails(c) \/ DiscoverReply(c) \/ InitializeReply(c) \/ SendRequest(c)
        \/ TooManyPages(c) \/ RequestReply(c) \/ CancelSend(c) \/ ReturnError(c)
        \/ Interrupt(c)
      PROVE  starting' \in {starting, 0}
  BY <1>3 DEF Refuse, Admit, EnterLive, EnterDead, SpawnFails, DiscoverReply,
              LegacyInitialize, InitializeReply, SendRequest, TooManyPages, RequestReply,
              CancelSend, ReturnError, Interrupt
<1>4. ASSUME NEW x \in Party, TakeNext(x) \/ Kill(x) PROVE starting' \in {starting, 0}
  BY <1>4 DEF TakeNext, Kill
<1>5. ASSUME Cancel \/ Shutdown \/ Exit \/ Upstream PROVE starting' \in {starting, 0}
  BY <1>5 DEF Cancel, Shutdown, Exit, Upstream, Answer, ProcessExits, CloseStdout, ReadStdin
<1>. QED  BY <1>1, <1>2, <1>3, <1>4, <1>5 DEF Next, CallerNext

\* A tools/call is sent once, and after the handshake.
LEMMA SentStep ==
  ASSUME TypeOK, SessionShape, Spawned, Sent, Next
  PROVE  Sent'
<1>1. \A p \in Proc : p = ready' => HandshakeDone(p)'  BY HandshakeStep
<1>2. CASE \A c \in Callers : ~SendRequest(c)
  <2>1. \A p \in Proc : Tools(p)' = Tools(p)  BY <1>2, ToolsStay
  <2>2. \A p \in Proc, d \in Callers : ToolCalls(p, d)' = ToolCalls(p, d)
    BY <2>1 DEF Tools, ToolCalls
  <2>3. \A d \in Callers : Unsent(d)' => \A p \in Proc : ToolCalls(p, d)' = {}
    BY <2>2, UnsentBefore DEF Sent
  <2>4. \A p \in Proc : p = starting' => Tools(p)' = {}
    BY <2>1, StartingStep DEF Sent, Tools
  <2>5. \A p \in Proc : Tools(p)' # {} => HandshakeDone(p)'
    BY <2>1, HandshakeStep DEF Sent, CallSentOnce, Tools
  <2>6. CallSentOnce'  BY <2>2, <2>5 DEF Sent, CallSentOnce, Tools
  <2>. QED  BY <1>1, <2>3, <2>4, <2>6 DEF Sent, Tools
<1>3. ASSUME NEW c \in Callers, SendRequest(c) PROVE Sent'
  <2>1. /\ ready \in Proc /\ starting = 0 /\ pc[c] = "sending" /\ pc'[c] # "sending"
        /\ UNCHANGED <<ready, starting, revision, actor>>
        /\ \A p \in Proc \ {ready} : asked'[p] = asked[p]
        /\ \/ \A p \in Proc : asked'[p] = asked[p]
           \/ /\ asked'[ready] = asked[ready] \cup {[kind |-> "tool", id |-> nextId, by |-> c]}
              /\ pc'[c] = "reply"
    BY <1>3, ToolSent
  <2>2. \A p \in Proc : p # starting'  BY <2>1 DEF Proc
  <2>3. \A p \in Proc, d \in Callers \ {c} : ToolCalls(p, d)' = ToolCalls(p, d)
    BY <2>1 DEF ToolCalls
  <2>4. \A d \in Callers : Unsent(d)' => \A p \in Proc : ToolCalls(p, d)' = {}
    <3>1. ASSUME Unsent(c)' PROVE \A p \in Proc : ToolCalls(p, c)' = ToolCalls(p, c)
      <4>1. \A p \in Proc : asked'[p] = asked[p]  BY <2>1, <3>1 DEF Unsent
      <4>. QED  BY <4>1 DEF ToolCalls
    <3>. QED  BY <2>3, <3>1, UnsentBefore DEF Sent
  <2>5. \A p \in Proc : (\E r \in asked'[p] : r.kind = "tool") => HandshakeDone(p)'
    <3>1. HandshakeDone(ready)'  BY <2>1, <1>1
    <3>. QED  BY <2>1, <3>1, HandshakeStep DEF Sent, CallSentOnce
  <2>6. ASSUME NEW d \in Callers \ Listers, NEW p \in Proc, NEW q \in Proc,
               NEW r \in ToolCalls(p, d)', NEW t \in ToolCalls(q, d)'
        PROVE  p = q /\ r = t
    <3>1. CASE d # c  BY <2>3, <2>6, <3>1 DEF Sent, CallSentOnce
    <3>2. CASE d = c
      <4>1. \A u \in Proc : ToolCalls(u, c) = {}
        BY <2>1, <3>2 DEF Sent, Unsent
      <4>2. \A u \in Proc : \A v \in ToolCalls(u, c)' :
              u = ready /\ v = [kind |-> "tool", id |-> nextId, by |-> c]
        BY <2>1, <4>1 DEF ToolCalls
      <4>. QED  BY <2>6, <3>2, <4>2
    <3>. QED  BY <3>1, <3>2
  <2>7. CallSentOnce'  BY <2>5, <2>6 DEF CallSentOnce
  <2>. QED  BY <1>1, <2>2, <2>4, <2>7 DEF Sent
<1>. QED  BY <1>2, <1>3
-----------------------------------------------------------------------------
(* Who waits for an answer. *)

\* An active request belongs to a caller that waits for its reply.
LEMMA ActiveStep ==
  ASSUME TypeOK, SessionShape, Settled, Next
  PROVE  active' # 0 => actor' \in Callers /\ pc'[actor'] = "reply"
<1>. USE DEF callerVars, brokerVars, sessionVars, worldVars, Settled
<1>. DEFINE Goal == active' # 0 => actor' \in Callers /\ pc'[actor'] = "reply"
<1>1. ASSUME NEW x \in Party, NEW q, Goto(x, q), pc[x] # "reply", active' = active,
             actor' \in {actor, x}, actor' = x => actor \in {x, Free}
      PROVE  Goal
  BY <1>1, ConstantsAssumption DEF Goto, TypeOK, Party
<1>2. ASSUME NEW c \in Callers, Refuse(c) \/ Admit(c) \/ EnterLive(c) \/ SpawnFails(c)
        \/ TooManyPages(c) \/ CancelSend(c)
      PROVE  Goal
  <2>1. c \in Party /\ pc[c] # "reply" /\ active' = active /\ \E q : Goto(c, q)
    BY <1>2 DEF Refuse, Admit, EnterLive, SpawnFails, TooManyPages, CancelSend, FailTo, Party
  <2>2. actor' = actor \/ (actor = Free /\ actor' = c)
    BY <1>2 DEF Refuse, Admit, Refusal, EnterLive, SpawnFails, TooManyPages, CancelSend
  <2>. QED  BY <1>1, <2>1, <2>2
<1>3. ASSUME NEW c \in Callers, Spawn(c) \/ DiscoverReply(c) \/ InitializeReply(c)
      PROVE  Goal
  <2>1. c \in Party /\ pc[c] # "reply" /\ active' = active /\ actor' = actor
    BY <1>3 DEF Spawn, DiscoverReply, InitializeReply, Party
  <2>2. \E q : Goto(c, q)
    BY <1>3 DEF Spawn, DiscoverReply, LegacyInitialize, InitializeReply, FailTo
  <2>. QED  BY <1>1, <2>1, <2>2
<1>4. ASSUME NEW c \in Callers, EnterDead(c) \/ RequestReply(c) \/ ReturnError(c)
        \/ Interrupt(c)
      PROVE  Goal
  BY <1>4 DEF EnterDead, RequestReply, ReturnError, Interrupt
<1>5. ASSUME NEW c \in Callers, SendRequest(c) PROVE Goal
  <2>1. c \in Party /\ pc[c] \in Working /\ actor' = actor
    BY <1>5 DEF SendRequest, Working, Points, Interruptible, Party
  <2>2. CASE Goto(c, "reply")  BY <2>1, <2>2, OthersRest
  <2>3. CASE Goto(c, "terminate") /\ active' = active
    BY <1>1, <1>5, <2>1, <2>3 DEF SendRequest
  <2>. QED  BY <1>5, <2>2, <2>3 DEF SendRequest, FailTo
<1>6. ASSUME NEW x \in Party, TakeNext(x) PROVE Goal
  BY <1>6 DEF TakeNext
<1>7. ASSUME NEW x \in Party, Kill(x) PROVE Goal
  BY <1>1, <1>7 DEF Kill
<1>8. ASSUME Cancel \/ Shutdown PROVE Goal
  BY <1>1, <1>8 DEF Cancel, Shutdown, Party
<1>9. ASSUME Exit PROVE Goal
  BY <1>9 DEF Exit
<1>10. ASSUME Upstream PROVE Goal
  BY <1>10 DEF Upstream, Answer, ProcessExits, CloseStdout, ReadStdin
<1>. QED  BY <1>2, <1>3, <1>4, <1>5, <1>6, <1>7, <1>8, <1>9, <1>10 DEF Next, CallerNext

\* An outcome is lost only by the party at work, or by one that never sent; and
\* whoever gives the actor back leaves no request behind.
LEMMA AnsweredStep ==
  ASSUME TypeOK, SessionShape, Sent, Settled, Next, \A c \in Callers : ~SendRequest(c)
  PROVE  \A p \in Proc : p = ready' =>
           \A r \in Tools(p) : outcome'[r.by] = "OK" \/ r.by = actor'
<1>. USE DEF callerVars, brokerVars, sessionVars, worldVars
<1>. DEFINE Goal == \A p \in Proc : p = ready' =>
                      \A r \in Tools(p) : outcome'[r.by] = "OK" \/ r.by = actor'
<1>0. /\ \A p \in Proc : p = ready => \A r \in Tools(p) : outcome[r.by] = "OK" \/ r.by = actor
      /\ \A p \in Proc : \A r \in Tools(p) : r.by \in Callers /\ r.by # Free
  BY ConstantsAssumption DEF Settled, Tools, TypeOK, Requests
<1>1. ASSUME ready' \in {ready, 0}, actor' = actor \/ actor = Free,
             NEW c \in Callers, c = actor,
             \A d \in Callers \ {c} : outcome'[d] = outcome[d]
      PROVE  Goal
  BY <1>0, <1>1, ConstantsAssumption DEF Proc
<1>2. ASSUME outcome' = outcome, ready' \in {ready, 0}, actor' = actor \/ actor = Free
      PROVE  Goal
  BY <1>0, <1>2 DEF Proc
<1>3. ASSUME ready' = 0 PROVE Goal  BY <1>3 DEF Proc
<1>4. ASSUME NEW c \in Callers, Refuse(c) PROVE Goal
  <2>1. \A p \in Proc : \A r \in Tools(p) : r.by # c
    BY <1>4 DEF Refuse, Sent, Unsent, Tools, ToolCalls
  <2>2. /\ ready' = ready /\ actor' = actor
        /\ \A d \in Callers \ {c} : outcome'[d] = outcome[d]
    BY <1>4 DEF Refuse, TypeOK
  <2>. QED  BY <1>0, <2>1, <2>2
<1>5. ASSUME NEW c \in Callers, Admit(c) \/ EnterLive(c) \/ EnterDead(c) \/ CancelSend(c)
      PROVE  Goal
  BY <1>2, <1>5 DEF Admit, Refusal, EnterLive, EnterDead, CancelSend
<1>6. ASSUME NEW c \in Callers, SpawnFails(c) \/ Spawn(c) \/ TooManyPages(c) \/ Interrupt(c)
      PROVE  Goal
  <2>1. /\ c = actor /\ ready' = ready /\ actor' = actor
    BY <1>6, Alone DEF SpawnFails, Spawn, TooManyPages, Interrupt, Working, Points,
                       Interruptible, Party
  <2>2. \A d \in Callers \ {c} : outcome'[d] = outcome[d]
    BY <1>6 DEF SpawnFails, Spawn, TooManyPages, Interrupt, FailTo, TypeOK
  <2>. QED  BY <1>1, <2>1, <2>2
<1>7. ASSUME NEW c \in Callers, DiscoverReply(c) \/ InitializeReply(c) PROVE Goal
  <2>1. /\ c = actor /\ ready = 0 /\ actor' = actor /\ ready' \in {ready, starting}
    BY <1>7, Alone DEF DiscoverReply, InitializeReply, SessionShape, Owns, Working, Points,
                       Interruptible, Party
  <2>2. \A p \in Proc : p = starting => Tools(p) = {}  BY DEF Sent, Tools
  <2>. QED  BY <2>1, <2>2 DEF Proc
<1>8. ASSUME NEW c \in Callers, RequestReply(c) PROVE Goal
  <2>1. c = actor /\ ready' = ready
    BY <1>8, Alone DEF RequestReply, Working, Points, Interruptible, Party
  <2>2. \A d \in Callers \ {c} : outcome'[d] = outcome[d]
    BY <1>8 DEF RequestReply, FailTo, TypeOK
  <2>3. CASE actor' = actor  BY <1>1, <2>1, <2>2, <2>3
  <2>4. CASE outcome' = [outcome EXCEPT ![c] = "OK"]
    BY <1>0, <2>1, <2>2, <2>4 DEF TypeOK
  <2>. QED  BY <1>8, <2>3, <2>4 DEF RequestReply
<1>9. ASSUME NEW c \in Callers, ReturnError(c) PROVE Goal
  BY <1>3, <1>9 DEF ReturnError
<1>10. ASSUME NEW x \in Party, TakeNext(x) \/ Kill(x) PROVE Goal
  BY <1>2, <1>10 DEF TakeNext, Kill
<1>11. ASSUME Cancel \/ Shutdown \/ Upstream PROVE Goal
  BY <1>2, <1>11 DEF Cancel, Shutdown, Upstream, Answer, ProcessExits, CloseStdout, ReadStdin
<1>12. ASSUME Exit PROVE Goal
  BY <1>3, <1>12 DEF Exit
<1>. QED  BY <1>4, <1>5, <1>6, <1>7, <1>8, <1>9, <1>10, <1>11, <1>12 DEF Next, CallerNext

\* Every step leaves the ready process with answered requests and those of its user.
LEMMA SettledStep ==
  ASSUME TypeOK, SessionShape, Sent, Settled, Next
  PROVE  Settled'
<1>1. active' # 0 => actor' \in Callers /\ pc'[actor'] = "reply"  BY ActiveStep
<1>2. CASE \A c \in Callers : ~SendRequest(c)
  <2>1. \A p \in Proc : Tools(p)' = Tools(p)  BY <1>2, ToolsStay
  <2>2. \A p \in Proc : p = ready' =>
          \A r \in Tools(p)' : outcome'[r.by] = "OK" \/ r.by = actor'
    BY <1>2, <2>1, AnsweredStep
  <2>. QED  BY <1>1, <2>2 DEF Settled, Tools
<1>3. ASSUME NEW c \in Callers, SendRequest(c) PROVE Settled'
  <2>1. /\ ready \in Proc /\ UNCHANGED <<ready, actor>> /\ actor = c
        /\ \A r \in asked'[ready] : r \in asked[ready] \/ r.by = c
    BY <1>3, ToolSent, Alone DEF SendRequest, Working, Points, Interruptible, Party
  <2>2. \A d \in Callers \ {c} : outcome'[d] = outcome[d]
    BY <1>3 DEF SendRequest, FailTo, TypeOK
  <2>3. \A r \in asked'[ready] : r.kind = "tool" => outcome'[r.by] = "OK" \/ r.by = actor
    BY <2>1, <2>2 DEF Settled, TypeOK, Requests
  <2>. QED  BY <1>1, <2>1, <2>3 DEF Settled
<1>. QED  BY <1>2, <1>3

-----------------------------------------------------------------------------
(* The invariant. *)

\* At the start nothing has been spawned or asked.
LEMMA InitReplies == Init => RInv
<1>. SUFFICES ASSUME Init PROVE RInv  OBVIOUS
<1>1. IInv  BY InitInv
<1>2. Spawned  BY DEF Init, Spawned, Proc
<1>3. Matched
  <2>1. \A c \in Callers : pc[c] = "idle"  BY ConstantsAssumption DEF Init, Party
  <2>2. \A p \in Proc : Replies(p) /\ p \notin {ready, starting}  BY DEF Init, Replies, Proc
  <2>. QED  BY <2>1, <2>2 DEF Init, Matched, Waiting, OwnReply
<1>4. Sent  BY DEF Init, Sent, ToolCalls, CallSentOnce, Proc
<1>5. Settled  BY DEF Init, Settled, Proc
<1>. QED  BY <1>1, <1>2, <1>3, <1>4, <1>5 DEF RInv

\* Every step preserves it.
LEMMA StepReplies == RInv /\ [Next]_vars => RInv'
<1>. SUFFICES ASSUME RInv, [Next]_vars PROVE RInv'  OBVIOUS
<1>1. IInv'  BY StepInv DEF RInv
<1>2. CASE Next
  <2>1. TypeOK /\ TypeOK' /\ SessionShape  BY <1>1 DEF RInv, IInv
  <2>2. Spawned'  BY <1>2, <2>1, SpawnedStep DEF RInv
  <2>3. Matched'
    BY <1>2, <2>1, IdsStep, RepliesStep, WaitingStep, OwnStep DEF RInv, Matched
  <2>4. Sent'  BY <1>2, <2>1, SentStep DEF RInv
  <2>5. Settled'  BY <1>2, <2>1, SettledStep DEF RInv
  <2>. QED  BY <1>1, <2>2, <2>3, <2>4, <2>5 DEF RInv
<1>3. CASE UNCHANGED vars
  <2>. USE <1>3 DEF RInv, vars, callerVars, brokerVars, sessionVars, worldVars
  <2>1. Spawned'  BY DEF Spawned
  <2>2. Matched'  BY DEF Matched, IdsBelow, Replies, Waiting, OwnReply
  <2>3. Sent'  BY DEF Sent, Unsent, ToolCalls, HandshakeDone, CallSentOnce
  <2>4. Settled'  BY DEF Settled
  <2>. QED  BY <1>1, <2>1, <2>2, <2>3, <2>4
<1>. QED  BY <1>2, <1>3

\* The joined invariant holds of every behaviour.
THEOREM RepliesInvariance == Spec => []RInv
  BY InitReplies, StepReplies, PTL DEF Spec

\* A caller only ever accepts replies to its own requests, whatever the
\* upstream answers, how often and how late.
THEOREM RepliesAreOwn == Spec => []OwnReply
<1>1. RInv => OwnReply  BY DEF RInv, Matched
<1>. QED  BY <1>1, RepliesInvariance, PTL

\* The tools/call of a public request is written at most once, to one process,
\* after that process's handshake.
THEOREM CallsAreSentOnce == Spec => []CallSentOnce
<1>1. RInv => CallSentOnce  BY DEF RInv, Sent
<1>. QED  BY <1>1, RepliesInvariance, PTL

\* A session that waits for its next caller has no request unanswered.
THEOREM SessionIsQuiet == Spec => []QuietSession
<1>1. RInv => QuietSession
  <2>. SUFFICES ASSUME RInv, actor = Free
       PROVE  /\ starting = 0 /\ held = 0 /\ active = 0
              /\ ready # 0 => \A r \in asked[ready] : r.kind = "tool" => outcome[r.by] = "OK"
    BY DEF QuietSession
  <2>1. starting = 0 /\ held = 0  BY DEF RInv, IInv, SessionShape
  <2>2. active = 0  BY ConstantsAssumption DEF RInv, Settled
  <2>3. ASSUME ready # 0, NEW r \in asked[ready], r.kind = "tool" PROVE outcome[r.by] = "OK"
    <3>1. ready \in Proc  BY <2>3 DEF RInv, IInv, TypeOK, Proc
    <3>2. r.by # Free  BY <2>3, <3>1, ConstantsAssumption DEF RInv, IInv, TypeOK, Requests
    <3>. QED  BY <2>3, <3>1, <3>2 DEF RInv, Settled
  <2>. QED  BY <2>1, <2>2, <2>3
<1>. QED  BY <1>1, RepliesInvariance, PTL
=============================================================================
