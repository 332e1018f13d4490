-------------------------- MODULE McpSessionProofs --------------------------
(***************************************************************************)
(* What McpSession guarantees for every number of callers, slots,           *)
(* processes and pages. The inductive invariant is                          *)
(*   TypeOK /\ SlotsConserved /\ SessionShape /\ NoStrayProcess             *)
(* SlotsConserved bounds the permits from above, which TypeOK needs;        *)
(* SessionShape says which process fields are empty when a field is         *)
(* overwritten, which NoStrayProcess needs. No step of the upstream is      *)
(* assumed away.                                                            *)
(***************************************************************************)
EXTENDS McpSession, FiniteSetTheorems, TLAPS

-----------------------------------------------------------------------------
(* Types of the helpers that several actions use. *)

\* A written request has the type of one.
LEMMA WriteType ==
  ASSUME asked \in [Proc -> SUBSET Requests], NEW p, NEW c \in Callers, NEW id \in Nat,
         NEW kind \in {"discover", "initialize", "initialized", "tool"},
         Write(p, kind, id, c)
  PROVE  asked' \in [Proc -> SUBSET Requests]
<1>. DEFINE r == [kind |-> kind, id |-> id, by |-> c]
<1>1. r \in Requests  BY DEF Requests
<1>2. asked' = [asked EXCEPT ![p] = @ \cup {r}]  BY DEF Write
<1>. HIDE DEF r
<1>. QED  BY <1>1, <1>2

\* Reading consumes a message, and a result tells whose request it answers.
LEMMA ReadType ==
  ASSUME wire \in [Proc -> Seq(Messages)], NEW p \in Proc, NEW id, NEW res,
         ReadEnds(p, id, res)
  PROVE  /\ wire' \in [Proc -> Seq(Messages)]
         /\ res \in {"good", "more"} => Head(wire[p]).by \in Callers
<1>1. wire[p] # <<>> => Head(wire[p]) \in Messages /\ Tail(wire[p]) \in Seq(Messages)
  OBVIOUS
<1>2. wire' \in [Proc -> Seq(Messages)]  BY <1>1 DEF ReadEnds
<1>3. res \in {"good", "more"} => wire[p] # <<>>  BY DEF ReadEnds
<1>. QED  BY <1>1, <1>2, <1>3 DEF Messages

\* Closing the pipes of a process is typed.
LEMMA DropType ==
  ASSUME TypeOK, NEW p \in Proc, DropPipes(p)
  PROVE  /\ wire' \in [Proc -> Seq(Messages)]
         /\ eof' \subseteq Proc /\ full' \subseteq Proc
BY DEF TypeOK, DropPipes

-----------------------------------------------------------------------------
(* Types. *)

\* Every step keeps the types, given the bound on the permits.
LEMMA TypeStep ==
  ASSUME TypeOK, SessionShape, slots' \in 0 .. Slots, Next
  PROVE  TypeOK'
<1>. USE ConstantsAssumption
         DEF Points, Interruptible, Continuations, Codes, Proc, Party, Goto, FailTo,
             brokerVars, callerVars, sessionVars, worldVars
<1>1. ASSUME NEW c \in Callers, Refuse(c) PROVE TypeOK'
  BY <1>1 DEF TypeOK, Refuse, Refusal
<1>2. ASSUME NEW c \in Callers, Admit(c) PROVE TypeOK'
  BY <1>2 DEF TypeOK, Admit
<1>3. ASSUME NEW c \in Callers, EnterDead(c) PROVE TypeOK'
  BY <1>3 DEF TypeOK, EnterDead, SessionShape, Owns, BeginReap
<1>4. ASSUME NEW c \in Callers, EnterLive(c) PROVE TypeOK'
  BY <1>4 DEF TypeOK, EnterLive
<1>5. ASSUME NEW c \in Callers, SpawnFails(c) PROVE TypeOK'
  BY <1>5 DEF TypeOK, SpawnFails
<1>6. ASSUME NEW c \in Callers, Spawn(c) PROVE TypeOK'
  <2>1. /\ spawned \in Nat /\ spawned' = spawned + 1
        /\ spawned' \in Proc /\ spawned' \in 0 .. MaxProcs
    BY <1>6 DEF TypeOK, Spawn
  <2>2. \E q \in {"discover", "initialize", "reaping"} : Goto(c, q)
    BY <1>6 DEF Spawn
  <2>3. pc' \in [Party -> Points]  BY <2>2 DEF TypeOK
  <2>4. outcome' \in [Callers -> Codes]  BY <1>6 DEF TypeOK, Spawn
  <2>5. /\ starting' \in 0 .. MaxProcs /\ held' \in 0 .. MaxProcs
        /\ nextId' \in Nat /\ cont' \in Continuations
    BY <1>6, <2>1 DEF TypeOK, Spawn, BeginReap
  <2>6. asked' \in [Proc -> SUBSET Requests]  BY <1>6, WriteType DEF TypeOK, Spawn
  <2>7. proc' \in [Proc -> {"unused", "up", "leaderless", "gone"}]
    BY <1>6 DEF TypeOK, Spawn
  <2>8. UNCHANGED <<pages, answers, slots, actor, cancelled, ready, active, abandoned,
                    revision, wire, eof, full>>
    BY <1>6 DEF Spawn
  <2>. QED  BY <2>1, <2>3, <2>4, <2>5, <2>6, <2>7, <2>8 DEF TypeOK
<1>7. ASSUME NEW c \in Callers, DiscoverReply(c) PROVE TypeOK'
  <2>1. starting \in Proc /\ starting \in 0 .. MaxProcs
    BY <1>7 DEF TypeOK, SessionShape, Owns, DiscoverReply
  <2>2. \E q \in {"sending", "initialize", "reaping"} : Goto(c, q)
    BY <1>7 DEF DiscoverReply, LegacyInitialize
  <2>3. pc' \in [Party -> Points]  BY <2>2 DEF TypeOK
  <2>4. outcome' \in [Callers -> Codes]  BY <1>7 DEF TypeOK, DiscoverReply,
                                            LegacyInitialize
  <2>5. /\ ready' \in 0 .. MaxProcs /\ starting' \in 0 .. MaxProcs
        /\ held' \in 0 .. MaxProcs /\ nextId' \in Nat /\ cont' \in Continuations
    BY <1>7, <2>1 DEF TypeOK, DiscoverReply, LegacyInitialize, BeginReap
  <2>6. asked' \in [Proc -> SUBSET Requests]
    BY <1>7, WriteType DEF TypeOK, DiscoverReply, LegacyInitialize
  <2>7. revision' \in [Proc -> {"none", "modern", "legacy"}]
    BY <1>7 DEF TypeOK, DiscoverReply
  <2>8. wire' \in [Proc -> Seq(Messages)]
    BY <1>7, <2>1, ReadType DEF TypeOK, DiscoverReply
  <2>9. UNCHANGED <<pages, answers, slots, actor, cancelled, active, abandoned, spawned,
                    proc, eof, full>>
    BY <1>7 DEF DiscoverReply
  <2>. QED  BY <2>3, <2>4, <2>5, <2>6, <2>7, <2>8, <2>9 DEF TypeOK
<1>8. ASSUME NEW c \in Callers, InitializeReply(c) PROVE TypeOK'
  <2>1. starting \in Proc /\ starting \in 0 .. MaxProcs
    BY <1>8 DEF TypeOK, SessionShape, Owns, InitializeReply
  <2>2. \E q \in {"sending", "reaping"} : Goto(c, q)
    BY <1>8 DEF InitializeReply
  <2>3. pc' \in [Party -> Points]  BY <2>2 DEF TypeOK
  <2>4. outcome' \in [Callers -> Codes]  BY <1>8 DEF TypeOK, InitializeReply
  <2>5. /\ ready' \in 0 .. MaxProcs /\ starting' \in 0 .. MaxProcs
        /\ held' \in 0 .. MaxProcs /\ cont' \in Continuations
    BY <1>8, <2>1 DEF TypeOK, InitializeReply, BeginReap
  <2>6. asked' \in [Proc -> SUBSET Requests]
    BY <1>8, WriteType DEF TypeOK, InitializeReply, SendInitialized
  <2>7. revision' \in [Proc -> {"none", "modern", "legacy"}]
    BY <1>8 DEF TypeOK, InitializeReply
  <2>8. wire' \in [Proc -> Seq(Messages)]
    BY <1>8, <2>1, ReadType DEF TypeOK, InitializeReply
  <2>9. UNCHANGED <<pages, answers, slots, actor, cancelled, nextId, active, abandoned,
                    spawned, proc, eof, full>>
    BY <1>8 DEF InitializeReply
  <2>. QED  BY <2>3, <2>4, <2>5, <2>6, <2>7, <2>8, <2>9 DEF TypeOK
<1>9. ASSUME NEW c \in Callers, SendRequest(c) PROVE TypeOK'
  <2>1. ready \in Proc  BY <1>9 DEF TypeOK, SessionShape, Owns, SendRequest
  <2>2. \E q \in {"reply", "terminate"} : Goto(c, q)
    BY <1>9 DEF SendRequest
  <2>3. pc' \in [Party -> Points]  BY <2>2 DEF TypeOK
  <2>4. outcome' \in [Callers -> Codes]  BY <1>9 DEF TypeOK, SendRequest
  <2>5. nextId' \in Nat /\ active' \in Nat  BY <1>9 DEF TypeOK, SendRequest
  <2>6. pages' \in [Callers -> Nat]  BY <1>9 DEF TypeOK, SendRequest
  <2>7. asked' \in [Proc -> SUBSET Requests]
    BY <1>9, WriteType DEF TypeOK, SendRequest
  <2>8. full' = full \/ full' = full \cup {ready}  BY <1>9 DEF SendRequest
  <2>9. full' \subseteq Proc  BY <2>1, <2>8 DEF TypeOK
  <2>10. UNCHANGED <<answers, slots, actor, cancelled, ready, starting, held, cont,
                    abandoned, spawned, revision, proc, wire, eof>>
    BY <1>9 DEF SendRequest
  <2>. QED  BY <2>3, <2>4, <2>5, <2>6, <2>7, <2>9, <2>10 DEF TypeOK
<1>10. ASSUME NEW c \in Callers, TooManyPages(c) PROVE TypeOK'
  BY <1>10 DEF TypeOK, TooManyPages
<1>11. ASSUME NEW c \in Callers, RequestReply(c) PROVE TypeOK'
  <2>1. ready \in Proc  BY <1>11 DEF TypeOK, SessionShape, Owns, RequestReply
  <2>2. \E q \in {"done", "sending", "terminate"} : Goto(c, q)
    BY <1>11 DEF RequestReply
  <2>3. pc' \in [Party -> Points]  BY <2>2 DEF TypeOK
  <2>4. outcome' \in [Callers -> Codes]  BY <1>11 DEF TypeOK, RequestReply
  <2>5. actor' \in Party \cup {Free} /\ active' \in Nat
    BY <1>11 DEF TypeOK, RequestReply, Release
  <2>6. PICK res \in ReadResults :
          /\ ReadEnds(ready, active, res)
          /\ answers' = IF res \in {"good", "more"}
                        THEN [answers EXCEPT ![c] = @ \cup {Head(wire[ready]).by}]
                        ELSE answers
    BY <1>11 DEF RequestReply
  <2>7. /\ wire' \in [Proc -> Seq(Messages)]
        /\ res \in {"good", "more"} => Head(wire[ready]).by \in Callers
    BY <2>1, <2>6, ReadType DEF TypeOK
  <2>8. answers' \in [Callers -> SUBSET Callers]  BY <2>6, <2>7 DEF TypeOK
  <2>9. UNCHANGED <<pages, cancelled, ready, nextId, starting, held, cont, abandoned,
                    spawned, revision, proc, asked, eof, full>>
    BY <1>11 DEF RequestReply
  <2>. QED  BY <2>3, <2>4, <2>5, <2>7, <2>8, <2>9 DEF TypeOK
<1>12. ASSUME NEW c \in Callers, Interrupt(c) PROVE TypeOK'
  <2>1. pc[c] = "reaping" => held \in Proc  BY DEF TypeOK, SessionShape, Owns
  <2>2. pc' \in [Party -> Points]  BY <1>12 DEF TypeOK, Interrupt
  <2>3. outcome' \in [Callers -> Codes]  BY <1>12 DEF TypeOK, Interrupt
  <2>4. /\ abandoned' \subseteq Proc /\ wire' \in [Proc -> Seq(Messages)]
        /\ eof' \subseteq Proc /\ full' \subseteq Proc
    BY <1>12, <2>1, DropType DEF TypeOK, Interrupt
  <2>5. held' \in 0 .. MaxProcs /\ cont' \in Continuations /\ active' \in Nat
    BY <1>12 DEF Interrupt
  <2>6. UNCHANGED <<pages, answers, slots, actor, cancelled, ready, nextId, starting,
                    spawned, revision, proc, asked>>
    BY <1>12 DEF Interrupt
  <2>. QED  BY <2>2, <2>3, <2>4, <2>5, <2>6 DEF TypeOK
<1>13. ASSUME NEW c \in Callers, CancelSend(c) PROVE TypeOK'
  BY <1>13 DEF TypeOK, CancelSend
<1>14. ASSUME NEW c \in Callers, ReturnError(c) PROVE TypeOK'
  BY <1>14 DEF TypeOK, ReturnError, Release
<1>15. ASSUME NEW x \in Party, TakeNext(x) PROVE TypeOK'
  BY <1>15 DEF TypeOK, TakeNext, SessionShape, Owns, DropPipes
<1>16. ASSUME NEW x \in Party, Kill(x) PROVE TypeOK'
  BY <1>16 DEF TypeOK, Kill, SessionShape, Owns, DropPipes
<1>17. ASSUME Cancel PROVE TypeOK'
  BY <1>17 DEF TypeOK, Cancel
<1>18. ASSUME Shutdown PROVE TypeOK'
  BY <1>18 DEF TypeOK, Shutdown
<1>19. ASSUME Exit PROVE TypeOK'
  BY <1>19 DEF TypeOK, Exit
<1>20. ASSUME NEW p \in Proc, Answer(p) PROVE TypeOK'
  <2>1. PICK r \in asked[p], b \in {"good", "more", "bad", "error"} :
          wire' = [wire EXCEPT ![p] = Append(@, [body |-> b, id |-> r.id, by |-> r.by])]
    BY <1>20 DEF Answer
  <2>2. [body |-> b, id |-> r.id, by |-> r.by] \in Messages
    BY DEF TypeOK, Requests, Messages
  <2>3. wire' \in [Proc -> Seq(Messages)]  BY <2>1, <2>2 DEF TypeOK
  <2>. QED  BY <1>20, <2>3 DEF TypeOK, Answer
<1>21. ASSUME NEW p \in Proc, ProcessExits(p) PROVE TypeOK'
  BY <1>21 DEF TypeOK, ProcessExits
<1>22. ASSUME NEW p \in Proc, CloseStdout(p) PROVE TypeOK'
  BY <1>22 DEF TypeOK, CloseStdout
<1>23. ASSUME NEW p \in Proc, ReadStdin(p) PROVE TypeOK'
  BY <1>23 DEF TypeOK, ReadStdin
<1>. QED  BY <1>1, <1>2, <1>3, <1>4, <1>5, <1>6, <1>7, <1>8, <1>9, <1>10, <1>11, <1>12,
             <1>13, <1>14, <1>15, <1>16, <1>17, <1>18, <1>19, <1>20, <1>21, <1>22, <1>23
             DEF Next, CallerNext, Upstream
-----------------------------------------------------------------------------
(* Permits. *)

\* The calls in flight are finitely many.
LEMMA InFlightFinite ==
  /\ IsFiniteSet(InFlight) /\ Cardinality(InFlight) \in Nat
  /\ \A c \in InFlight : Cardinality(InFlight) >= 1
<1>1. IsFiniteSet(InFlight)  BY ConstantsAssumption, FS_Subset DEF InFlight
<1>. QED  BY <1>1, FS_CardinalityType, FS_EmptySet

\* A step that neither admits nor ends a call leaves the calls in flight alone.
LEMMA Stay ==
  ASSUME TypeOK, NEW x \in Party, NEW q, Goto(x, q),
         x \in Callers => (pc[x] \in {"idle", "done"} <=> q \in {"idle", "done"})
  PROVE  InFlight' = InFlight
BY DEF InFlight, TypeOK, Goto, Party

\* An admission adds one call in flight.
LEMMA Join ==
  ASSUME TypeOK, NEW c \in Callers, pc[c] = "idle", Goto(c, "enter")
  PROVE  Cardinality(InFlight') = Cardinality(InFlight) + 1
<1>1. c \notin InFlight /\ InFlight' = InFlight \cup {c}
  BY DEF InFlight, TypeOK, Goto, Party
<1>. QED  BY <1>1, InFlightFinite, FS_AddElement

\* An exit removes one.
LEMMA Leave ==
  ASSUME TypeOK, NEW c \in Callers, pc[c] \notin {"idle", "done"}, Goto(c, "done")
  PROVE  /\ Cardinality(InFlight') = Cardinality(InFlight) - 1
         /\ Cardinality(InFlight) >= 1
<1>1. c \in InFlight /\ InFlight' = InFlight \ {c}
  BY DEF InFlight, TypeOK, Goto, Party
<1>. QED  BY <1>1, InFlightFinite, FS_RemoveElement

\* Every step keeps the permits and the calls in flight in balance.
LEMMA SlotsStep ==
  ASSUME TypeOK, SlotsConserved, Next
  PROVE  slots' \in 0 .. Slots /\ SlotsConserved'
<1>. DEFINE Stays == slots' = slots /\ InFlight' = InFlight
            Joins == /\ slots # 0 /\ slots' = slots - 1
                     /\ Cardinality(InFlight') = Cardinality(InFlight) + 1
            Leaves == /\ slots' = slots + 1 /\ Cardinality(InFlight) >= 1
                      /\ Cardinality(InFlight') = Cardinality(InFlight) - 1
<1>1. ASSUME Stays \/ Joins \/ Leaves
      PROVE  slots' \in 0 .. Slots /\ SlotsConserved'
  <2>1. /\ slots \in Nat /\ slots <= Slots /\ Slots \in Nat /\ Cardinality(InFlight) \in Nat
        /\ slots + Cardinality(InFlight) = Slots
    BY InFlightFinite, ConstantsAssumption DEF TypeOK, SlotsConserved
  <2>2. CASE Stays  BY <2>1, <2>2 DEF SlotsConserved
  <2>3. CASE Joins  BY <2>1, <2>3 DEF SlotsConserved
  <2>4. CASE Leaves  BY <2>1, <2>4 DEF SlotsConserved
  <2>. QED  BY <1>1, <2>2, <2>3, <2>4
<1>2. ASSUME NEW c \in Callers, Refuse(c) PROVE Stays
  BY <1>2, Stay DEF Refuse, Party, brokerVars
<1>3. ASSUME NEW c \in Callers, Admit(c) PROVE Joins
  BY <1>3, Join DEF Admit, Refusal
<1>4. ASSUME NEW c \in Callers, EnterDead(c) \/ EnterLive(c) \/ SpawnFails(c) \/ Spawn(c)
      PROVE  Stays
  <2>1. pc[c] \notin {"idle", "done"} /\ slots' = slots
    BY <1>4 DEF EnterDead, EnterLive, SpawnFails, Spawn, brokerVars
  <2>2. \E q : q \notin {"idle", "done"} /\ Goto(c, q)
    BY <1>4 DEF EnterDead, EnterLive, SpawnFails, Spawn, FailTo
  <2>. QED  BY <2>1, <2>2, Stay DEF Party
<1>5. ASSUME NEW c \in Callers, DiscoverReply(c) \/ InitializeReply(c) \/ SendRequest(c)
      PROVE  Stays
  <2>1. pc[c] \notin {"idle", "done"} /\ slots' = slots
    BY <1>5 DEF DiscoverReply, InitializeReply, SendRequest, brokerVars
  <2>2. \E q : q \notin {"idle", "done"} /\ Goto(c, q)
    BY <1>5 DEF DiscoverReply, LegacyInitialize, InitializeReply, SendRequest, FailTo
  <2>. QED  BY <2>1, <2>2, Stay DEF Party
<1>6. ASSUME NEW c \in Callers, TooManyPages(c) \/ Interrupt(c) \/ CancelSend(c)
      PROVE  Stays
  <2>1. pc[c] \notin {"idle", "done"} /\ slots' = slots
    BY <1>6 DEF TooManyPages, Interrupt, CancelSend, Interruptible, brokerVars
  <2>2. \E q : q \notin {"idle", "done"} /\ Goto(c, q)
    BY <1>6 DEF TooManyPages, Interrupt, CancelSend, FailTo
  <2>. QED  BY <2>1, <2>2, Stay DEF Party
<1>7. ASSUME NEW c \in Callers, RequestReply(c) PROVE Stays \/ Leaves
  <2>1. pc[c] = "reply"  BY <1>7 DEF RequestReply
  <2>2. CASE Goto(c, "done") /\ Release  BY <2>1, <2>2, Leave DEF Release
  <2>3. CASE slots' = slots /\ \E q \in {"sending", "terminate"} : Goto(c, q)
    BY <2>1, <2>3, Stay DEF Party
  <2>. QED  BY <1>7, <2>2, <2>3 DEF RequestReply, FailTo
<1>8. ASSUME NEW c \in Callers, ReturnError(c) PROVE Leaves
  BY <1>8, Leave DEF ReturnError, Release
<1>9. ASSUME NEW x \in Party, TakeNext(x) \/ Kill(x) PROVE Stays
  <2>1. pc[x] \notin {"idle", "done"} /\ slots' = slots
    BY <1>9 DEF TakeNext, Kill, brokerVars
  <2>2. \E q : q \notin {"idle", "done"} /\ Goto(x, q)
    BY <1>9 DEF TakeNext, Kill, TypeOK, Continuations
  <2>. QED  BY <2>1, <2>2, Stay
<1>10. ASSUME Cancel \/ Shutdown \/ Exit PROVE Stays
  <2>1. slots' = slots /\ \E q : Goto(Broker, q)  BY <1>10 DEF Cancel, Shutdown, Exit
  <2>. QED  BY <2>1, Stay, ConstantsAssumption DEF Party
<1>11. ASSUME Upstream PROVE Stays
  BY <1>11 DEF Upstream, Answer, ProcessExits, CloseStdout, ReadStdin, callerVars,
               brokerVars, InFlight
<1>. QED  BY <1>1, <1>2, <1>3, <1>4, <1>5, <1>6, <1>7, <1>8, <1>9, <1>10, <1>11
          DEF Next, CallerNext
-----------------------------------------------------------------------------
(* The shape of the session. *)

\* Only one party is at work, and it holds the actor.
LEMMA Alone ==
  ASSUME TypeOK, SessionShape, NEW x \in Party, pc[x] \in Working
  PROVE  actor = x /\ actor # Free /\ \A y \in Party \ {x} : pc[y] \notin Working
BY ConstantsAssumption DEF SessionShape, Owns, Party

\* A step of the party at work that keeps the actor.
LEMMA KeepsShape ==
  ASSUME TypeOK, SessionShape, NEW x \in Party, pc[x] \in Working,
         NEW q \in Points, Goto(x, q), actor' = actor, Owns(x)'
  PROVE  SessionShape'
<1>1. \A y \in Party \ {x} : pc'[y] = pc[y] /\ pc[y] \notin Working
  BY Alone DEF TypeOK, Goto
<1>2. \A y \in Party \ {x} : Owns(y)'
  BY <1>1 DEF Owns, Working, Points, Interruptible
<1>3. actor' # Free  BY Alone
<1>. QED  BY <1>2, <1>3 DEF SessionShape

\* A step that leaves the session alone and moves between points of no work.
LEMMA IdleShape ==
  ASSUME TypeOK, SessionShape, NEW x \in Party, NEW q \in Points \ Working, Goto(x, q),
         pc[x] \notin Working, UNCHANGED <<actor, ready, starting, held, cont>>
  PROVE  SessionShape'
<1>1. \A y \in Party \ {x} : pc'[y] = pc[y]  BY DEF TypeOK, Goto
<1>2. pc'[x] = q  BY DEF TypeOK, Goto
<1>3. \A y \in Party \ {x} : Owns(y)'  BY <1>1 DEF SessionShape, Owns
<1>4. Owns(x)'  BY <1>2 DEF Owns, Working, Points, Interruptible
<1>. QED  BY <1>3, <1>4 DEF SessionShape

\* The party at work releases the actor, with nothing starting or terminating.
LEMMA ReleaseShape ==
  ASSUME TypeOK, SessionShape, NEW x \in Party, pc[x] \in Working,
         NEW q \in Points \ Working, Goto(x, q), actor' = Free, starting' = 0, held' = 0
  PROVE  SessionShape'
<1>1. \A y \in Party \ {x} : pc'[y] = pc[y] /\ pc[y] \notin Working
  BY Alone DEF TypeOK, Goto
<1>2. pc'[x] = q  BY DEF TypeOK, Goto
<1>3. \A y \in Party : Owns(y)'
  BY <1>1, <1>2 DEF Owns, Working, Points, Interruptible
<1>. QED  BY <1>3 DEF SessionShape

\* The free actor is taken.
LEMMA TakeShape ==
  ASSUME TypeOK, SessionShape, NEW x \in Party, actor = Free, actor' = x,
         NEW q \in {"enter", "terminate"}, Goto(x, q),
         UNCHANGED <<ready, starting, held, cont>>
  PROVE  SessionShape'
<1>1. starting = 0 /\ held = 0 /\ x # Free
  BY ConstantsAssumption DEF SessionShape, Party
<1>2. \A y \in Party \ {x} : pc'[y] = pc[y] /\ pc[y] \notin Working
  BY ConstantsAssumption DEF SessionShape, Owns, TypeOK, Goto, Party
<1>3. pc'[x] = q  BY DEF TypeOK, Goto
<1>4. \A y \in Party : Owns(y)'
  BY <1>1, <1>2, <1>3 DEF Owns, Working, Points, Interruptible
<1>. QED  BY <1>1, <1>4 DEF SessionShape

\* Every step keeps the shape of the session.
LEMMA ShapeStep ==
  ASSUME TypeOK, SessionShape, Next
  PROVE  SessionShape'
<1>. USE DEF Working, Points, Interruptible
<1>1. ASSUME NEW c \in Callers, Refuse(c) PROVE SessionShape'
  BY <1>1, IdleShape DEF Refuse, brokerVars, sessionVars, Party
<1>2. ASSUME NEW c \in Callers, Admit(c) PROVE SessionShape'
  BY <1>2, TakeShape DEF Admit, Refusal, sessionVars, Party
<1>3. ASSUME NEW c \in Callers, EnterDead(c) PROVE SessionShape'
  <2>1. pc[c] \in Working /\ Goto(c, "reaping") /\ actor' = actor
    BY <1>3 DEF EnterDead, brokerVars
  <2>2. Owns(c)'
    BY <1>3, <2>1, Alone DEF EnterDead, BeginReap, Owns, SessionShape, TypeOK, Goto,
       Party
  <2>. QED  BY <2>1, <2>2, KeepsShape DEF Party
<1>4. ASSUME NEW c \in Callers, EnterLive(c) PROVE SessionShape'
  <2>1. /\ pc[c] \in Working /\ actor' = actor
        /\ Goto(c, IF ready = 0 THEN "negotiate" ELSE "sending")
    BY <1>4 DEF EnterLive, brokerVars
  <2>2. Owns(c)'
    BY <1>4, <2>1, Alone DEF EnterLive, Owns, SessionShape, TypeOK, Goto, Party,
       sessionVars
  <2>. QED  BY <2>1, <2>2, KeepsShape DEF Party
<1>5. ASSUME NEW c \in Callers, SpawnFails(c) PROVE SessionShape'
  <2>1. pc[c] \in Working /\ actor' = actor  BY <1>5 DEF SpawnFails, brokerVars
  <2>2. PICK q \in Points : Goto(c, q)
    BY <1>5 DEF SpawnFails, FailTo
  <2>3. pc'[c] = q  BY <2>2 DEF TypeOK, Goto, Party
  <2>4. Owns(c)'
    BY <1>5, <2>1, <2>3, Alone DEF SpawnFails, FailTo, sessionVars, Owns, SessionShape,
       TypeOK, Goto, Party
  <2>. QED  BY <2>1, <2>2, <2>4, KeepsShape DEF Party
<1>6. ASSUME NEW c \in Callers, Spawn(c) PROVE SessionShape'
  <2>1. pc[c] \in Working /\ actor' = actor  BY <1>6 DEF Spawn, brokerVars
  <2>2. PICK q \in Points : Goto(c, q)
    BY <1>6 DEF Spawn, FailTo
  <2>3. pc'[c] = q  BY <2>2 DEF TypeOK, Goto, Party
  <2>4. Owns(c)'
    BY <1>6, <2>1, <2>3, Alone DEF Spawn, FailTo, BeginReap, Owns, SessionShape, TypeOK,
       Goto, Party
  <2>. QED  BY <2>1, <2>2, <2>4, KeepsShape DEF Party
<1>7. ASSUME NEW c \in Callers, DiscoverReply(c) PROVE SessionShape'
  <2>1. pc[c] \in Working /\ actor' = actor  BY <1>7 DEF DiscoverReply, brokerVars
  <2>2. PICK q \in Points : Goto(c, q)
    BY <1>7 DEF DiscoverReply, LegacyInitialize, FailTo
  <2>3. pc'[c] = q  BY <2>2 DEF TypeOK, Goto, Party
  <2>4. Owns(c)'
    BY <1>7, <2>1, <2>3, Alone DEF DiscoverReply, LegacyInitialize, FailTo, BeginReap,
       Owns, SessionShape, TypeOK, Goto, Party
  <2>. QED  BY <2>1, <2>2, <2>4, KeepsShape DEF Party
<1>8. ASSUME NEW c \in Callers, InitializeReply(c) PROVE SessionShape'
  <2>1. pc[c] \in Working /\ actor' = actor  BY <1>8 DEF InitializeReply, brokerVars
  <2>2. PICK q \in Points : Goto(c, q)
    BY <1>8 DEF InitializeReply, FailTo
  <2>3. pc'[c] = q  BY <2>2 DEF TypeOK, Goto, Party
  <2>4. Owns(c)'
    BY <1>8, <2>1, <2>3, Alone DEF InitializeReply, FailTo, BeginReap, Owns,
       SessionShape, TypeOK, Goto, Party
  <2>. QED  BY <2>1, <2>2, <2>4, KeepsShape DEF Party
<1>9. ASSUME NEW c \in Callers, SendRequest(c) PROVE SessionShape'
  <2>1. pc[c] \in Working /\ actor' = actor  BY <1>9 DEF SendRequest, brokerVars
  <2>2. PICK q \in Points : Goto(c, q)
    BY <1>9 DEF SendRequest, FailTo
  <2>3. pc'[c] = q  BY <2>2 DEF TypeOK, Goto, Party
  <2>4. Owns(c)'
    BY <1>9, <2>1, <2>3, Alone DEF SendRequest, FailTo, Owns, SessionShape, TypeOK,
       Goto, Party
  <2>. QED  BY <2>1, <2>2, <2>4, KeepsShape DEF Party
<1>10. ASSUME NEW c \in Callers, TooManyPages(c) PROVE SessionShape'
  <2>1. pc[c] \in Working /\ actor' = actor  BY <1>10 DEF TooManyPages, brokerVars
  <2>2. PICK q \in Points : Goto(c, q)
    BY <1>10 DEF TooManyPages, FailTo
  <2>3. pc'[c] = q  BY <2>2 DEF TypeOK, Goto, Party
  <2>4. Owns(c)'
    BY <1>10, <2>1, <2>3, Alone DEF TooManyPages, FailTo, sessionVars, Owns,
       SessionShape, TypeOK, Goto, Party
  <2>. QED  BY <2>1, <2>2, <2>4, KeepsShape DEF Party
<1>11. ASSUME NEW c \in Callers, RequestReply(c) PROVE SessionShape'
  <2>1. /\ pc[c] = "reply" /\ pc[c] \in Working /\ starting = 0 /\ held = 0 /\ ready # 0
        /\ UNCHANGED <<ready, starting, held, cont>>
    BY <1>11 DEF RequestReply, SessionShape, Owns, Party
  <2>2. CASE Goto(c, "done") /\ Release
    BY <2>1, <2>2, ReleaseShape DEF Release, Party
  <2>3. CASE actor' = actor /\ \E q \in {"sending", "terminate"} : Goto(c, q)
    <3>1. PICK q \in {"sending", "terminate"} : Goto(c, q)  BY <2>3
    <3>2. pc'[c] = q  BY <3>1 DEF TypeOK, Goto, Party
    <3>3. Owns(c)'  BY <2>1, <2>3, <3>2, Alone DEF Owns, Party
    <3>. QED  BY <2>1, <2>3, <3>1, <3>3, KeepsShape DEF Party
  <2>. QED  BY <1>11, <2>2, <2>3 DEF RequestReply, FailTo
<1>12. ASSUME NEW c \in Callers, Interrupt(c) PROVE SessionShape'
  <2>1. pc[c] \in Working /\ actor' = actor  BY <1>12 DEF Interrupt, brokerVars
  <2>2. PICK q \in Points : Goto(c, q)
    BY <1>12 DEF Interrupt
  <2>3. pc'[c] = q  BY <2>2 DEF TypeOK, Goto, Party
  <2>4. Owns(c)'
    BY <1>12, <2>1, <2>3, Alone DEF Interrupt, Interruptible, Owns, SessionShape,
       TypeOK, Goto, Party
  <2>. QED  BY <2>1, <2>2, <2>4, KeepsShape DEF Party
<1>13. ASSUME NEW c \in Callers, CancelSend(c) PROVE SessionShape'
  <2>1. pc[c] \in Working /\ actor' = actor  BY <1>13 DEF CancelSend, brokerVars
  <2>2. PICK q \in Points : Goto(c, q)
    BY <1>13 DEF CancelSend
  <2>3. pc'[c] = q  BY <2>2 DEF TypeOK, Goto, Party
  <2>4. Owns(c)'
    BY <1>13, <2>1, <2>3, Alone DEF CancelSend, sessionVars, Owns, SessionShape, TypeOK,
       Goto, Party
  <2>. QED  BY <2>1, <2>2, <2>4, KeepsShape DEF Party
<1>14. ASSUME NEW c \in Callers, ReturnError(c) PROVE SessionShape'
  BY <1>14, ReleaseShape DEF ReturnError, Release, SessionShape, Owns, Party
<1>15. ASSUME NEW x \in Party, TakeNext(x) PROVE SessionShape'
  <2>1. pc[x] \in Working /\ actor' = actor  BY <1>15 DEF TakeNext, brokerVars
  <2>2. PICK q \in Points : Goto(x, q)
    BY <1>15 DEF TakeNext
  <2>3. pc'[x] = q  BY <2>2 DEF TypeOK, Goto
  <2>4. Owns(x)'
    BY <1>15, <2>1, <2>3, Alone DEF TakeNext, TypeOK, Owns, SessionShape, TypeOK, Goto
  <2>. QED  BY <2>1, <2>2, <2>4, KeepsShape
<1>16. ASSUME NEW x \in Party, Kill(x) PROVE SessionShape'
  <2>1. pc[x] \in Working /\ actor' = actor  BY <1>16 DEF Kill, brokerVars
  <2>2. PICK q \in Points : Goto(x, q)
    BY <1>16 DEF Kill, TypeOK, Continuations
  <2>3. pc'[x] = q  BY <2>2 DEF TypeOK, Goto
  <2>4. Owns(x)'
    BY <1>16, <2>1, <2>3, Alone DEF Kill, Continuations, Owns, SessionShape, TypeOK,
       Goto
  <2>. QED  BY <2>1, <2>2, <2>4, KeepsShape
<1>17. ASSUME Cancel PROVE SessionShape'
  BY <1>17, IdleShape DEF Cancel, sessionVars, Party
<1>18. ASSUME Shutdown PROVE SessionShape'
  BY <1>18, TakeShape DEF Shutdown, sessionVars, Party
<1>19. ASSUME Exit PROVE SessionShape'
  BY <1>19, ReleaseShape DEF Exit, SessionShape, Owns, Party
<1>20. ASSUME Upstream PROVE SessionShape'
  BY <1>20 DEF Upstream, Answer, ProcessExits, CloseStdout, ReadStdin, callerVars,
               brokerVars, sessionVars, SessionShape, Owns
<1>. QED  BY <1>1, <1>2, <1>3, <1>4, <1>5, <1>6, <1>7, <1>8, <1>9, <1>10, <1>11, <1>12,
             <1>13, <1>14, <1>15, <1>16, <1>17, <1>18, <1>19, <1>20 DEF Next, CallerNext
-----------------------------------------------------------------------------
(* Ownership of processes. *)

\* No step loses a running process.
LEMMA StrayStep ==
  ASSUME TypeOK, SessionShape, NoStrayProcess, Next
  PROVE  NoStrayProcess'
<1>. USE DEF NoStrayProcess, Running
<1>1. ASSUME proc' = proc,
             \A p \in Proc : p \in {ready, starting, held} \cup abandoned =>
                             p \in {ready', starting', held'} \cup abandoned'
      PROVE  NoStrayProcess'
  BY <1>1
<1>2. ASSUME NEW c \in Callers,
             Refuse(c) \/ Admit(c) \/ EnterLive(c) \/ SpawnFails(c) \/ SendRequest(c)
             \/ TooManyPages(c) \/ RequestReply(c) \/ CancelSend(c) \/ ReturnError(c)
      PROVE  NoStrayProcess'
  <2>1. UNCHANGED <<proc, ready, starting, held, abandoned>>
    BY <1>2 DEF Refuse, Admit, EnterLive, SpawnFails, SendRequest, TooManyPages,
                RequestReply, CancelSend, ReturnError, sessionVars, worldVars
  <2>. QED  BY <2>1
<1>3. ASSUME NEW c \in Callers, EnterDead(c) PROVE NoStrayProcess'
  <2>1. held = 0  BY <1>3 DEF EnterDead, SessionShape, Owns, Party
  <2>. QED  BY <1>1, <1>3, <2>1 DEF EnterDead, BeginReap, worldVars, Proc
<1>4. ASSUME NEW c \in Callers, Spawn(c) PROVE NoStrayProcess'
  <2>1. ready = 0 /\ starting = 0 /\ held = 0
    BY <1>4 DEF Spawn, SessionShape, Owns, Party
  <2>2. /\ proc' = [proc EXCEPT ![spawned + 1] = "up"]
        /\ spawned + 1 \in {starting', held'} /\ abandoned' = abandoned
    BY <1>4 DEF Spawn, BeginReap
  <2>3. \A p \in Proc : Running(p)' => p = spawned + 1 \/ Running(p)
    BY <2>2 DEF TypeOK
  <2>. QED  BY <2>1, <2>2, <2>3 DEF Proc
<1>5. ASSUME NEW c \in Callers, DiscoverReply(c) PROVE NoStrayProcess'
  <2>1. ready = 0 /\ held = 0  BY <1>5 DEF DiscoverReply, SessionShape, Owns, Party
  <2>2. proc' = proc /\ abandoned' = abandoned  BY <1>5 DEF DiscoverReply
  <2>3. starting \in {ready', starting', held'}
    BY <1>5 DEF DiscoverReply, LegacyInitialize, BeginReap
  <2>. QED  BY <1>1, <2>1, <2>2, <2>3 DEF Proc
<1>6. ASSUME NEW c \in Callers, InitializeReply(c) PROVE NoStrayProcess'
  <2>1. ready = 0 /\ held = 0  BY <1>6 DEF InitializeReply, SessionShape, Owns, Party
  <2>2. proc' = proc /\ abandoned' = abandoned  BY <1>6 DEF InitializeReply
  <2>3. starting \in {ready', starting', held'}  BY <1>6 DEF InitializeReply, BeginReap
  <2>. QED  BY <1>1, <2>1, <2>2, <2>3 DEF Proc
<1>7. ASSUME NEW c \in Callers, Interrupt(c) PROVE NoStrayProcess'
  <2>1. UNCHANGED <<proc, ready, starting>>  BY <1>7 DEF Interrupt
  <2>2. CASE pc[c] = "reaping"
    BY <1>1, <1>7, <2>1, <2>2 DEF Interrupt
  <2>3. CASE pc[c] # "reaping"
    <3>1. held = 0
      BY <1>7, <2>3 DEF Interrupt, Interruptible, SessionShape, Owns, Party
    <3>. QED  BY <1>1, <1>7, <2>1, <2>3, <3>1 DEF Interrupt, Proc
  <2>. QED  BY <2>2, <2>3
<1>8. ASSUME NEW x \in Party, TakeNext(x) PROVE NoStrayProcess'
  <2>1. held = 0  BY <1>8 DEF TakeNext, SessionShape, Owns
  <2>2. proc' = proc /\ abandoned' = abandoned  BY <1>8 DEF TakeNext, worldVars
  <2>3. {ready, starting} \subseteq {ready', starting', held', 0}  BY <1>8 DEF TakeNext
  <2>. QED  BY <1>1, <2>1, <2>2, <2>3 DEF Proc
<1>9. ASSUME NEW x \in Party, Kill(x) PROVE NoStrayProcess'
  <2>1. /\ proc' = [proc EXCEPT ![held] = "gone"]
        /\ UNCHANGED <<ready, starting, abandoned>>
    BY <1>9 DEF Kill
  <2>2. \A p \in Proc : Running(p)' => p # held /\ Running(p)  BY <2>1 DEF TypeOK
  <2>. QED  BY <2>1, <2>2
<1>10. ASSUME Cancel \/ Shutdown \/ Exit PROVE NoStrayProcess'
  <2>1. UNCHANGED <<proc, ready, starting, held, abandoned>>
    BY <1>10 DEF Cancel, Shutdown, Exit, sessionVars, worldVars
  <2>. QED  BY <2>1
<1>11. ASSUME NEW p \in Proc, Answer(p) \/ CloseStdout(p) \/ ReadStdin(p)
       PROVE  NoStrayProcess'
  <2>1. UNCHANGED <<proc, ready, starting, held, abandoned>>
    BY <1>11 DEF Answer, CloseStdout, ReadStdin, sessionVars
  <2>. QED  BY <2>1
<1>12. ASSUME NEW p \in Proc, ProcessExits(p) PROVE NoStrayProcess'
  <2>1. UNCHANGED <<ready, starting, held, abandoned>>
    BY <1>12 DEF ProcessExits, sessionVars
  <2>2. \A q \in Proc : Running(q)' => Running(q)  BY <1>12 DEF ProcessExits, TypeOK
  <2>. QED  BY <2>1, <2>2
<1>. QED  BY <1>2, <1>3, <1>4, <1>5, <1>6, <1>7, <1>8, <1>9, <1>10, <1>11, <1>12
          DEF Next, CallerNext, Upstream
-----------------------------------------------------------------------------
(* The invariant. *)

IInv == TypeOK /\ SlotsConserved /\ SessionShape /\ NoStrayProcess

\* The initial state satisfies the inductive invariant.
LEMMA InitInv == Init => IInv
<1>. SUFFICES ASSUME Init PROVE IInv  OBVIOUS
<1>. USE ConstantsAssumption DEF Init
<1>1. TypeOK
  <2>1. pc \in [Party -> Points]  BY DEF Points, Interruptible, Party
  <2>2. outcome \in [Callers -> Codes] /\ cont \in Continuations
    BY DEF Codes, Continuations
  <2>3. wire \in [Proc -> Seq(Messages)]  OBVIOUS
  <2>4. /\ pages \in [Callers -> Nat] /\ answers \in [Callers -> SUBSET Callers]
        /\ proc \in [Proc -> {"unused", "up", "leaderless", "gone"}]
        /\ revision \in [Proc -> {"none", "modern", "legacy"}]
        /\ asked \in [Proc -> SUBSET Requests]
    OBVIOUS
  <2>5. /\ slots \in 0 .. Slots /\ ready \in 0 .. MaxProcs /\ spawned \in 0 .. MaxProcs
        /\ starting \in 0 .. MaxProcs /\ held \in 0 .. MaxProcs
        /\ nextId \in Nat /\ active \in Nat
    OBVIOUS
  <2>. QED  BY <2>1, <2>2, <2>3, <2>4, <2>5 DEF TypeOK
<1>2. SlotsConserved
  <2>1. InFlight = {}  BY DEF InFlight, Party
  <2>. QED  BY <2>1, FS_EmptySet DEF SlotsConserved
<1>3. SessionShape  BY DEF SessionShape, Owns, Working, Party
<1>4. NoStrayProcess  BY DEF NoStrayProcess, Running
<1>. QED  BY <1>1, <1>2, <1>3, <1>4 DEF IInv

\* Every step preserves it.
LEMMA StepInv == IInv /\ [Next]_vars => IInv'
<1>. SUFFICES ASSUME IInv, [Next]_vars PROVE IInv'  OBVIOUS
<1>1. CASE Next
  BY <1>1, SlotsStep, TypeStep, ShapeStep, StrayStep DEF IInv
<1>2. CASE UNCHANGED vars
  BY <1>2 DEF IInv, vars, callerVars, brokerVars, sessionVars, worldVars, TypeOK,
              SlotsConserved, InFlight, SessionShape, Owns, NoStrayProcess, Running
<1>. QED  BY <1>1, <1>2

\* The inductive invariant holds of every behaviour.
THEOREM Invariance == Spec => []IInv
  BY InitInv, StepInv, PTL DEF Spec

\* Every variable keeps its type; in particular a permit is never given back
\* twice and a reply is only attributed to a caller.
THEOREM TypeCorrect == Spec => []TypeOK
  BY Invariance, PTL DEF IInv

\* Every exit of a call (refused, answered, failed, timed out, cancelled) gives
\* back exactly the permit it took.
THEOREM SlotsAreConserved == Spec => []SlotsConserved
  BY Invariance, PTL DEF IInv

\* One holder of the actor, and no process field of the session overwritten.
THEOREM ShapeHolds == Spec => []SessionShape
  BY Invariance, PTL DEF IInv

\* Every running process group is owned by the session or by a termination in
\* progress, or its termination was dropped half-way.
THEOREM NoProcessIsStray == Spec => []NoStrayProcess
  BY Invariance, PTL DEF IInv
=============================================================================
