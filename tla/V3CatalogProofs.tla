-------------------------- MODULE V3CatalogProofs --------------------------
(***************************************************************************)
(* What V3Catalog guarantees for every number of lists, calls and targets,  *)
(* and every history of the upstreams: the types, and the four safety       *)
(* properties of the catalog. None is inductive by itself, because each     *)
(* speaks of the catalog while no refresh is being reported; the invariant  *)
(* says what a refresh in progress holds instead.                           *)
(*   Turns      who has the sequence lock, and what a handler has to do     *)
(*   Current    the catalog, or the draft that replaces it, has the latest  *)
(*              discovery of each target                                    *)
(*   Known      what is fresh was discovered, and so was a verdict          *)
(*   Informed   the client knows, or a handler is about to tell it          *)
(*   Announced  a change is unread, flagged, or about to be discovered      *)
(***************************************************************************)
EXTENDS V3Catalog, WellFoundedInduction, TLAPS

Refreshing(r) == pc[r] \in {"refresh", "discover", "discovering"}
InTurn(r) == Refreshing(r) \/ pc[r] \in {"write", "notify", "judge", "take", "reply"}

\* The sequence lock is held from the start of a refresh to the end of its report.
Turn(r) ==
  /\ InTurn(r) <=> sequence = r
  /\ pc[r] = "write" => r \in Lists
  /\ phase[r] = "after" => r \in Calls
  /\ pc[r] \in {"waiting", "judge", "execute", "executing", "after", "take", "reply"}
       => r \in Calls
  /\ pc[r] = "judge" => phase[r] = "before"
  /\ pc[r] \in {"discover", "discovering"} => todo[r] # {}
  /\ Refreshing(r) /\ r \in Calls => todo[r] \subseteq {TargetOf[r]}
Turns == \A r \in Requests : Turn(r)

\* Each tool is the projection of the last successful discovery of its target.
Latest(projections) ==
  \A t \in Targets : latest[t] # 0 => projections[t] = Project(latest[t])
Current ==
  /\ \A r \in Requests : Refreshing(r) => Latest(draft[r].tools)
  /\ (\A r \in Requests : ~Refreshing(r)) => Latest(tools)

\* A target is fresh, or a call has a verdict, because of a discovery.
Judged(c) ==
  phase[c] = "before" /\ available[c] =>
    /\ Refreshing(c) /\ TargetOf[c] \notin todo[c] => latest[TargetOf[c]] # 0
    /\ pc[c] \in {"notify", "judge"} => \E v \in seen[TargetOf[c]] : verdict[c] = Project(v)
Discovered(ts) == \A t \in ts : latest[t] # 0
Known ==
  /\ \A t \in Targets : latest[t] # 0 => latest[t] \in seen[t]
  /\ Discovered(fresh)
  /\ \A r \in Requests : Refreshing(r) => Discovered(draft[r].fresh)
  /\ \A c \in Calls : Judged(c)

\* What the client was told is current, or a handler is still to tell it.
Telling(r) == pc[r] = "write" \/ (pc[r] = "notify" /\ report[r].changed)
Informed ==
  /\ (\A r \in Requests : ~Telling(r)) => (listed => told = generation \/ alerted)
  /\ \A r \in Requests :
       /\ Refreshing(r) => draft[r].listed = listed
       /\ pc[r] = "write" => report[r].generation = generation

\* A fresh target was discovered at its version, or there is an announcement to look at;
\* a taken one is looked at by the refresh it asked for.
Noticed(t) ==
  Live(t) /\ conn[t] = origin[t] /\ t \notin flag \cup unread => latest[t] = version[t]
Numbered(t) == origin[t] <= conns[t] /\ conn[t] <= conns[t]
Looking(r) == IF phase[r] = "after" THEN todo[r] ELSE {}
Announced ==
  /\ \A t \in Targets : Numbered(t)
  /\ \A r \in Requests : Refreshing(r) => \A t \in draft[r].fresh \ Looking(r) : Noticed(t)
  /\ (\A r \in Requests : ~Refreshing(r)) => \A t \in fresh : Noticed(t)

IInv == TypeOK /\ Turns /\ Current /\ Known /\ Informed /\ Announced

-----------------------------------------------------------------------------
(* Types. *)

\* A set of targets has a first one.
LEMMA NextTarget ==
  ASSUME NEW S \in SUBSET Targets, S # {}
  PROVE  Next1(S) \in S
<1>. DEFINE R == OpToRel(<, Nat)
<1>1. PICK t \in S : \A u \in S : <<u, t>> \notin R
  BY NatLessThanWellFounded, WFMin, CatalogAssumption
<1>2. \A u \in S : ~ (u < t)  BY <1>1, CatalogAssumption DEF OpToRel
<1>3. \A u \in S : t <= u  BY <1>2, CatalogAssumption
<1>. QED  BY <1>3 DEF Next1

\* What is projected from a definition is the state of a tool.
LEMMA ProjectType ==
  ASSUME NEW v \in Versions
  PROVE  Project(v) \in ToolState
BY CatalogAssumption DEF Project, ToolState, Issues

\* A function stays typed when one of its values changes.
LEMMA Updated ==
  ASSUME NEW S, NEW T, NEW f \in [S -> T], NEW x \in S, NEW y \in T
  PROVE  [f EXCEPT ![x] = y] \in [S -> T]
OBVIOUS

\* The states that stand for nothing have their types.
LEMMA ConstantTypes ==
  /\ Unavailable \in ToolState
  /\ NoDraft \in [tools : [Targets -> ToolState], fresh : SUBSET Targets, listed : BOOLEAN]
  /\ NoReport \in [generation : Nat, changed : BOOLEAN]
BY DEF ToolState, NoDraft, NoReport

\* A refresh begins with a draft of the snapshot.
LEMMA ReadStateTypes ==
  ASSUME TypeOK, NEW r \in Requests, NEW ts \in SUBSET Targets, ReadState(r, ts)
  PROVE  /\ todo' \in [Requests -> SUBSET Targets]
         /\ draft' \in [Requests -> [tools : [Targets -> ToolState], fresh : SUBSET Targets,
                                     listed : BOOLEAN]]
         /\ available' \in [Requests -> BOOLEAN]
<1>1. [tools |-> tools, fresh |-> fresh, listed |-> listed]
        \in [tools : [Targets -> ToolState], fresh : SUBSET Targets, listed : BOOLEAN]
  BY DEF TypeOK
<1>. QED  BY <1>1, Updated DEF TypeOK, ReadState

\* A draft stays typed when a refresh writes a tool and the fresh targets.
LEMMA DraftUpdated ==
  ASSUME NEW t \in Targets, NEW x \in ToolState, NEW r \in Requests,
         draft \in [Requests -> [tools : [Targets -> ToolState], fresh : SUBSET Targets,
                                 listed : BOOLEAN]]
  PROVE  /\ [draft EXCEPT ![r].fresh = @ \ {t}]
              \in [Requests -> [tools : [Targets -> ToolState], fresh : SUBSET Targets,
                                listed : BOOLEAN]]
         /\ [draft EXCEPT ![r].tools[t] = x, ![r].fresh = @ \cup {t}]
              \in [Requests -> [tools : [Targets -> ToolState], fresh : SUBSET Targets,
                                listed : BOOLEAN]]
OBVIOUS

\* A target that cannot be discovered leaves a draft.
LEMMA StaleTypes ==
  ASSUME TypeOK, NEW r \in Requests, NEW t \in Targets, Stale(r, t)
  PROVE  /\ draft' \in [Requests -> [tools : [Targets -> ToolState], fresh : SUBSET Targets,
                                     listed : BOOLEAN]]
         /\ available' \in [Requests -> BOOLEAN]
BY ConstantTypes, DraftUpdated, Updated DEF TypeOK, Stale

\* What happens to a connection leaves its variables typed.
LEMMA SessionTypes ==
  ASSUME TypeOK, NEW r \in Requests, NEW t \in Targets,
         Occupy(r, t) \/ ReadUpTo(t) \/ Terminate(t)
  PROVE  /\ actor' \in [Targets -> Requests \cup {Free}]
         /\ conn' \in [Targets -> Nat] /\ conns' \in [Targets -> Nat]
         /\ dead' \subseteq Targets /\ flag' \subseteq Targets /\ unread' \subseteq Targets
<1>1. CASE Occupy(r, t)
  <2>1. CASE Live(t)  BY <1>1, <2>1 DEF TypeOK, Occupy
  <2>2. CASE ~Live(t)
    <3>1. conns[t] + 1 \in Nat  BY DEF TypeOK
    <3>2. /\ actor' \in [Targets -> Requests \cup {Free}]
          /\ conn' \in [Targets -> Nat] /\ conns' \in [Targets -> Nat]
      BY <1>1, <2>2, <3>1 DEF TypeOK, Occupy
    <3>. QED  BY <1>1, <2>2, <3>2 DEF TypeOK, Occupy
  <2>. QED  BY <2>1, <2>2
<1>2. CASE ReadUpTo(t)  BY <1>2 DEF TypeOK, ReadUpTo
<1>3. CASE Terminate(t)  BY <1>3 DEF TypeOK, Terminate
<1>. QED  BY <1>1, <1>2, <1>3

\* A request that ends leaves nothing behind but its types.
LEMMA ForgetTypes ==
  ASSUME TypeOK, NEW r \in Requests, Forget(r)
  PROVE  /\ phase' \in [Requests -> {"before", "after"}]
         /\ verdict' \in [Requests -> ToolState]
         /\ available' \in [Requests -> BOOLEAN]
BY ConstantTypes, Updated DEF TypeOK, Forget

\* Every step keeps the types.
LEMMA TypeStep ==
  ASSUME TypeOK, Turns, Next
  PROVE  TypeOK'
<1>. USE CatalogAssumption
         DEF TypeOK, Goto, Answer, Points, Answers, handlerVars, catalogVars, clientVars,
             sessionVars, upstreamVars, historyVars, LockSequence
<1>1. ASSUME NEW r \in Requests, StartList(r) PROVE TypeOK'
  BY <1>1, ReadStateTypes DEF StartList
<1>2. ASSUME NEW r \in Requests, AcceptCall(r) PROVE TypeOK'
  BY <1>2 DEF AcceptCall
<1>3. ASSUME NEW r \in Requests, StartCall(r) PROVE TypeOK'
  <2>1. {TargetOf[r]} \in SUBSET Targets  BY <1>3 DEF StartCall, Turns, Turn
  <2>. QED  BY <1>3, <2>1, ReadStateTypes DEF StartCall
<1>4. ASSUME NEW r \in Requests, RejectCall(r) PROVE TypeOK'
  BY <1>4 DEF RejectCall
<1>5. ASSUME NEW r \in Requests, Consider(r) PROVE TypeOK'
  <2>1. [todo EXCEPT ![r] = @ \ {Next1(todo[r])}] \in [Requests -> SUBSET Targets]  OBVIOUS
  <2>. QED  BY <1>5, <2>1 DEF Consider
<1>6. ASSUME NEW r \in Requests, Rediscover(r) PROVE TypeOK'
  BY <1>6 DEF Rediscover
<1>7. ASSUME NEW r \in Requests, DiscoverRefused(r) PROVE TypeOK'
  <2>1. Next1(todo[r]) \in Targets  BY <1>7, NextTarget DEF DiscoverRefused, Turns, Turn
  <2>2. [todo EXCEPT ![r] = @ \ {Next1(todo[r])}] \in [Requests -> SUBSET Targets]  OBVIOUS
  <2>. QED  BY <1>7, <2>1, <2>2, StaleTypes DEF DiscoverRefused
<1>8. ASSUME NEW r \in Requests, DiscoverBegin(r) PROVE TypeOK'
  <2>1. Next1(todo[r]) \in Targets  BY <1>8, NextTarget DEF DiscoverBegin, Turns, Turn
  <2>. QED  BY <1>8, <2>1, SessionTypes DEF DiscoverBegin
<1>9. ASSUME NEW r \in Requests, DiscoverOk(r) PROVE TypeOK'
  <2>. DEFINE t == Next1(todo[r])
  <2>1. t \in Targets  BY <1>9, NextTarget DEF DiscoverOk, Turns, Turn
  <2>2. todo' \in [Requests -> SUBSET Targets]  BY <1>9 DEF DiscoverOk
  <2>3. /\ latest' \in [Targets -> Versions \cup {0}] /\ origin' \in [Targets -> Nat]
        /\ seen' \in [Targets -> SUBSET Versions]
    BY <1>9, <2>1 DEF DiscoverOk
  <2>4. draft' \in [Requests -> [tools : [Targets -> ToolState], fresh : SUBSET Targets,
                                 listed : BOOLEAN]]
    <3>1. Project(version[t]) \in ToolState  BY <2>1, ProjectType
    <3>. HIDE DEF t
    <3>2. draft' = [draft EXCEPT ![r].tools[t] = Project(version[t]), ![r].fresh = @ \cup {t}]
      BY <1>9 DEF DiscoverOk, t
    <3>3. draft \in [Requests -> [tools : [Targets -> ToolState], fresh : SUBSET Targets,
                                  listed : BOOLEAN]]
      OBVIOUS
    <3>. QED  BY <2>1, <3>1, <3>2, <3>3, DraftUpdated
  <2>. QED  BY <1>9, <2>1, <2>2, <2>3, <2>4, SessionTypes DEF DiscoverOk
<1>10. ASSUME NEW r \in Requests, DiscoverFails(r) PROVE TypeOK'
  <2>1. Next1(todo[r]) \in Targets  BY <1>10, NextTarget DEF DiscoverFails, Turns, Turn
  <2>2. [todo EXCEPT ![r] = @ \ {Next1(todo[r])}] \in [Requests -> SUBSET Targets]  OBVIOUS
  <2>. QED  BY <1>10, <2>1, <2>2, StaleTypes, SessionTypes DEF DiscoverFails
<1>11. ASSUME NEW r \in Requests, Adopt(r) PROVE TypeOK'
  <2>1. generation' \in Nat /\ listed' \in BOOLEAN  BY <1>11 DEF Adopt
  <2>2. [generation |-> generation', changed |-> draft[r].listed /\ draft[r].tools # tools]
          \in [generation : Nat, changed : BOOLEAN]
    BY <2>1
  <2>3. report' \in [Requests -> [generation : Nat, changed : BOOLEAN]]
    BY <1>11, <2>2, Updated DEF Adopt
  <2>4. verdict' \in [Requests -> ToolState]
    <3>1. CASE r \in Calls
      <4>0. draft[r].tools \in [Targets -> ToolState]  OBVIOUS
      <4>1. draft[r].tools[TargetOf[r]] \in ToolState
        <5>1. TargetOf[r] \in Targets  BY <3>1
        <5>. QED  BY <4>0, <5>1
      <4>2. \/ verdict' = [verdict EXCEPT ![r] = draft[r].tools[TargetOf[r]]]
            \/ verdict' = verdict
        BY <1>11 DEF Adopt
      <4>. QED  BY <4>1, <4>2
    <3>2. CASE r \notin Calls  BY <1>11, <3>2 DEF Adopt
    <3>. QED  BY <3>1, <3>2
  <2>5. draft' \in [Requests -> [tools : [Targets -> ToolState], fresh : SUBSET Targets,
                                 listed : BOOLEAN]]
    BY <1>11, ConstantTypes, Updated DEF Adopt
  <2>. QED  BY <1>11, <2>1, <2>3, <2>4, <2>5 DEF Adopt
<1>12. ASSUME NEW r \in Requests, WriteList(r) PROVE TypeOK'
  BY <1>12 DEF WriteList
<1>13. ASSUME NEW r \in Requests, NotifyChange(r) PROVE TypeOK'
  <2>1. report' \in [Requests -> [generation : Nat, changed : BOOLEAN]]
    BY <1>13, ConstantTypes, Updated DEF NotifyChange
  <2>2. available' \in [Requests -> BOOLEAN]  BY <1>13, Updated DEF NotifyChange
  <2>3. alerted' \in BOOLEAN  BY <1>13 DEF NotifyChange
  <2>. QED  BY <1>13, <2>1, <2>2, <2>3 DEF NotifyChange
<1>14. ASSUME NEW r \in Requests, Refuse(r) PROVE TypeOK'
  BY <1>14, ForgetTypes DEF Refuse
<1>15. ASSUME NEW r \in Requests, Resolve(r) PROVE TypeOK'
  <2>1. /\ pc' \in {[pc EXCEPT ![r] = "execute"], [pc EXCEPT ![r] = "done"]}
        /\ outcome' \in {outcome, [outcome EXCEPT ![r] = "INVALID_ARGUMENTS"]}
    BY ONLY <1>15 DEF Resolve, Goto, Answer
  <2>2. pc' \in [Requests -> Points] /\ outcome' \in [Requests -> Answers]
    <3>1. {"execute", "done"} \subseteq Points /\ "INVALID_ARGUMENTS" \in Answers
      BY ONLY DEF Points, Answers
    <3>2. pc \in [Requests -> Points] /\ outcome \in [Requests -> Answers]
      BY ONLY TypeOK DEF TypeOK
    <3>. QED  BY ONLY <2>1, <3>1, <3>2, Updated
  <2>3. verdict' \in [Requests -> ToolState]  BY <1>15, ConstantTypes, Updated DEF Resolve
  <2>. QED  BY <1>15, <2>2, <2>3 DEF Resolve
<1>16. ASSUME NEW r \in Requests, ExecuteRefused(r) PROVE TypeOK'
  BY <1>16 DEF ExecuteRefused
<1>17. ASSUME NEW r \in Requests, ExecuteBegin(r) PROVE TypeOK'
  <2>1. TargetOf[r] \in Targets  BY <1>17 DEF ExecuteBegin, Turns, Turn
  <2>. QED  BY <1>17, <2>1, SessionTypes DEF ExecuteBegin
<1>18. ASSUME NEW r \in Requests, ExecuteEnds(r) PROVE TypeOK'
  <2>1. TargetOf[r] \in Targets  BY <1>18 DEF ExecuteEnds, Turns, Turn
  <2>. QED  BY <1>18, <2>1, SessionTypes DEF ExecuteEnds
<1>19. ASSUME NEW r \in Requests, LockAfter(r) PROVE TypeOK'
  BY <1>19 DEF LockAfter
<1>20. ASSUME NEW r \in Requests, TakeListChanged(r) PROVE TypeOK'
  <2>1. {TargetOf[r]} \in SUBSET Targets  BY <1>20 DEF TakeListChanged, Turns, Turn
  <2>2. CASE TargetOf[r] \in flag
    BY <1>20, <2>1, <2>2, ReadStateTypes DEF TakeListChanged
  <2>3. CASE TargetOf[r] \notin flag
    BY <1>20, <2>3 DEF TakeListChanged
  <2>. QED  BY <2>2, <2>3
<1>21. ASSUME NEW r \in Requests, Reply(r) PROVE TypeOK'
  BY <1>21, ForgetTypes DEF Reply
<1>22. ASSUME NEW t \in Targets, Change(t) PROVE TypeOK'
  <2>1. version[t] \in Nat \ {0} /\ LastVersion[t] \in Nat /\ version[t] < LastVersion[t]
    BY <1>22 DEF Change
  <2>2. version[t] + 1 \in Versions
    <3>1. version[t] + 1 \in 1 .. LastVersion[t]  BY <2>1
    <3>. QED  BY <3>1
  <2>. QED  BY <1>22, <2>2 DEF Change
<1>23. ASSUME NEW t \in Targets, Die(t) PROVE TypeOK'
  BY <1>23 DEF Die
<1>24. ASSUME Cancel PROVE TypeOK'
  BY <1>24 DEF Cancel
<1>25. ASSUME UNCHANGED vars PROVE TypeOK'
  BY <1>25 DEF vars
<1>. QED
  BY <1>1, <1>2, <1>3, <1>4, <1>5, <1>6, <1>7, <1>8, <1>9, <1>10, <1>11, <1>12, <1>13, <1>14, <1>15, <1>16, <1>17, <1>18, <1>19, <1>20, <1>21, <1>22, <1>23, <1>24, <1>25
     DEF Next, Handle, RefreshAll, RefreshForCall, RefreshAfterNotification, DiscoverTarget, Finished

-----------------------------------------------------------------------------
(* Turns. *)

\* A step of one handler leaves the locals of the others alone.
Others(r) ==
  \A q \in Requests \ {r} :
    /\ pc'[q] = pc[q] /\ phase'[q] = phase[q] /\ todo'[q] = todo[q]
    /\ draft'[q] = draft[q] /\ report'[q] = report[q]
    /\ verdict'[q] = verdict[q] /\ available'[q] = available[q]

\* A step of one request leaves what the other requests hold and draft.
LEMMA OthersStay ==
  ASSUME TypeOK, NEW r \in Requests, Handle(r)
  PROVE  Others(r)
<1>. USE DEF TypeOK, Goto, handlerVars, ReadState, Stale, Forget, Others
<1>1. CASE StartList(r)  BY <1>1 DEF StartList
<1>2. CASE AcceptCall(r)  BY <1>2 DEF AcceptCall
<1>3. CASE StartCall(r)  BY <1>3 DEF StartCall
<1>4. CASE RejectCall(r)  BY <1>4 DEF RejectCall
<1>5. CASE Consider(r)  BY <1>5 DEF Consider
<1>6. CASE Rediscover(r)  BY <1>6 DEF Rediscover
<1>7. CASE DiscoverRefused(r)  BY <1>7 DEF DiscoverRefused
<1>8. CASE DiscoverBegin(r)  BY <1>8 DEF DiscoverBegin
<1>9. CASE DiscoverOk(r)  BY <1>9 DEF DiscoverOk
<1>10. CASE DiscoverFails(r)  BY <1>10 DEF DiscoverFails
<1>11. CASE Adopt(r)  BY <1>11 DEF Adopt
<1>12. CASE WriteList(r)  BY <1>12 DEF WriteList
<1>13. CASE NotifyChange(r)  BY <1>13 DEF NotifyChange
<1>14. CASE Refuse(r)  BY <1>14 DEF Refuse
<1>15. CASE Resolve(r)  BY <1>15 DEF Resolve
<1>16. CASE ExecuteRefused(r)  BY <1>16 DEF ExecuteRefused
<1>17. CASE ExecuteBegin(r)  BY <1>17 DEF ExecuteBegin
<1>18. CASE ExecuteEnds(r)  BY <1>18 DEF ExecuteEnds
<1>19. CASE LockAfter(r)  BY <1>19 DEF LockAfter
<1>20. CASE TakeListChanged(r)  BY <1>20 DEF TakeListChanged
<1>21. CASE Reply(r)  BY <1>21 DEF Reply
<1>. QED
  BY <1>1, <1>2, <1>3, <1>4, <1>5, <1>6, <1>7, <1>8, <1>9, <1>10, <1>11, <1>12, <1>13, <1>14, <1>15, <1>16, <1>17, <1>18, <1>19, <1>20, <1>21
     DEF Handle, RefreshAll, RefreshForCall, RefreshAfterNotification, DiscoverTarget

\* Every step keeps who holds which lock.
LEMMA TurnsStep ==
  ASSUME TypeOK, Turns, Next
  PROVE  Turns'
<1>1. ASSUME NEW r \in Requests, Handle(r) PROVE Turns'
  <2>. USE CatalogAssumption DEF TypeOK, Goto, handlerVars, ReadState, Stale, Forget, LockSequence
  <2>0. Turn(r)  BY DEF Turns
  <2>. DEFINE Kept == Turn(r)' /\ (sequence' = sequence \/ {sequence, sequence'} = {Free, r})
  <2>1. ASSUME StartList(r) PROVE Kept
    BY <2>0, <2>1 DEF StartList, Turn, InTurn, Refreshing
  <2>2. ASSUME AcceptCall(r) PROVE Kept
    BY <2>0, <2>2 DEF AcceptCall, Turn, InTurn, Refreshing
  <2>3. ASSUME StartCall(r) PROVE Kept
    BY <2>0, <2>3 DEF StartCall, Turn, InTurn, Refreshing
  <2>4. ASSUME RejectCall(r) PROVE Kept
    BY <2>0, <2>4 DEF RejectCall, Turn, InTurn, Refreshing
  <2>5. ASSUME Consider(r) PROVE Kept
    BY <2>0, <2>5 DEF Consider, Turn, InTurn, Refreshing
  <2>6. ASSUME Rediscover(r) PROVE Kept
    BY <2>0, <2>6 DEF Rediscover, Turn, InTurn, Refreshing
  <2>7. ASSUME DiscoverRefused(r) PROVE Kept
    BY <2>0, <2>7 DEF DiscoverRefused, Turn, InTurn, Refreshing
  <2>8. ASSUME DiscoverBegin(r) PROVE Kept
    BY <2>0, <2>8 DEF DiscoverBegin, Turn, InTurn, Refreshing
  <2>9. ASSUME DiscoverOk(r) PROVE Kept
    BY <2>0, <2>9 DEF DiscoverOk, Turn, InTurn, Refreshing
  <2>10. ASSUME DiscoverFails(r) PROVE Kept
    BY <2>0, <2>10 DEF DiscoverFails, Turn, InTurn, Refreshing
  <2>11. ASSUME Adopt(r) PROVE Kept
    BY <2>0, <2>11 DEF Adopt, Turn, InTurn, Refreshing
  <2>12. ASSUME WriteList(r) PROVE Kept
    BY <2>0, <2>12 DEF WriteList, Turn, InTurn, Refreshing
  <2>13. ASSUME NotifyChange(r) PROVE Kept
    <3>1. r \in Lists \/ r \in Calls  BY DEF Requests
    <3>2. CASE r \in Lists
      <4>1. pc'[r] = "done" /\ sequence' = Free  BY <2>13, <3>2 DEF NotifyChange
      <4>. QED  BY <2>0, <2>13, <3>2, <4>1 DEF NotifyChange, Turn, InTurn, Refreshing
    <3>3. CASE r \in Calls
      <4>1. r \notin Lists  BY <3>3
      <4>2. /\ pc'[r] = IF phase[r] = "before" THEN "judge" ELSE "reply"
            /\ sequence' = sequence
        BY <2>13, <3>3, <4>1 DEF NotifyChange
      <4>. QED  BY <2>0, <2>13, <3>3, <4>2 DEF NotifyChange, Turn, InTurn, Refreshing
    <3>. QED  BY <3>1, <3>2, <3>3
  <2>14. ASSUME Refuse(r) PROVE Kept
    BY <2>0, <2>14 DEF Refuse, Turn, InTurn, Refreshing
  <2>15. ASSUME Resolve(r) PROVE Kept
    BY <2>0, <2>15 DEF Resolve, Turn, InTurn, Refreshing
  <2>16. ASSUME ExecuteRefused(r) PROVE Kept
    BY <2>0, <2>16 DEF ExecuteRefused, Turn, InTurn, Refreshing
  <2>17. ASSUME ExecuteBegin(r) PROVE Kept
    BY <2>0, <2>17 DEF ExecuteBegin, Turn, InTurn, Refreshing
  <2>18. ASSUME ExecuteEnds(r) PROVE Kept
    BY <2>0, <2>18 DEF ExecuteEnds, Turn, InTurn, Refreshing
  <2>19. ASSUME LockAfter(r) PROVE Kept
    BY <2>0, <2>19 DEF LockAfter, Turn, InTurn, Refreshing
  <2>20. ASSUME TakeListChanged(r) PROVE Kept
    BY <2>0, <2>20 DEF TakeListChanged, Turn, InTurn, Refreshing
  <2>21. ASSUME Reply(r) PROVE Kept
    BY <2>0, <2>21 DEF Reply, Turn, InTurn, Refreshing
  <2>. HIDE DEF Kept
  <2>22. Kept
    BY <1>1, <2>1, <2>2, <2>3, <2>4, <2>5, <2>6, <2>7, <2>8, <2>9, <2>10, <2>11, <2>12, <2>13, <2>14, <2>15, <2>16, <2>17, <2>18, <2>19, <2>20, <2>21
       DEF Handle, RefreshAll, RefreshForCall, RefreshAfterNotification, DiscoverTarget
  <2>23. ASSUME NEW q \in Requests \ {r} PROVE Turn(q)'
    <3>1. sequence' = q <=> sequence = q  BY <2>22 DEF Kept
    <3>2. Turn(q) /\ pc'[q] = pc[q] /\ phase'[q] = phase[q] /\ todo'[q] = todo[q]
      BY <1>1, OthersStay DEF Others, Turns
    <3>. QED  BY <3>1, <3>2 DEF Turn, InTurn, Refreshing
  <2>. QED  BY <2>22, <2>23 DEF Kept, Turns
<1>2. CASE Cancel \/ (\E t \in Targets : Change(t) \/ Die(t)) \/ Finished
  BY <1>2 DEF Cancel, Change, Die, Finished, vars, handlerVars, Turns, Turn, InTurn, Refreshing
<1>. QED  BY <1>1, <1>2 DEF Next

\* Nobody else refreshes, or reports, before or after a step of the handler in turn.
LEMMA OneTurn ==
  ASSUME Turns, Turns', NEW r \in Requests, Others(r), InTurn(r) \/ InTurn(r)'
  PROVE  \A q \in Requests \ {r} : ~InTurn(q) /\ ~InTurn(q)'
BY DEF Turns, Turn, Others, InTurn, Refreshing

\* The lock is free, or the handler that has it is past its refresh: nobody refreshes.
LEMMA NoRefresh ==
  ASSUME Turns
  PROVE  /\ sequence = Free => \A q \in Requests : ~InTurn(q)
         /\ \A r \in Requests : InTurn(r) => \A q \in Requests \ {r} : ~InTurn(q)
BY CatalogAssumption DEF Turns, Turn

-----------------------------------------------------------------------------
(* The catalog is current. *)

\* Every step keeps that snapshot and drafts agree with the last discoveries.
LEMMA CurrentStep ==
  ASSUME TypeOK, TypeOK', Turns, Turns', Current, Next
  PROVE  Current'
<1>1. ASSUME NEW r \in Requests, Handle(r) PROVE Current'
  <2>0. Others(r) /\ Turn(r)  BY <1>1, OthersStay DEF Turns
  <2>. DEFINE Alone == \A q \in Requests \ {r} : ~Refreshing(q)
              Kept == /\ Refreshing(r)' => Latest(draft[r].tools)'
                      /\ ~Refreshing(r)' /\ Alone => Latest(tools)'
                      /\ InTurn(r) \/ UNCHANGED latest
  <2>. USE DEF TypeOK, Goto, handlerVars, catalogVars, historyVars, ReadState, Stale, LockSequence
  <2>1. ASSUME StartList(r) PROVE Kept
    <3>1. \A q \in Requests : ~Refreshing(q)
      BY <2>0, <2>1, NoRefresh DEF StartList, InTurn, Refreshing
    <3>2. Latest(tools) /\ UNCHANGED <<latest, tools>>  BY <2>1, <3>1 DEF StartList, Current
    <3>3. Refreshing(r)' => draft'[r].tools = tools  BY <2>1 DEF StartList, Refreshing
    <3>. QED  BY <3>2, <3>3 DEF Latest
  <2>2. ASSUME AcceptCall(r) PROVE Kept
    BY <2>0, <2>2 DEF AcceptCall, Turn, InTurn, Refreshing, Current, Latest
  <2>3. ASSUME StartCall(r) PROVE Kept
    <3>1. \A q \in Requests : ~Refreshing(q)
      BY <2>0, <2>3, NoRefresh DEF StartCall, InTurn, Refreshing
    <3>2. Latest(tools) /\ UNCHANGED <<latest, tools>>  BY <2>3, <3>1 DEF StartCall, Current
    <3>3. Refreshing(r)' => draft'[r].tools = tools  BY <2>3 DEF StartCall, Refreshing
    <3>. QED  BY <3>2, <3>3 DEF Latest
  <2>4. ASSUME RejectCall(r) PROVE Kept
    BY <2>0, <2>4 DEF RejectCall, Turn, InTurn, Refreshing, Current, Latest
  <2>5. ASSUME Consider(r) PROVE Kept
    BY <2>0, <2>5 DEF Consider, Turn, InTurn, Refreshing, Current, Latest
  <2>6. ASSUME Rediscover(r) PROVE Kept
    BY <2>0, <2>6 DEF Rediscover, Turn, InTurn, Refreshing, Current, Latest
  <2>7. ASSUME DiscoverRefused(r) PROVE Kept
    BY <2>0, <2>7 DEF DiscoverRefused, Turn, InTurn, Refreshing, Current, Latest
  <2>8. ASSUME DiscoverBegin(r) PROVE Kept
    BY <2>0, <2>8 DEF DiscoverBegin, Turn, InTurn, Refreshing, Current, Latest
  <2>9. ASSUME DiscoverOk(r) PROVE Kept
    BY <2>0, <2>9 DEF DiscoverOk, Turn, InTurn, Refreshing, Current, Latest
  <2>10. ASSUME DiscoverFails(r) PROVE Kept
    BY <2>0, <2>10 DEF DiscoverFails, Turn, InTurn, Refreshing, Current, Latest
  <2>11. ASSUME Adopt(r) PROVE Kept
    BY <2>0, <2>11 DEF Adopt, Turn, InTurn, Refreshing, Current, Latest
  <2>12. ASSUME WriteList(r) PROVE Kept
    BY <2>0, <2>12 DEF WriteList, Turn, InTurn, Refreshing, Current, Latest
  <2>13. ASSUME NotifyChange(r) PROVE Kept
    BY <2>0, <2>13 DEF NotifyChange, Turn, InTurn, Refreshing, Current, Latest
  <2>14. ASSUME Refuse(r) PROVE Kept
    BY <2>0, <2>14 DEF Refuse, Turn, InTurn, Refreshing, Current, Latest
  <2>15. ASSUME Resolve(r) PROVE Kept
    BY <2>0, <2>15 DEF Resolve, Turn, InTurn, Refreshing, Current, Latest
  <2>16. ASSUME ExecuteRefused(r) PROVE Kept
    BY <2>0, <2>16 DEF ExecuteRefused, Turn, InTurn, Refreshing, Current, Latest
  <2>17. ASSUME ExecuteBegin(r) PROVE Kept
    BY <2>0, <2>17 DEF ExecuteBegin, Turn, InTurn, Refreshing, Current, Latest
  <2>18. ASSUME ExecuteEnds(r) PROVE Kept
    BY <2>0, <2>18 DEF ExecuteEnds, Turn, InTurn, Refreshing, Current, Latest
  <2>19. ASSUME LockAfter(r) PROVE Kept
    BY <2>0, <2>19 DEF LockAfter, Turn, InTurn, Refreshing, Current, Latest
  <2>20. ASSUME TakeListChanged(r) PROVE Kept
    <3>1. \A q \in Requests : ~Refreshing(q)
      BY <2>0, <2>20, NoRefresh DEF TakeListChanged, InTurn, Refreshing
    <3>2. Latest(tools) /\ UNCHANGED <<latest, tools>>  BY <2>20, <3>1 DEF TakeListChanged, Current
    <3>3. Refreshing(r)' => draft'[r].tools = tools  BY <2>20 DEF TakeListChanged, Refreshing
    <3>. QED  BY <3>2, <3>3 DEF Latest
  <2>21. ASSUME Reply(r) PROVE Kept
    BY <2>0, <2>21 DEF Reply, Turn, InTurn, Refreshing, Current, Latest
  <2>. HIDE DEF Kept
  <2>22. Kept
    BY <1>1, <2>1, <2>2, <2>3, <2>4, <2>5, <2>6, <2>7, <2>8, <2>9, <2>10, <2>11, <2>12, <2>13, <2>14, <2>15, <2>16, <2>17, <2>18, <2>19, <2>20, <2>21
       DEF Handle, RefreshAll, RefreshForCall, RefreshAfterNotification, DiscoverTarget
  <2>23. InTurn(r) \/ InTurn(r)' => Alone  BY <2>0, OneTurn DEF InTurn
  <2>24. ASSUME NEW q \in Requests \ {r}, Refreshing(q)' PROVE Latest(draft[q].tools)'
    BY <2>0, <2>22, <2>23, <2>24 DEF Kept, Others, Current, Latest, Refreshing
  <2>25. (\A q \in Requests : ~Refreshing(q)') => Latest(tools)'
    BY <2>0, <2>22 DEF Kept, Others, Refreshing
  <2>. QED  BY <2>22, <2>24, <2>25 DEF Kept, Current
<1>2. CASE Cancel \/ (\E t \in Targets : Change(t) \/ Die(t)) \/ Finished
  BY <1>2 DEF Cancel, Change, Die, Finished, vars, handlerVars, catalogVars, historyVars,
              Current, Latest, Refreshing
<1>. QED  BY <1>1, <1>2 DEF Next

-----------------------------------------------------------------------------
(* What is known was discovered. *)

\* A discovery is remembered.
LEMMA Remembered ==
  ASSUME TypeOK, TypeOK', Turns, Known, Next, NEW t \in Targets
  PROVE  /\ latest[t] # 0 => latest'[t] # 0
         /\ seen[t] \subseteq seen'[t]
         /\ latest'[t] # 0 => latest'[t] \in seen'[t]
<1>. USE CatalogAssumption DEF TypeOK, Known, handlerVars, historyVars
<1>1. ASSUME NEW r \in Requests, DiscoverOk(r)
      PROVE  /\ latest[t] # 0 => latest'[t] # 0
             /\ seen[t] \subseteq seen'[t]
             /\ latest'[t] # 0 => latest'[t] \in seen'[t]
  BY <1>1 DEF DiscoverOk
<1>2. CASE UNCHANGED historyVars  BY <1>2
<1>3. ASSUME NEW r \in Requests, Handle(r)
      PROVE  DiscoverOk(r) \/ UNCHANGED historyVars
  BY <1>3 DEF Handle, RefreshAll, RefreshForCall, RefreshAfterNotification, DiscoverTarget,
    StartList, AcceptCall, StartCall, RejectCall, Consider, Rediscover, DiscoverRefused, DiscoverBegin,
    DiscoverFails, Adopt, WriteList, NotifyChange, Refuse, Resolve, ExecuteRefused,
    ExecuteBegin, ExecuteEnds, LockAfter, TakeListChanged, Reply
<1>4. CASE Cancel \/ (\E u \in Targets : Change(u) \/ Die(u)) \/ Finished
  BY <1>4, <1>2 DEF Cancel, Change, Die, Finished, vars
<1>. QED  BY <1>1, <1>2, <1>3, <1>4 DEF Next

\* Every step keeps that what counts as fresh was discovered.
LEMMA KnownStep ==
  ASSUME TypeOK, TypeOK', Turns, Current, Known, Next
  PROVE  Known'
<1>1. ASSUME NEW r \in Requests, Handle(r) PROVE Known'
  <2>0. Others(r) /\ Turn(r)  BY <1>1, OthersStay DEF Turns
  <2>. DEFINE Kept == /\ Discovered(fresh)'
                      /\ Refreshing(r)' => Discovered(draft[r].fresh)'
                      /\ r \in Calls => Judged(r)'
  <2>. USE CatalogAssumption DEF TypeOK, Goto, handlerVars, catalogVars, historyVars, ReadState, Stale, Forget
  <2>1. ASSUME StartList(r) PROVE Kept
    BY <2>0, <2>1 DEF StartList, Turn, Refreshing, Known, Discovered, Judged
  <2>2. ASSUME AcceptCall(r) PROVE Kept
    BY <2>0, <2>2 DEF AcceptCall, Turn, Refreshing, Known, Discovered, Judged
  <2>3. ASSUME StartCall(r) PROVE Kept
    BY <2>0, <2>3 DEF StartCall, Turn, Refreshing, Known, Discovered, Judged
  <2>4. ASSUME RejectCall(r) PROVE Kept
    BY <2>0, <2>4 DEF RejectCall, Turn, Refreshing, Known, Discovered, Judged
  <2>5. ASSUME Consider(r) PROVE Kept
    <3>1. /\ pc'[r] \in {"refresh", "discover"} /\ Refreshing(r)
          /\ UNCHANGED <<draft, phase, available, fresh, latest, seen, verdict>>
      BY <2>5 DEF Consider, Refreshing
    <3>2. ASSUME r \in Calls, phase[r] = "before", available[r], TargetOf[r] \notin todo'[r]
          PROVE  latest[TargetOf[r]] # 0
      <4>1. CASE TargetOf[r] \notin todo[r]  BY <3>1, <3>2, <4>1 DEF Known, Judged
      <4>2. CASE TargetOf[r] \in todo[r]
        <5>1. Next1(todo[r]) = TargetOf[r] /\ TargetOf[r] \in draft[r].fresh
          BY <2>5, <3>2, <4>2 DEF Consider
        <5>. QED  BY <3>1, <5>1 DEF Known, Discovered
      <4>. QED  BY <4>1, <4>2
    <3>3. Discovered(fresh)' /\ Discovered(draft[r].fresh)'  BY <3>1 DEF Known, Discovered
    <3>. QED  BY <3>1, <3>2, <3>3 DEF Judged
  <2>6. ASSUME Rediscover(r) PROVE Kept
    BY <2>0, <2>6 DEF Rediscover, Turn, Refreshing, Known, Discovered, Judged
  <2>7. ASSUME DiscoverRefused(r) PROVE Kept
    BY <2>0, <2>7 DEF DiscoverRefused, Turn, Refreshing, Known, Discovered, Judged
  <2>8. ASSUME DiscoverBegin(r) PROVE Kept
    BY <2>0, <2>8 DEF DiscoverBegin, Turn, Refreshing, Known, Discovered, Judged
  <2>9. ASSUME DiscoverOk(r) PROVE Kept
    BY <2>0, <2>9 DEF DiscoverOk, Turn, Refreshing, Known, Discovered, Judged
  <2>10. ASSUME DiscoverFails(r) PROVE Kept
    BY <2>0, <2>10 DEF DiscoverFails, Turn, Refreshing, Known, Discovered, Judged
  <2>11. ASSUME Adopt(r) PROVE Kept
    <3>1. Refreshing(r) /\ ~Refreshing(r)' /\ todo[r] = {}  BY <2>11 DEF Adopt, Refreshing
    <3>2. Discovered(fresh)'  BY <2>11, <3>1 DEF Adopt, Known, Discovered
    <3>3. ASSUME r \in Calls, phase'[r] = "before", available'[r]
          PROVE  \E v \in seen'[TargetOf[r]] : verdict'[r] = Project(v)
      <4>1. TargetOf[r] \in Targets /\ latest[TargetOf[r]] # 0
        BY <2>11, <3>1, <3>3 DEF Adopt, Known, Judged
      <4>2. draft[r].tools[TargetOf[r]] = Project(latest[TargetOf[r]])
        <5>1. Latest(draft[r].tools)  BY ONLY <3>1, Current, r \in Requests DEF Current
        <5>. QED  BY ONLY <4>1, <5>1 DEF Latest
      <4>3. latest[TargetOf[r]] \in seen[TargetOf[r]]  BY <4>1 DEF Known
      <4>4. verdict'[r] = draft[r].tools[TargetOf[r]] /\ seen' = seen
        BY <2>11, <3>3 DEF Adopt
      <4>. QED  BY <4>2, <4>3, <4>4
    <3>. QED  BY <3>1, <3>2, <3>3 DEF Judged
  <2>12. ASSUME WriteList(r) PROVE Kept
    BY <2>0, <2>12 DEF WriteList, Turn, Refreshing, Known, Discovered, Judged
  <2>13. ASSUME NotifyChange(r) PROVE Kept
    BY <2>0, <2>13 DEF NotifyChange, Turn, Refreshing, Known, Discovered, Judged
  <2>14. ASSUME Refuse(r) PROVE Kept
    BY <2>0, <2>14 DEF Refuse, Turn, Refreshing, Known, Discovered, Judged
  <2>15. ASSUME Resolve(r) PROVE Kept
    BY <2>0, <2>15 DEF Resolve, Turn, Refreshing, Known, Discovered, Judged
  <2>16. ASSUME ExecuteRefused(r) PROVE Kept
    BY <2>0, <2>16 DEF ExecuteRefused, Turn, Refreshing, Known, Discovered, Judged
  <2>17. ASSUME ExecuteBegin(r) PROVE Kept
    BY <2>0, <2>17 DEF ExecuteBegin, Turn, Refreshing, Known, Discovered, Judged
  <2>18. ASSUME ExecuteEnds(r) PROVE Kept
    BY <2>0, <2>18 DEF ExecuteEnds, Turn, Refreshing, Known, Discovered, Judged
  <2>19. ASSUME LockAfter(r) PROVE Kept
    BY <2>0, <2>19 DEF LockAfter, Turn, Refreshing, Known, Discovered, Judged
  <2>20. ASSUME TakeListChanged(r) PROVE Kept
    BY <2>0, <2>20 DEF TakeListChanged, Turn, Refreshing, Known, Discovered, Judged
  <2>21. ASSUME Reply(r) PROVE Kept
    BY <2>0, <2>21 DEF Reply, Turn, Refreshing, Known, Discovered, Judged
  <2>. HIDE DEF Kept
  <2>22. Kept
    BY <1>1, <2>1, <2>2, <2>3, <2>4, <2>5, <2>6, <2>7, <2>8, <2>9, <2>10, <2>11, <2>12, <2>13, <2>14, <2>15, <2>16, <2>17, <2>18, <2>19, <2>20, <2>21
       DEF Handle, RefreshAll, RefreshForCall, RefreshAfterNotification, DiscoverTarget
  <2>23. ASSUME NEW q \in Requests \ {r}, Refreshing(q)' PROVE Discovered(draft[q].fresh)'
    BY <1>1, <2>0, <2>23, Remembered DEF Others, Known, Discovered, Refreshing, Next
  <2>24. ASSUME NEW c \in Calls \ {r} PROVE Judged(c)'
    <3>1. c \in Requests \ {r} /\ TargetOf[c] \in Targets  BY DEF Requests
    <3>2. /\ pc'[c] = pc[c] /\ phase'[c] = phase[c] /\ available'[c] = available[c]
          /\ todo'[c] = todo[c] /\ verdict'[c] = verdict[c]
      BY <2>0, <3>1 DEF Others
    <3>3. /\ latest[TargetOf[c]] # 0 => latest'[TargetOf[c]] # 0
          /\ seen[TargetOf[c]] \subseteq seen'[TargetOf[c]]
      BY <1>1, <3>1, Remembered DEF Next
    <3>4. Judged(c)  BY DEF Known
    <3>. QED  BY <3>2, <3>3, <3>4 DEF Judged, Refreshing
  <2>25. \A t \in Targets : latest'[t] # 0 => latest'[t] \in seen'[t]
    BY <1>1, Remembered DEF Next
  <2>. QED  BY <2>22, <2>23, <2>24, <2>25 DEF Kept, Known
<1>2. CASE Cancel \/ (\E t \in Targets : Change(t) \/ Die(t)) \/ Finished
  BY <1>2 DEF Cancel, Change, Die, Finished, vars, handlerVars, catalogVars, historyVars,
              Known, Judged, Discovered, Refreshing
<1>. QED  BY <1>1, <1>2 DEF Next

-----------------------------------------------------------------------------
(* The client is informed. *)

\* Every step keeps that the client was told, or is about to be.
LEMMA InformedStep ==
  ASSUME TypeOK, TypeOK', Turns, Turns', Informed, Next
  PROVE  Informed'
<1>1. ASSUME NEW r \in Requests, Handle(r) PROVE Informed'
  <2>0. Others(r) /\ Turn(r)  BY <1>1, OthersStay DEF Turns
  <2>. DEFINE Alone == \A q \in Requests \ {r} : ~InTurn(q)
              Kept == /\ ~Telling(r)' /\ Alone => (listed => told = generation \/ alerted)'
                      /\ Refreshing(r)' => draft'[r].listed = listed'
                      /\ pc'[r] = "write" => report'[r].generation = generation'
                      /\ InTurn(r) \/ UNCHANGED <<catalogVars, clientVars>>
  <2>. USE DEF TypeOK, Goto, handlerVars, catalogVars, clientVars, ReadState, Stale, LockSequence
  <2>1. ASSUME StartList(r) PROVE Kept
    BY <2>0, <2>1 DEF StartList, Turn, InTurn, Telling, Refreshing, Informed
  <2>2. ASSUME AcceptCall(r) PROVE Kept
    BY <2>0, <2>2 DEF AcceptCall, Turn, InTurn, Telling, Refreshing, Informed
  <2>3. ASSUME StartCall(r) PROVE Kept
    BY <2>0, <2>3 DEF StartCall, Turn, InTurn, Telling, Refreshing, Informed
  <2>4. ASSUME RejectCall(r) PROVE Kept
    BY <2>0, <2>4 DEF RejectCall, Turn, InTurn, Telling, Refreshing, Informed
  <2>5. ASSUME Consider(r) PROVE Kept
    BY <2>0, <2>5 DEF Consider, Turn, InTurn, Telling, Refreshing, Informed
  <2>6. ASSUME Rediscover(r) PROVE Kept
    BY <2>0, <2>6 DEF Rediscover, Turn, InTurn, Telling, Refreshing, Informed
  <2>7. ASSUME DiscoverRefused(r) PROVE Kept
    BY <2>0, <2>7 DEF DiscoverRefused, Turn, InTurn, Telling, Refreshing, Informed
  <2>8. ASSUME DiscoverBegin(r) PROVE Kept
    BY <2>0, <2>8 DEF DiscoverBegin, Turn, InTurn, Telling, Refreshing, Informed
  <2>9. ASSUME DiscoverOk(r) PROVE Kept
    BY <2>0, <2>9 DEF DiscoverOk, Turn, InTurn, Telling, Refreshing, Informed
  <2>10. ASSUME DiscoverFails(r) PROVE Kept
    BY <2>0, <2>10 DEF DiscoverFails, Turn, InTurn, Telling, Refreshing, Informed
  <2>11. ASSUME Adopt(r) PROVE Kept
    BY <2>0, <2>11 DEF Adopt, Turn, InTurn, Telling, Refreshing, Informed
  <2>12. ASSUME WriteList(r) PROVE Kept
    BY <2>0, <2>12 DEF WriteList, Turn, InTurn, Telling, Refreshing, Informed
  <2>13. ASSUME NotifyChange(r) PROVE Kept
    BY <2>0, <2>13 DEF NotifyChange, Turn, InTurn, Telling, Refreshing, Informed
  <2>14. ASSUME Refuse(r) PROVE Kept
    BY <2>0, <2>14 DEF Refuse, Turn, InTurn, Telling, Refreshing, Informed
  <2>15. ASSUME Resolve(r) PROVE Kept
    BY <2>0, <2>15 DEF Resolve, Turn, InTurn, Telling, Refreshing, Informed
  <2>16. ASSUME ExecuteRefused(r) PROVE Kept
    BY <2>0, <2>16 DEF ExecuteRefused, Turn, InTurn, Telling, Refreshing, Informed
  <2>17. ASSUME ExecuteBegin(r) PROVE Kept
    BY <2>0, <2>17 DEF ExecuteBegin, Turn, InTurn, Telling, Refreshing, Informed
  <2>18. ASSUME ExecuteEnds(r) PROVE Kept
    BY <2>0, <2>18 DEF ExecuteEnds, Turn, InTurn, Telling, Refreshing, Informed
  <2>19. ASSUME LockAfter(r) PROVE Kept
    BY <2>0, <2>19 DEF LockAfter, Turn, InTurn, Telling, Refreshing, Informed
  <2>20. ASSUME TakeListChanged(r) PROVE Kept
    BY <2>0, <2>20 DEF TakeListChanged, Turn, InTurn, Telling, Refreshing, Informed
  <2>21. ASSUME Reply(r) PROVE Kept
    BY <2>0, <2>21 DEF Reply, Turn, InTurn, Telling, Refreshing, Informed
  <2>. HIDE DEF Kept
  <2>22. Kept
    BY <1>1, <2>1, <2>2, <2>3, <2>4, <2>5, <2>6, <2>7, <2>8, <2>9, <2>10, <2>11, <2>12, <2>13, <2>14, <2>15, <2>16, <2>17, <2>18, <2>19, <2>20, <2>21
       DEF Handle, RefreshAll, RefreshForCall, RefreshAfterNotification, DiscoverTarget
  <2>23. InTurn(r) \/ InTurn(r)' => \A q \in Requests \ {r} : ~InTurn(q) /\ ~InTurn(q)'
    BY <2>0, OneTurn
  <2>24. ASSUME NEW q \in Requests \ {r}
         PROVE  /\ Refreshing(q)' => draft'[q].listed = listed'
                /\ pc'[q] = "write" => report'[q].generation = generation'
    BY <2>0, <2>22, <2>23 DEF Kept, Others, Informed, InTurn, Refreshing
  <2>25. ASSUME \A q \in Requests : ~Telling(q)'
         PROVE  (listed => told = generation \/ alerted)'
    <3>1. CASE InTurn(r) \/ InTurn(r)'  BY <2>22, <2>23, <2>25, <3>1 DEF Kept
    <3>2. CASE ~InTurn(r) /\ ~InTurn(r)'
      <4>1. \A q \in Requests : ~Telling(q)
        BY <2>0, <2>25, <3>2 DEF Others, Telling, InTurn, Refreshing
      <4>2. UNCHANGED <<listed, told, generation, alerted>>  BY <2>22, <3>2 DEF Kept
      <4>3. listed => told = generation \/ alerted  BY <4>1 DEF Informed
      <4>. QED  BY <4>2, <4>3, Zenon
    <3>. QED  BY <3>1, <3>2
  <2>. QED  BY <2>22, <2>24, <2>25 DEF Kept, Informed
<1>2. CASE Cancel \/ (\E t \in Targets : Change(t) \/ Die(t)) \/ Finished
  BY <1>2 DEF Cancel, Change, Die, Finished, vars, handlerVars, catalogVars, clientVars,
              Informed, Telling, Refreshing
<1>. QED  BY <1>1, <1>2 DEF Next

-----------------------------------------------------------------------------
(* Announced changes are not forgotten. *)

\* A connection that is new, ended or read hides no announcement of any target.
LEMMA SessionNotices ==
  ASSUME TypeOK, NEW r \in Requests, NEW u \in Targets, NEW t \in Targets, Numbered(t),
         Occupy(r, u) \/ ReadUpTo(u) \/ Terminate(u), UNCHANGED <<version, latest, origin>>
  PROVE  Numbered(t)' /\ (Noticed(t) => Noticed(t)')
<1>. USE DEF TypeOK, Numbered, Noticed, Live
<1>1. CASE Occupy(r, u) /\ Live(u)  BY <1>1 DEF Occupy
<1>2. CASE Occupy(r, u) /\ ~Live(u)
  <2>1. CASE t = u
    <3>1. conns'[u] = conns[u] + 1 /\ conn'[u] = conns[u] + 1  BY <1>2 DEF Occupy
    <3>2. origin[u] \in Nat /\ conns[u] \in Nat  OBVIOUS
    <3>. QED  BY <2>1, <3>1, <3>2
  <2>2. CASE t # u
    <3>1. /\ conns'[t] = conns[t] /\ conn'[t] = conn[t]
          /\ t \in dead' <=> t \in dead
          /\ t \in flag' \cup unread' <=> t \in flag \cup unread
      BY <1>2, <2>2 DEF Occupy
    <3>. QED  BY <3>1
  <2>. QED  BY <2>1, <2>2
<1>3. CASE ReadUpTo(u)
  <2>1. UNCHANGED <<conn, conns, dead>> /\ flag' \cup unread' = flag \cup unread
    BY <1>3 DEF ReadUpTo
  <2>. QED  BY <2>1
<1>4. CASE Terminate(u)
  <2>1. CASE t = u
    <3>1. conn'[u] = 0 /\ conns' = conns  BY <1>4 DEF Terminate
    <3>. QED  BY <2>1, <3>1
  <2>2. CASE t # u
    <3>1. /\ conn'[t] = conn[t] /\ conns' = conns
          /\ t \in dead' <=> t \in dead
          /\ t \in flag' \cup unread' <=> t \in flag \cup unread
      BY <1>4, <2>2 DEF Terminate
    <3>. QED  BY <3>1
  <2>. QED  BY <2>1, <2>2
<1>. QED  BY <1>1, <1>2, <1>3, <1>4

\* Only a flag that is taken leaves its target without an announcement.
LEMMA HandlerNotices ==
  ASSUME TypeOK, Turns, NEW r \in Requests, Handle(r), NEW t \in Targets, Numbered(t)
  PROVE  /\ Numbered(t)'
         /\ \/ Noticed(t) => Noticed(t)'
            \/ TakeListChanged(r) /\ t = TargetOf[r] /\ t \in flag
<1>. DEFINE Goal == Numbered(t)' /\ (Noticed(t) => Noticed(t)')
<1>1. CASE UNCHANGED <<sessionVars, upstreamVars, historyVars>>
  BY <1>1 DEF sessionVars, upstreamVars, historyVars, Numbered, Noticed, Live
<1>2. ASSUME DiscoverBegin(r) \/ DiscoverFails(r) PROVE Goal
  <2>1. Next1(todo[r]) \in Targets
    BY <1>2, NextTarget DEF DiscoverBegin, DiscoverFails, Turns, Turn, TypeOK
  <2>2. UNCHANGED <<version, latest, origin>>
    BY <1>2 DEF DiscoverBegin, DiscoverFails, historyVars
  <2>3. Occupy(r, Next1(todo[r])) \/ Terminate(Next1(todo[r]))
    BY <1>2 DEF DiscoverBegin, DiscoverFails
  <2>. QED  BY <2>1, <2>2, <2>3, SessionNotices
<1>3. ASSUME ExecuteBegin(r) \/ ExecuteEnds(r) PROVE Goal
  <2>1. TargetOf[r] \in Targets
    BY <1>3, CatalogAssumption DEF ExecuteBegin, ExecuteEnds, Turns, Turn, TypeOK
  <2>2. UNCHANGED <<version, latest, origin>>
    BY <1>3 DEF ExecuteBegin, ExecuteEnds, historyVars
  <2>3. Occupy(r, TargetOf[r]) \/ ReadUpTo(TargetOf[r]) \/ Terminate(TargetOf[r])
    BY <1>3 DEF ExecuteBegin, ExecuteEnds
  <2>. QED  BY <2>1, <2>2, <2>3, SessionNotices
<1>4. ASSUME DiscoverOk(r) PROVE Goal
  <2>. DEFINE u == Next1(todo[r])
  <2>1. u \in Targets  BY <1>4, NextTarget DEF DiscoverOk, Turns, Turn, TypeOK
  <2>. HIDE DEF u
  <2>2. /\ latest' = [latest EXCEPT ![u] = version[u]] /\ origin' = [origin EXCEPT ![u] = conn[u]]
        /\ UNCHANGED <<conn, conns, dead, version>> /\ flag' \cup unread' = flag \cup unread
    BY <1>4 DEF DiscoverOk, ReadUpTo, TypeOK, u
  <2>. QED  BY <2>1, <2>2 DEF TypeOK, Numbered, Noticed, Live
<1>5. ASSUME TakeListChanged(r), ~(t = TargetOf[r] /\ t \in flag) PROVE Goal
  BY <1>5 DEF TakeListChanged, upstreamVars, historyVars, Numbered, Noticed, Live
<1>6. ASSUME TakeListChanged(r) PROVE Numbered(t)'
  BY <1>6 DEF TakeListChanged, upstreamVars, historyVars, Numbered
<1>7. \/ UNCHANGED <<sessionVars, upstreamVars, historyVars>>
      \/ DiscoverBegin(r) \/ DiscoverFails(r) \/ ExecuteBegin(r) \/ ExecuteEnds(r)
      \/ DiscoverOk(r) \/ TakeListChanged(r)
  BY DEF Handle, RefreshAll, RefreshForCall, RefreshAfterNotification, DiscoverTarget,
    StartList, AcceptCall, StartCall, RejectCall, Consider, Rediscover, DiscoverRefused,
    Adopt, WriteList, NotifyChange, Refuse, Resolve, ExecuteRefused, LockAfter, Reply
<1>. QED  BY <1>1, <1>2, <1>3, <1>4, <1>5, <1>6, <1>7

\* Every step keeps that a change which was announced is not forgotten.
LEMMA AnnouncedStep ==
  ASSUME TypeOK, TypeOK', Turns, Turns', Announced, Next
  PROVE  Announced'
<1>1. ASSUME NEW r \in Requests, Handle(r) PROVE Announced'
  <2>0. Others(r) /\ Turn(r)  BY <1>1, OthersStay DEF Turns
  <2>. DEFINE Alone == \A q \in Requests \ {r} : ~Refreshing(q)
              Kept == /\ Refreshing(r)' => \A t \in draft'[r].fresh \ Looking(r)' : Noticed(t)'
                      /\ ~Refreshing(r)' /\ Alone => \A t \in fresh' : Noticed(t)'
                      /\ InTurn(r) \/ \A t \in Targets : Noticed(t) => Noticed(t)'
  <2>1. ~TakeListChanged(r) => \A t \in Targets : Noticed(t) => Noticed(t)'
    BY <1>1, HandlerNotices DEF Announced
  <2>2. ASSUME ~Refreshing(r), ~Refreshing(r)', UNCHANGED fresh, ~TakeListChanged(r)
        PROVE  Kept
    <3>1. Alone => \A t \in fresh : Noticed(t)  BY <2>2 DEF Announced
    <3>. QED  BY <2>1, <2>2, <3>1 DEF TypeOK
  <2>3. ASSUME StartList(r) \/ StartCall(r) PROVE Kept
    <3>1. \A q \in Requests : ~Refreshing(q)
      BY <2>3, NoRefresh DEF StartList, StartCall, LockSequence, InTurn
    <3>2. /\ Refreshing(r)' /\ draft'[r].fresh = fresh /\ ~TakeListChanged(r)
      BY <2>3 DEF StartList, StartCall, ReadState, Goto, Refreshing, TakeListChanged, TypeOK
    <3>. QED  BY <2>1, <3>1, <3>2 DEF Announced, TypeOK
  <2>4. ASSUME TakeListChanged(r), Refreshing(r)' PROVE Kept
    <3>1. InTurn(r) /\ \A q \in Requests : ~Refreshing(q)
      BY <2>0, <2>4, NoRefresh DEF TakeListChanged, InTurn, Refreshing
    <3>2. /\ draft'[r].fresh = fresh /\ Looking(r)' = {TargetOf[r]}
      BY <2>4 DEF TakeListChanged, ReadState, Goto, Refreshing, Looking, TypeOK
    <3>3. \A t \in Targets \ {TargetOf[r]} : Noticed(t) => Noticed(t)'
      BY <1>1, HandlerNotices DEF Announced
    <3>. QED  BY <2>4, <3>1, <3>2, <3>3 DEF Announced, TypeOK
  <2>5. ASSUME TakeListChanged(r), ~Refreshing(r)' PROVE Kept
    <3>1. InTurn(r) /\ ~Refreshing(r)
      BY <2>5 DEF TakeListChanged, InTurn, Refreshing
    <3>2. /\ UNCHANGED fresh /\ TargetOf[r] \notin flag
      BY <2>5 DEF TakeListChanged, catalogVars, Goto, Refreshing, TypeOK
    <3>3. \A t \in Targets : Noticed(t) => Noticed(t)'
      BY <1>1, <3>2, HandlerNotices DEF Announced
    <3>. QED  BY <2>5, <3>1, <3>2, <3>3 DEF Announced, TypeOK
  <2>6. ASSUME Refreshing(r), Refreshing(r)', ~TakeListChanged(r),
               draft'[r].fresh \ Looking(r)' \subseteq draft[r].fresh \ Looking(r)
        PROVE  Kept
    BY <2>1, <2>6 DEF Announced, InTurn, TypeOK
  <2>7. ASSUME Consider(r), phase[r] = "before" \/ r \in Lists PROVE Kept
    <3>1. phase[r] = "before"
      BY <2>0, <2>7, CatalogAssumption DEF Turn, TypeOK
    <3>2. /\ Refreshing(r) /\ Refreshing(r)' /\ ~TakeListChanged(r)
          /\ draft'[r] = draft[r] /\ phase'[r] = phase[r]
      BY <2>7 DEF Consider, Goto, Refreshing, TakeListChanged, TypeOK
    <3>. QED  BY <2>6, <3>1, <3>2 DEF Looking
  <2>8. ASSUME Rediscover(r) \/ DiscoverBegin(r) PROVE Kept
    <3>1. /\ Refreshing(r) /\ Refreshing(r)' /\ ~TakeListChanged(r)
          /\ draft'[r] = draft[r] /\ phase'[r] = phase[r] /\ todo'[r] = todo[r]
      BY <2>8 DEF Rediscover, DiscoverBegin, Goto, Refreshing, TakeListChanged, TypeOK
    <3>. QED  BY <2>6, <3>1 DEF Looking
  <2>9. ASSUME DiscoverRefused(r) \/ DiscoverFails(r) PROVE Kept
    <3>1. /\ Refreshing(r) /\ Refreshing(r)' /\ ~TakeListChanged(r)
          /\ draft'[r].fresh = draft[r].fresh \ {Next1(todo[r])}
          /\ phase'[r] = phase[r] /\ todo'[r] = todo[r] \ {Next1(todo[r])}
      BY <2>9 DEF DiscoverRefused, DiscoverFails, Stale, Goto, Refreshing, TakeListChanged, TypeOK
    <3>. QED  BY <2>6, <3>1 DEF Looking
  <2>10. ASSUME DiscoverOk(r) PROVE Kept
    <3>1. PICK u \in Targets : u = Next1(todo[r])
      BY <2>10, NextTarget DEF DiscoverOk, Turns, Turn, TypeOK
    <3>2. /\ Refreshing(r) /\ Refreshing(r)' /\ ~TakeListChanged(r)
          /\ draft'[r].fresh = draft[r].fresh \cup {u}
          /\ phase'[r] = phase[r] /\ todo'[r] = todo[r] \ {u}
      BY <2>10, <3>1 DEF DiscoverOk, Goto, Refreshing, TakeListChanged, TypeOK
    <3>3. Noticed(u)'
      <4>1. latest' = [latest EXCEPT ![u] = version[u]] /\ version' = version
        BY <2>10, <3>1 DEF DiscoverOk
      <4>2. latest'[u] = version'[u]  BY <3>1, <4>1 DEF TypeOK
      <4>. QED  BY <4>2 DEF Noticed
    <3>4. draft'[r].fresh \ Looking(r)' \subseteq (draft[r].fresh \ Looking(r)) \cup {u}
      BY <3>2 DEF Looking
    <3>5. \A t \in draft[r].fresh \ Looking(r) : t \in Targets /\ Noticed(t)
      BY <3>2 DEF Announced, TypeOK
    <3>6. \A t \in draft'[r].fresh \ Looking(r)' : Noticed(t)'  BY <2>1, <3>2, <3>3, <3>4, <3>5
    <3>. QED  BY <3>2, <3>6 DEF InTurn
  <2>11. ASSUME Adopt(r) PROVE Kept
    <3>1. /\ Refreshing(r) /\ ~Refreshing(r)' /\ ~TakeListChanged(r)
          /\ fresh' = draft[r].fresh /\ Looking(r) = {}
      BY <2>11 DEF Adopt, Goto, Refreshing, TakeListChanged, Looking, TypeOK
    <3>. QED  BY <2>1, <3>1 DEF Announced, InTurn, TypeOK
  <2>12. ASSUME AcceptCall(r) \/ RejectCall(r) \/ WriteList(r) \/ NotifyChange(r) \/ Refuse(r)
                \/ Resolve(r) \/ ExecuteRefused(r) \/ ExecuteBegin(r) \/ ExecuteEnds(r)
                \/ LockAfter(r) \/ Reply(r)
         PROVE  Kept
    <3>1. pc[r] \in {"start", "write", "notify", "judge", "execute", "executing", "after", "reply"}
          /\ UNCHANGED fresh
      BY <2>12 DEF AcceptCall, RejectCall, WriteList, NotifyChange, Refuse, Resolve,
           ExecuteRefused, ExecuteBegin, ExecuteEnds, LockAfter, Reply, catalogVars
    <3>2. pc'[r] \in {"waiting", "done", "notify", "judge", "reply", "execute", "executing",
                      "after", "take"}
      BY <2>12 DEF AcceptCall, RejectCall, WriteList, NotifyChange, Refuse, Resolve,
           ExecuteRefused, ExecuteBegin, ExecuteEnds, LockAfter, Reply, Goto, TypeOK
    <3>. QED  BY <2>2, <3>1, <3>2 DEF Refreshing, TakeListChanged
  <2>. HIDE DEF Kept
  <2>13. Kept
    BY <1>1, <2>3, <2>4, <2>5, <2>7, <2>8, <2>9, <2>10, <2>11, <2>12
       DEF Handle, RefreshAll, RefreshForCall, RefreshAfterNotification, DiscoverTarget
  <2>14. InTurn(r) \/ InTurn(r)' => Alone  BY <2>0, OneTurn DEF InTurn
  <2>15. ASSUME NEW q \in Requests \ {r}, Refreshing(q)'
         PROVE  \A t \in draft'[q].fresh \ Looking(q)' : Noticed(t)'
    <3>1. /\ Refreshing(q) /\ draft'[q] = draft[q] /\ Looking(q)' = Looking(q)
          /\ draft[q].fresh \subseteq Targets
      BY <2>0, <2>15 DEF Others, Refreshing, Looking, TypeOK
    <3>2. ~InTurn(r)  BY <2>14, <3>1
    <3>. QED  BY <2>13, <3>1, <3>2 DEF Kept, Announced
  <2>16. (\A q \in Requests : ~Refreshing(q)') => \A t \in fresh' : Noticed(t)'
    BY <2>0, <2>13 DEF Kept, Others, Refreshing
  <2>17. \A t \in Targets : Numbered(t)'  BY <1>1, HandlerNotices DEF Announced
  <2>. QED  BY <2>13, <2>15, <2>16, <2>17 DEF Kept, Announced
<1>2. ASSUME NEW u \in Targets, Change(u) \/ Die(u) PROVE Announced'
  <2>1. \A t \in Targets : Numbered(t)' /\ (Noticed(t) => Noticed(t)')
    BY <1>2 DEF Change, Die, Announced, Numbered, Noticed, Live, sessionVars, upstreamVars,
               historyVars, TypeOK
  <2>2. UNCHANGED <<pc, phase, todo, draft, fresh>>
    BY <1>2 DEF Change, Die, handlerVars, catalogVars
  <2>. QED  BY <2>1, <2>2 DEF Announced, Refreshing, Looking, TypeOK
<1>3. CASE Cancel \/ Finished
  BY <1>3 DEF Cancel, Finished, vars, handlerVars, catalogVars, sessionVars, upstreamVars,
              historyVars, Announced, Numbered, Noticed, Live, Looking, Refreshing
<1>. QED  BY <1>1, <1>2, <1>3 DEF Next

-----------------------------------------------------------------------------
(* The theorems. *)

\* At the start nothing is fresh and nobody holds a lock.
LEMMA InitInv == Init => IInv
<1>. SUFFICES ASSUME Init PROVE IInv  OBVIOUS
<1>. USE CatalogAssumption DEF Init
<1>1. tools \in [Targets -> ToolState]
  <2>1. \A v \in Versions \cup {0} : FromCache(v) \in ToolState
    BY ProjectType, ConstantTypes DEF FromCache
  <2>2. PICK cached \in [Targets -> Versions \cup {0}] :
               tools = [t \in Targets |-> FromCache(cached[t])]
    OBVIOUS
  <2>. QED  BY <2>1, <2>2
<1>2. \A r \in Requests : pc[r] = "start" /\ phase[r] = "before"  OBVIOUS
<1>3. TypeOK
  <2>1. available \in [Requests -> BOOLEAN]  OBVIOUS
  <2>. QED  BY <1>1, <2>1, ConstantTypes DEF TypeOK, Points, Answers
<1>4. Turns /\ Current
  BY <1>2 DEF Turns, Turn, InTurn, Refreshing, Current, Latest
<1>5. Known
  BY <1>2 DEF Known, Judged, Discovered, Refreshing, Requests
<1>6. Informed
  BY <1>2 DEF Informed, Refreshing
<1>7. Announced
  BY <1>2 DEF Announced, Numbered, Refreshing
<1>. QED  BY <1>3, <1>4, <1>5, <1>6, <1>7 DEF IInv

\* Every step keeps the invariant.
LEMMA StepInv == IInv /\ [Next]_vars => IInv'
<1>. SUFFICES ASSUME IInv, [Next]_vars PROVE IInv'  OBVIOUS
<1>1. CASE Next
  <2>1. TypeOK' /\ Turns'  BY <1>1, TypeStep, TurnsStep DEF IInv
  <2>2. Current' /\ Known'  BY <1>1, <2>1, CurrentStep, KnownStep DEF IInv
  <2>3. Informed' /\ Announced'  BY <1>1, <2>1, InformedStep, AnnouncedStep DEF IInv
  <2>. QED  BY <2>1, <2>2, <2>3 DEF IInv
<1>2. CASE UNCHANGED vars
  BY <1>2 DEF IInv, vars, handlerVars, catalogVars, clientVars, sessionVars, upstreamVars,
              historyVars, TypeOK, Turns, Turn, InTurn, Refreshing, Current, Latest, Known,
              Judged, Discovered, Informed, Telling, Announced, Numbered, Noticed, Live, Looking
<1>. QED  BY <1>1, <1>2

\* The invariant holds in every state of every behaviour.
THEOREM Invariance == Spec => []IInv
  BY InitInv, StepInv, PTL DEF Spec

\* The catalog, its drafts and the handlers of v3_catalog.rs keep their types for any
\* number of requests and targets.
THEOREM TypeCorrect == Spec => []TypeOK
<1>1. IInv => TypeOK  BY DEF IInv
<1>. QED  BY <1>1, Invariance, PTL

\* No two refreshes overwrite each other, whatever targets they look at.
THEOREM RefreshesKept == Spec => []NoLostRefresh
<1>1. IInv => NoLostRefresh
  BY NoRefresh DEF IInv, InTurn, Current, Latest, NoLostRefresh
<1>. QED  BY <1>1, Invariance, PTL

\* A call is executed, or refused for good, because of what this broker discovered.
THEOREM VerdictsDiscovered == Spec => []VerdictFromDiscovery
<1>1. IInv => VerdictFromDiscovery
  BY DEF IInv, Turns, Turn, Requests, Known, Judged, VerdictFromDiscovery
<1>. QED  BY <1>1, Invariance, PTL

\* The client has the current list, or was told to ask again.
THEOREM ClientStaysInformed == Spec => []ClientInformed
<1>1. IInv => ClientInformed
  BY NoRefresh DEF IInv, InTurn, Telling, Informed, ClientInformed
<1>. QED  BY <1>1, Invariance, PTL

\* No order of discoveries, calls, changes and lost connections loses an announced change.
THEOREM ChangesNoticed == Spec => []ChangeNotForgotten
<1>1. IInv => ChangeNotForgotten
  BY NoRefresh DEF IInv, InTurn, Announced, Noticed, ChangeNotForgotten
<1>. QED  BY <1>1, Invariance, PTL
=============================================================================
