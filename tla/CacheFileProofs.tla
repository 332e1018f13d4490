--------------------------- MODULE CacheFileProofs ---------------------------
(***************************************************************************)
(* What CacheFile guarantees for every number of brokers, contents, files   *)
(* and faults: the entry file is always whole, and the file behaves like    *)
(* AtomicFile. The inductive invariant is                                   *)
(*   TypeOK /\ EntryIsWhole /\ WritersApart /\ StepsDone                     *)
(* WritersApart says that the inode a store writes is nobody else's: not    *)
(* the entry, not one that a power loss may bring back, and in no other     *)
(* process's hands; without it a write could tear the entry or what a       *)
(* reader has open. StepsDone says how far the inode is at each step.       *)
(***************************************************************************)
EXTENDS CacheFile, TLAPS

\* A process that is writing its temporary file has it for itself.
Writing(p) == pc[p] \in {"write", "sync", "rename"}
Apart(p) ==
  /\ handle[p] \notin {entry} \cup unsettled
  /\ \A q \in Brokers \ {p} : handle[q] # handle[p]
WritersApart == \A p \in Brokers : Writing(p) => Apart(p)

\* The name to create is within the bound, the content is there before it is synced,
\* and synced before it is renamed.
Done(p) ==
  /\ pc[p] = "create" => counter[p] <= MaxCounter
  /\ pc[p] \in {"sync", "rename"} => data[handle[p]] = value[p]
  /\ pc[p] = "rename" => handle[p] \in synced
StepsDone == \A p \in Brokers : Done(p)

IInv == TypeOK /\ EntryIsWhole /\ WritersApart /\ StepsDone

-----------------------------------------------------------------------------
(* Inodes. *)

\* What is in use keeps its content, and its place on the disk.
LEMMA ReclaimKeeps ==
  ASSUME NEW content, NEW whole, Reclaim(content, whole), NEW i \in Inodes, i \in Used'
  PROVE  data'[i] = content[i] /\ (i \in synced' <=> i \in whole)
BY DEF Reclaim

\* The result is typed.
LEMMA ReclaimType ==
  ASSUME NEW content \in [Inodes -> Values \cup {None, Partial, Foreign}],
         NEW whole \in SUBSET Inodes, Reclaim(content, whole)
  PROVE  /\ data' \in [Inodes -> Values \cup {None, Partial, Foreign}]
         /\ synced' \subseteq Inodes
BY DEF Reclaim

\* A new file gets an inode that is not in use.
LEMMA FreshIsFree ==
  ASSUME Inodes \ Used # {}
  PROVE  Fresh \in Inodes /\ Fresh \notin Used
BY DEF Fresh

-----------------------------------------------------------------------------
(* Types. *)

\* Every step keeps the types, given the bound on the counter.
LEMMA TypeStep ==
  ASSUME TypeOK, StepsDone, Next
  PROVE  TypeOK'
<1>. USE CacheFileAssumption
         DEF TypeOK, Goto, diskVars, processVars
<1>1. ASSUME NEW p \in Brokers, Start(p) PROVE TypeOK'
  BY <1>1 DEF Start
<1>2. ASSUME NEW p \in Brokers, Open(p) PROVE TypeOK'
  BY <1>2 DEF Open
<1>3. ASSUME NEW p \in Brokers, Read(p) PROVE TypeOK'
  <2>1. ContentOf(handle[p]) \in Values \cup {None}  BY DEF ContentOf, Parse
  <2>2. /\ data' \in [Inodes -> Values \cup {None, Partial, Foreign}]
        /\ synced' \subseteq Inodes
    BY <1>3, ReclaimType DEF Read
  <2>. QED  BY <1>3, <2>1, <2>2 DEF Read
<1>16. ASSUME NEW p \in Brokers, LoadFails(p) PROVE TypeOK'
  <2>1. /\ data' \in [Inodes -> Values \cup {None, Partial, Foreign}]
        /\ synced' \subseteq Inodes
    BY <1>16, ReclaimType DEF LoadFails
  <2>. QED  BY <1>16, <2>1 DEF LoadFails
<1>4. ASSUME NEW p \in Brokers, NEW v \in Values, Begin(p, v) PROVE TypeOK'
  BY <1>4 DEF Begin
<1>5. ASSUME NEW p \in Brokers, Create(p) PROVE TypeOK'
  <2>1. Fresh \in Inodes /\ counter[p] <= MaxCounter
    BY <1>5, FreshIsFree DEF Create, StepsDone, Done
  <2>2. TempName(p) \in Names /\ counter[p] + 1 \in 1 .. MaxCounter + 1
    BY <2>1 DEF TempName, Names
  <2>. QED  BY <1>5, <2>1, <2>2 DEF Create
<1>6. ASSUME NEW p \in Brokers, Abandon(p), pc[p] \in {"create", "write", "sync", "rename"},
             counter' \in [Brokers -> 1 .. MaxCounter + 1], faults' \in 0 .. MaxFaults
      PROVE  TypeOK'
  <2>1. /\ data' \in [Inodes -> Values \cup {None, Partial, Foreign}]
        /\ synced' \subseteq Inodes
    BY <1>6, ReclaimType DEF Abandon
  <2>. QED  BY <1>6, <2>1 DEF Abandon
<1>7. ASSUME NEW p \in Brokers, CreateFails(p) PROVE TypeOK'
  <2>1. counter[p] + 1 \in 1 .. MaxCounter + 1
    BY <1>7 DEF CreateFails, StepsDone, Done
  <2>. QED  BY <1>6, <1>7, <2>1 DEF CreateFails
<1>8. ASSUME NEW p \in Brokers, IoError(p) PROVE TypeOK'
  <2>1. pc[p] = "create" => counter[p] + 1 \in 1 .. MaxCounter + 1
    BY DEF StepsDone, Done
  <2>. QED  BY <1>6, <1>8, <2>1 DEF IoError
<1>9. ASSUME NEW p \in Brokers, Write(p) PROVE TypeOK'
  BY <1>9 DEF Write
<1>10. ASSUME NEW p \in Brokers, Sync(p) PROVE TypeOK'
  BY <1>10 DEF Sync
<1>11. ASSUME NEW p \in Brokers, Rename(p) PROVE TypeOK'
  <2>1. /\ data' \in [Inodes -> Values \cup {None, Partial, Foreign}]
        /\ synced' \subseteq Inodes
    BY <1>11, ReclaimType DEF Rename
  <2>2. unsettled' \subseteq Inodes \cup {None}  BY <1>11 DEF Rename
  <2>. QED  BY <1>11, <2>1, <2>2 DEF Rename
<1>12. ASSUME NEW ps \in SUBSET Brokers, End(ps)
       PROVE  /\ pc' \in [Brokers -> {"down", "open", "read", "idle", "create", "write",
                                      "sync", "rename"}]
              /\ counter' \in [Brokers -> 1 .. MaxCounter + 1]
              /\ value' \in [Brokers -> Values \cup {None}]
              /\ handle' \in [Brokers -> Inodes \cup {None}]
              /\ got' \in [Brokers -> Values \cup {None}]
              /\ stored' \in [Brokers -> BOOLEAN]
              /\ \A p \in Brokers :
                   /\ handle'[p] # None <=> pc'[p] \in {"read", "write", "sync", "rename"}
                   /\ value'[p] # None <=> pc'[p] \in {"create", "write", "sync", "rename"}
  <2>1. \A p \in ps : pc'[p] = "down" /\ value'[p] = None /\ handle'[p] = None
    BY <1>12 DEF End
  <2>2. \A p \in Brokers \ ps : pc'[p] = pc[p] /\ value'[p] = value[p] /\ handle'[p] = handle[p]
    BY <1>12 DEF End
  <2>3. stored' \in [Brokers -> BOOLEAN]
    <3>1. \A p \in Brokers : (IF p \in ps THEN FALSE ELSE stored[p]) \in BOOLEAN  OBVIOUS
    <3>. QED  BY <1>12, <3>1, Zenon DEF End
  <2>4. /\ pc' \in [Brokers -> {"down", "open", "read", "idle", "create", "write",
                               "sync", "rename"}]
        /\ counter' \in [Brokers -> 1 .. MaxCounter + 1]
        /\ value' \in [Brokers -> Values \cup {None}]
        /\ handle' \in [Brokers -> Inodes \cup {None}]
        /\ got' \in [Brokers -> Values \cup {None}]
    BY <1>12 DEF End
  <2>5. \A p \in Brokers :
          /\ handle'[p] # None <=> pc'[p] \in {"read", "write", "sync", "rename"}
          /\ value'[p] # None <=> pc'[p] \in {"create", "write", "sync", "rename"}
    BY <2>1, <2>2
  <2>. QED  BY <2>3, <2>4, <2>5
<1>13. ASSUME NEW p \in Brokers, Crash(p) PROVE TypeOK'
  <2>1. /\ data' \in [Inodes -> Values \cup {None, Partial, Foreign}]
        /\ synced' \subseteq Inodes
    BY <1>13, ReclaimType DEF Crash
  <2>. QED  BY <1>12, <1>13, <2>1 DEF Crash
<1>14. ASSUME Settle PROVE TypeOK'
  <2>1. /\ data' \in [Inodes -> Values \cup {None, Partial, Foreign}]
        /\ synced' \subseteq Inodes
    BY <1>14, ReclaimType DEF Settle
  <2>. QED  BY <1>14, <2>1 DEF Settle
<1>15. ASSUME PowerLoss PROVE TypeOK'
  <2>1. /\ data' \in [Inodes -> Values \cup {None, Partial, Foreign}]
        /\ synced' \subseteq Inodes
    BY <1>15, ReclaimType DEF PowerLoss
  <2>. QED  BY <1>12, <1>15, <2>1 DEF PowerLoss
<1>. QED
  BY <1>1, <1>2, <1>3, <1>4, <1>5, <1>7, <1>8, <1>9, <1>10, <1>11, <1>13, <1>14, <1>15,
     <1>16
     DEF Next, Proceed
-----------------------------------------------------------------------------
(* Whole entries. *)

\* The entry is whole when the inodes it may be were whole before.
LEMMA WholeKept ==
  ASSUME Reclaim(data, synced), entry' \in Inodes \cup {None},
         unsettled' \subseteq Inodes \cup {None},
         \A i \in {entry'} \cup unsettled' :
           i # None => data[i] \in Values \cup {Foreign} /\ i \in synced
  PROVE  EntryIsWhole'
<1>. SUFFICES ASSUME NEW i \in {entry'} \cup unsettled', i # None
              PROVE  data'[i] \in Values \cup {Foreign} /\ i \in synced'
  BY DEF EntryIsWhole
<1>1. i \in Inodes /\ i \in Used'  BY DEF Used
<1>2. data'[i] = data[i] /\ (i \in synced' <=> i \in synced)  BY <1>1, ReclaimKeeps
<1>. QED  BY <1>2

\* Processes end: nobody else's inode changes hands, and what is in use stays.
LEMMA EndKeeps ==
  ASSUME IInv, NEW ps \in SUBSET Brokers, End(ps), UNCHANGED <<entry, unsettled>>,
         Reclaim(data, synced)
  PROVE  EntryIsWhole' /\ WritersApart' /\ StepsDone'
<1>. USE DEF IInv, TypeOK
<1>1. \A q \in Brokers :
        \/ pc'[q] = "down" /\ handle'[q] = None
        \/ /\ pc'[q] = pc[q] /\ handle'[q] = handle[q]
           /\ value'[q] = value[q] /\ counter'[q] = counter[q]
  <2>1. \A q \in ps : pc'[q] = "down" /\ handle'[q] = None  BY DEF End
  <2>2. \A q \in Brokers \ ps : /\ pc'[q] = pc[q] /\ handle'[q] = handle[q]
                                /\ value'[q] = value[q] /\ counter'[q] = counter[q]
    BY DEF End
  <2>. QED  BY <2>1, <2>2
<1>2. EntryIsWhole'
  BY WholeKept DEF EntryIsWhole
<1>3. WritersApart'
  BY <1>1 DEF WritersApart, Apart, Writing
<1>4. StepsDone'
  <2>. SUFFICES ASSUME NEW q \in Brokers PROVE Done(q)'  BY DEF StepsDone
  <2>1. CASE pc'[q] = "down"  BY <2>1 DEF Done
  <2>2. CASE pc'[q] # "down"
    <3>1. handle'[q] \in Used'  BY DEF Used
    <3>2. pc'[q] \in {"sync", "rename"} => handle'[q] \in Inodes  BY <1>1, <2>2
    <3>. QED  BY <1>1, <2>2, <3>1, <3>2, ReclaimKeeps DEF Done, StepsDone
  <2>. QED  BY <2>1, <2>2
<1>. QED  BY <1>2, <1>3, <1>4

\* A store is abandoned, or a load ends: the process gives its inode away.
LEMMA GiveUpKeeps ==
  ASSUME IInv, NEW p \in Brokers, Goto(p, "idle"), handle' = [handle EXCEPT ![p] = None],
         \A q \in Brokers \ {p} : value'[q] = value[q] /\ counter'[q] = counter[q],
         UNCHANGED <<entry, unsettled>>, Reclaim(data, synced)
  PROVE  EntryIsWhole' /\ WritersApart' /\ StepsDone'
<1>. USE DEF IInv, TypeOK
<1>1. /\ pc'[p] = "idle" /\ handle'[p] = None
      /\ \A q \in Brokers \ {p} : pc'[q] = pc[q] /\ handle'[q] = handle[q]
  BY DEF Goto
<1>2. EntryIsWhole'
  BY WholeKept DEF EntryIsWhole
<1>3. WritersApart'
  <2>. SUFFICES ASSUME NEW q \in Brokers, Writing(q)' PROVE Apart(q)'  BY DEF WritersApart
  <2>1. q # p /\ Writing(q) /\ Apart(q) /\ handle[q] # None  BY <1>1 DEF Writing, WritersApart
  <2>. QED  BY <1>1, <2>1 DEF Apart
<1>4. StepsDone'
  <2>. SUFFICES ASSUME NEW q \in Brokers PROVE Done(q)'  BY DEF StepsDone
  <2>1. CASE q = p  BY <1>1, <2>1 DEF Done
  <2>2. CASE q # p
    <3>1. handle'[q] \in Used'  BY DEF Used
    <3>2. pc'[q] \in {"sync", "rename"} => handle'[q] \in Inodes  BY <1>1, <2>2
    <3>. QED  BY <1>1, <2>2, <3>1, <3>2, ReclaimKeeps DEF Done, StepsDone
  <2>. QED  BY <2>1, <2>2
<1>. QED  BY <1>2, <1>3, <1>4

\* Every step keeps the entry whole and the inodes of the writers apart.
LEMMA WholeStep ==
  ASSUME IInv, TypeOK', Next
  PROVE  EntryIsWhole' /\ WritersApart' /\ StepsDone'
<1>. DEFINE Kept == EntryIsWhole' /\ WritersApart' /\ StepsDone'
<1>. USE CacheFileAssumption DEF IInv, TypeOK, Goto, diskVars, processVars
<1>1. ASSUME NEW p \in Brokers, Start(p) PROVE Kept
  BY <1>1 DEF Start, EntryIsWhole, WritersApart, Apart, Writing, StepsDone, Done
<1>2. ASSUME NEW p \in Brokers, Open(p) PROVE Kept
  <2>1. /\ pc'[p] \in {"idle", "read"} /\ handle'[p] = entry
        /\ \A q \in Brokers \ {p} : pc'[q] = pc[q] /\ handle'[q] = handle[q]
        /\ UNCHANGED <<diskVars, counter, value>>
    BY <1>2 DEF Open
  <2>2. EntryIsWhole'  BY <2>1 DEF EntryIsWhole
  <2>3. WritersApart'  BY <2>1 DEF WritersApart, Apart, Writing
  <2>4. StepsDone'  BY <2>1 DEF StepsDone, Done
  <2>. QED  BY <2>2, <2>3, <2>4
<1>3. ASSUME NEW p \in Brokers, Read(p) \/ LoadFails(p) PROVE Kept
  BY <1>3, GiveUpKeeps DEF Read, LoadFails
<1>4. ASSUME NEW p \in Brokers, NEW v \in Values, Begin(p, v) PROVE Kept
  BY <1>4 DEF Begin, EntryIsWhole, WritersApart, Apart, Writing, StepsDone, Done
<1>5. ASSUME NEW p \in Brokers, Create(p) PROVE Kept
  <2>1. Fresh \in Inodes /\ Fresh \notin Used  BY <1>5, FreshIsFree DEF Create
  <2>2. /\ pc'[p] = "write" /\ handle'[p] = Fresh
        /\ \A q \in Brokers \ {p} : /\ pc'[q] = pc[q] /\ handle'[q] = handle[q]
                                    /\ value'[q] = value[q] /\ counter'[q] = counter[q]
        /\ UNCHANGED <<entry, unsettled>>
    BY <1>5 DEF Create
  <2>3. \A i \in Inodes \ {Fresh} : data'[i] = data[i] /\ (i \in synced' <=> i \in synced)
    BY <1>5, <2>1 DEF Create
  <2>4. EntryIsWhole'  BY <2>1, <2>2, <2>3 DEF EntryIsWhole, Used
  <2>5. WritersApart'
    <3>1. \A q \in Brokers \ {p} : handle[q] # Fresh  BY <2>1 DEF Used
    <3>2. Apart(p)'  BY <2>1, <2>2, <3>1 DEF Apart, Used
    <3>3. ASSUME NEW q \in Brokers \ {p}, Writing(q)' PROVE Apart(q)'
      BY <2>2, <3>1, <3>3 DEF Writing, Apart, WritersApart
    <3>. QED  BY <3>2, <3>3 DEF WritersApart
  <2>6. StepsDone'
    <3>1. Done(p)'  BY <2>2 DEF Done
    <3>2. ASSUME NEW q \in Brokers \ {p} PROVE Done(q)'
      <4>1. handle[q] # Fresh  BY <2>1 DEF Used
      <4>. QED  BY <2>2, <2>3, <4>1 DEF Done, StepsDone
    <3>. QED  BY <3>1, <3>2 DEF StepsDone
  <2>. QED  BY <2>4, <2>5, <2>6
<1>6. ASSUME NEW p \in Brokers, CreateFails(p) \/ IoError(p) PROVE Kept
  <2>1. /\ Goto(p, "idle") /\ handle' = [handle EXCEPT ![p] = None]
        /\ value' = [value EXCEPT ![p] = None]
        /\ UNCHANGED <<entry, unsettled>> /\ Reclaim(data, synced)
    BY <1>6 DEF CreateFails, IoError, Abandon
  <2>2. \A q \in Brokers \ {p} : value'[q] = value[q] /\ counter'[q] = counter[q]
    BY <1>6, <2>1 DEF CreateFails, IoError
  <2>. QED  BY <2>1, <2>2, GiveUpKeeps
<1>7. ASSUME NEW p \in Brokers, Write(p) PROVE Kept
  <2>1. Writing(p) /\ Apart(p) /\ handle[p] \in Inodes  BY <1>7 DEF Write, Writing, WritersApart
  <2>2. /\ pc'[p] = "sync" /\ \A q \in Brokers \ {p} : pc'[q] = pc[q]
        /\ UNCHANGED <<entry, unsettled, synced, handle, value, counter>>
        /\ data'[handle[p]] = value[p]
        /\ \A i \in Inodes \ {handle[p]} : data'[i] = data[i]
    BY <1>7, <2>1 DEF Write
  <2>3. EntryIsWhole'  BY <2>1, <2>2 DEF EntryIsWhole, Apart
  <2>4. WritersApart'
    <3>1. \A q \in Brokers : Writing(q)' => Writing(q)  BY <2>1, <2>2 DEF Writing
    <3>. QED  BY <2>2, <3>1 DEF WritersApart, Apart
  <2>5. StepsDone'
    <3>1. Done(p)'  BY <2>2 DEF Done
    <3>2. ASSUME NEW q \in Brokers \ {p} PROVE Done(q)'
      <4>1. handle[q] # handle[p]  BY <2>1 DEF Apart
      <4>. QED  BY <2>2, <4>1 DEF Done, StepsDone
    <3>. QED  BY <3>1, <3>2 DEF StepsDone
  <2>. QED  BY <2>3, <2>4, <2>5
<1>8. ASSUME NEW p \in Brokers, Sync(p) PROVE Kept
  <2>1. /\ pc'[p] = "rename" /\ \A q \in Brokers \ {p} : pc'[q] = pc[q]
        /\ UNCHANGED <<entry, unsettled, data, handle, value, counter>>
        /\ synced' = synced \cup {handle[p]} /\ pc[p] = "sync"
    BY <1>8 DEF Sync
  <2>2. EntryIsWhole'  BY <2>1 DEF EntryIsWhole
  <2>3. WritersApart'
    <3>1. \A q \in Brokers : Writing(q)' => Writing(q)  BY <2>1 DEF Writing
    <3>. QED  BY <2>1, <3>1 DEF WritersApart, Apart
  <2>4. StepsDone'  BY <2>1 DEF StepsDone, Done
  <2>. QED  BY <2>2, <2>3, <2>4
<1>9. ASSUME NEW p \in Brokers, Rename(p) PROVE Kept
  <2>1. /\ pc[p] = "rename" /\ Apart(p) /\ handle[p] \in Inodes /\ value[p] \in Values
        /\ data[handle[p]] = value[p] /\ handle[p] \in synced
    BY <1>9 DEF Rename, Writing, WritersApart, StepsDone, Done
  <2>2. /\ pc'[p] = "idle" /\ handle'[p] = None /\ entry' = handle[p]
        /\ \A q \in Brokers \ {p} : pc'[q] = pc[q] /\ handle'[q] = handle[q] /\ value'[q] = value[q]
        /\ unsettled' \subseteq {entry} \cup unsettled
        /\ Reclaim(data, synced) /\ UNCHANGED counter
    BY <1>9 DEF Rename
  <2>3. EntryIsWhole'  BY <2>1, <2>2, WholeKept DEF EntryIsWhole
  <2>4. WritersApart'
    <3>. SUFFICES ASSUME NEW q \in Brokers, Writing(q)' PROVE Apart(q)'  BY DEF WritersApart
    <3>1. q # p /\ Writing(q) /\ Apart(q) /\ handle[q] # None  BY <2>2 DEF Writing, WritersApart
    <3>. QED  BY <2>1, <2>2, <3>1 DEF Apart
  <2>5. StepsDone'
    <3>. SUFFICES ASSUME NEW q \in Brokers PROVE Done(q)'  BY DEF StepsDone
    <3>1. CASE q = p  BY <2>2, <3>1 DEF Done
    <3>2. CASE q # p
      <4>1. handle'[q] \in Used'  BY DEF Used
      <4>2. pc'[q] \in {"sync", "rename"} => handle'[q] \in Inodes  BY <2>2, <3>2
      <4>. QED  BY <2>2, <3>2, <4>1, <4>2, ReclaimKeeps DEF Done, StepsDone
    <3>. QED  BY <3>1, <3>2
  <2>. QED  BY <2>3, <2>4, <2>5
<1>10. ASSUME NEW p \in Brokers, Crash(p) PROVE Kept
  BY <1>10, EndKeeps DEF Crash
<1>11. ASSUME Settle PROVE Kept
  <2>1. UNCHANGED <<entry, pc, handle, value, counter>> /\ unsettled' = {} /\ Reclaim(data, synced)
    BY <1>11 DEF Settle
  <2>2. EntryIsWhole'  BY <2>1, WholeKept DEF EntryIsWhole
  <2>3. WritersApart'  BY <2>1 DEF WritersApart, Apart, Writing
  <2>4. StepsDone'
    <3>. SUFFICES ASSUME NEW q \in Brokers PROVE Done(q)'  BY DEF StepsDone
    <3>1. handle'[q] \in Used'  BY DEF Used
    <3>2. pc'[q] \in {"sync", "rename"} => handle'[q] \in Inodes  BY <2>1
    <3>. QED  BY <2>1, <3>1, <3>2, ReclaimKeeps DEF Done, StepsDone
  <2>. QED  BY <2>2, <2>3, <2>4
<1>12. ASSUME PowerLoss PROVE Kept
  <2>1. /\ \A q \in Brokers : pc'[q] = "down"
        /\ entry' \in unsettled \cup {entry} /\ unsettled' = {}
        /\ Reclaim([i \in Inodes |-> IF i \in synced THEN data[i] ELSE Partial], synced)
    BY <1>12 DEF PowerLoss, End
  <2>2. EntryIsWhole'
    <3>. SUFFICES ASSUME entry' # None PROVE data'[entry'] \in Values \cup {Foreign} /\ entry' \in synced'
      BY <2>1 DEF EntryIsWhole
    <3>1. entry' \in Inodes /\ entry' \in Used'  BY DEF Used
    <3>2. data[entry'] \in Values \cup {Foreign} /\ entry' \in synced
      BY <2>1 DEF EntryIsWhole
    <3>. QED  BY <2>1, <3>1, <3>2, ReclaimKeeps
  <2>3. WritersApart' /\ StepsDone'
    BY <2>1 DEF WritersApart, Writing, StepsDone, Done
  <2>. QED  BY <2>2, <2>3
<1>. QED
  BY <1>1, <1>2, <1>3, <1>4, <1>5, <1>6, <1>7, <1>8, <1>9, <1>10, <1>11, <1>12
     DEF Next, Proceed

-----------------------------------------------------------------------------
(* The invariant. *)

\* At the start the entry is whole and nobody writes.
LEMMA InitInv == Init => IInv
<1>. SUFFICES ASSUME Init PROVE IInv  OBVIOUS
<1>. USE CacheFileAssumption DEF Init
<1>1. data \in [Inodes -> Values \cup {None, Partial, Foreign}] /\ 1 \in Inodes
  BY DEF Inodes
<1>2. stored \in [Brokers -> BOOLEAN]  OBVIOUS
<1>3. TypeOK  BY <1>1, <1>2 DEF TypeOK
<1>4. EntryIsWhole  BY <1>1 DEF EntryIsWhole
<1>5. WritersApart /\ StepsDone  BY DEF WritersApart, Writing, StepsDone, Done
<1>. QED  BY <1>3, <1>4, <1>5 DEF IInv

\* Every step keeps the invariant.
LEMMA StepInv == IInv /\ [Next]_vars => IInv'
<1>. SUFFICES ASSUME IInv, [Next]_vars PROVE IInv'  OBVIOUS
<1>1. CASE Next
  <2>1. TypeOK'  BY <1>1, TypeStep DEF IInv
  <2>. QED  BY <1>1, <2>1, WholeStep DEF IInv
<1>2. CASE UNCHANGED vars
  BY <1>2 DEF IInv, vars, diskVars, processVars, TypeOK, EntryIsWhole, WritersApart, Apart,
              Writing, StepsDone, Done
<1>. QED  BY <1>1, <1>2

\* The invariant holds in every state of every behaviour.
THEOREM Invariance == Spec => []IInv
  BY InitInv, StepInv, PTL DEF Spec

\* Whatever the faults, crashes and power losses, files and processes are what the
\* modules of the caches expect.
THEOREM TypeCorrect == Spec => []TypeOK
<1>1. IInv => TypeOK  BY DEF IInv
<1>. QED  BY <1>1, Invariance, PTL

\* No load ever finds a half-written entry: the file that the name of the entry refers
\* to was written and synced before the rename in store.
THEOREM EntryStaysWhole == Spec => []EntryIsWhole
<1>1. IInv => EntryIsWhole  BY DEF IInv
<1>. QED  BY <1>1, Invariance, PTL

-----------------------------------------------------------------------------
(* CacheFile implements AtomicFile. *)

\* The state of AtomicFile: the refinement mapping of File.
Content == ContentOf(entry)
Older == {ContentOf(i) : i \in unsettled}
Loaded(p) == IF pc[p] = "read" THEN ContentOf(handle[p]) ELSE got[p]
Got == [p \in Brokers |-> Loaded(p)]

\* The content of the entry only changes when another file takes its name.
LEMMA ContentStays ==
  ASSUME \A i \in {entry'} \cup unsettled' : i # None => data'[i] = data[i]
  PROVE  /\ entry' = entry => Content' = Content
         /\ unsettled' = unsettled => Older' = Older
         /\ entry' \in unsettled \cup {entry} => Content' \in Older \cup {Content}
<1>. DEFINE C(d, i) == IF i = None THEN None ELSE Parse(d[i])
<1>1. \A i \in {entry'} \cup unsettled' : C(data', i) = C(data, i)  OBVIOUS
<1>2. /\ Content = C(data, entry) /\ Content' = C(data', entry')
      /\ Older = {C(data, i) : i \in unsettled}
      /\ Older' = {C(data', i) : i \in unsettled'}
  BY DEF Content, Older, ContentOf
<1>. HIDE DEF C
<1>. QED  BY <1>1, <1>2

\* A file that a process has open keeps its content until it is read.
LEMMA LoadedStays ==
  ASSUME NEW p \in Brokers,
         pc[p] = "read" <=> pc'[p] = "read",
         IF pc[p] = "read"
           THEN handle'[p] = handle[p] /\ (handle[p] # None => data'[handle[p]] = data[handle[p]])
           ELSE got'[p] = got[p]
  PROVE  Loaded(p)' = Loaded(p)
BY DEF Loaded, ContentOf

\* What Reclaim leaves of the files in use.
LEMMA ReclaimStays ==
  ASSUME TypeOK', Reclaim(data, synced)
  PROVE  /\ \A i \in {entry'} \cup unsettled' : i # None => data'[i] = data[i]
         /\ \A p \in Brokers : handle'[p] # None => data'[handle'[p]] = data[handle'[p]]
<1>1. \A i \in Used' : i # None => i \in Inodes  BY DEF TypeOK, Used
<1>2. \A i \in Used' : i # None => data'[i] = data[i]  BY <1>1, ReclaimKeeps
<1>. QED  BY <1>2 DEF Used

\* The first file is a content, and nobody stores or loads.
LEMMA FileInit == Init => File!Init
<1>. SUFFICES ASSUME Init PROVE File!Init  OBVIOUS
<1>1. Content \in Values \cup {None}  BY DEF Init, Content, ContentOf, Parse
<1>2. Older = {}  BY DEF Init, Older
<1>3. Got = [p \in Brokers |-> None]  BY DEF Init, Got, Loaded
<1>. QED
  BY <1>1, <1>2, <1>3 DEF Init, File!Init, File!Contents, Content, Older, Got, Loaded

\* A step of a process in which the file and the loads of the others stay.
LEMMA Elsewhere ==
  ASSUME TypeOK, TypeOK', NEW p \in Brokers,
         \A q \in Brokers \ {p} : pc'[q] = pc[q] /\ handle'[q] = handle[q] /\ got'[q] = got[q],
         UNCHANGED <<entry, unsettled>>,
         \A i \in Used' : i # None => data'[i] = data[i]
  PROVE  /\ UNCHANGED <<Content, Older>>
         /\ \A q \in Brokers \ {p} : Loaded(q)' = Loaded(q)
<1>1. \A i \in {entry'} \cup unsettled' : i # None => data'[i] = data[i]  BY DEF Used
<1>2. UNCHANGED <<Content, Older>>  BY <1>1, ContentStays
<1>3. ASSUME NEW q \in Brokers \ {p} PROVE Loaded(q)' = Loaded(q)
  <2>1. handle[q] \in Used'  BY DEF Used
  <2>. QED  BY <2>1, LoadedStays
<1>. QED  BY <1>2, <1>3

\* What a process does within a store or a load is no step of the file; the rename and
\* the opening are the moments at which they take place.
LEMMA FileStep ==
  ASSUME IInv, IInv', [Next]_vars
  PROVE  [File!Next]_File!vars
<1>. DEFINE Stutter == UNCHANGED <<Content, Older, value, Got>>
<1>. DEFINE Others(p) == \A q \in Brokers \ {p} : Loaded(q)' = Loaded(q)
<1>. USE CacheFileAssumption DEF IInv, TypeOK, Goto, diskVars, processVars
<1>0. Stutter => UNCHANGED File!vars
  BY DEF File!vars, Content, Older, Got, Loaded
<1>1. ASSUME NEW p \in Brokers, Start(p) PROVE Stutter
  BY <1>1 DEF Start, Content, Older, Got, Loaded, ContentOf
<1>2. ASSUME NEW p \in Brokers, Open(p) PROVE Stutter \/ File!Load(p)
  <2>1. UNCHANGED <<Content, Older, value>> /\ Others(p)
    BY <1>2, Elsewhere DEF Open
  <2>2. CASE entry # None
    <3>1. Loaded(p)' = Content
      BY <1>2, <2>2 DEF Open, Loaded, Content, ContentOf
    <3>2. Got' = [Got EXCEPT ![p] = Content]  BY <2>1, <3>1 DEF Got
    <3>. QED  BY <2>1, <3>2 DEF File!Load, Content, Older, Got, Loaded
  <2>3. CASE entry = None
    <3>1. Loaded(p)' = Loaded(p)  BY <1>2, <2>3, LoadedStays DEF Open
    <3>. QED  BY <2>1, <3>1 DEF Got
  <2>. QED  BY <2>2, <2>3
<1>3. ASSUME NEW p \in Brokers, Read(p) PROVE Stutter
  <2>1. \A i \in Used' : i # None => data'[i] = data[i]
    BY <1>3, ReclaimStays DEF Read, Used
  <2>2. UNCHANGED <<Content, Older, value>> /\ Others(p)
    BY <1>3, <2>1, Elsewhere DEF Read
  <2>3. Loaded(p)' = Loaded(p)  BY <1>3 DEF Read, Loaded
  <2>. QED  BY <2>2, <2>3 DEF Got
<1>14. ASSUME NEW p \in Brokers, LoadFails(p) PROVE File!LoadFails(p)
  <2>1. \A i \in Used' : i # None => data'[i] = data[i]
    BY <1>14, ReclaimStays DEF LoadFails, Used
  <2>2. UNCHANGED <<Content, Older, value>> /\ Others(p)
    BY <1>14, <2>1, Elsewhere DEF LoadFails
  <2>3. Loaded(p)' = None  BY <1>14 DEF LoadFails, Loaded
  <2>4. Got' = [Got EXCEPT ![p] = None]  BY <2>2, <2>3 DEF Got
  <2>. QED  BY <2>2, <2>4 DEF File!LoadFails, Content, Older, Got, Loaded
<1>4. ASSUME NEW p \in Brokers, NEW v \in Values, Begin(p, v) PROVE File!Begin(p, v)
  <2>1. UNCHANGED <<Content, Older>> /\ Others(p)  BY <1>4, Elsewhere DEF Begin
  <2>2. Loaded(p)' = None  BY <1>4 DEF Begin, Loaded
  <2>3. value[p] = None /\ value' = [value EXCEPT ![p] = v]  BY <1>4 DEF Begin
  <2>4. Got' = [Got EXCEPT ![p] = None]  BY <2>1, <2>2 DEF Got
  <2>. QED  BY <2>1, <2>3, <2>4 DEF File!Begin, Content, Older, Got, Loaded
<1>5. ASSUME NEW p \in Brokers, Create(p) PROVE Stutter
  <2>1. Fresh \in Inodes /\ Fresh \notin Used  BY <1>5, FreshIsFree DEF Create
  <2>2. \A i \in Inodes \ {Fresh} : data'[i] = data[i]  BY <1>5, <2>1 DEF Create
  <2>3. /\ \A i \in {entry'} \cup unsettled' : i # None => data'[i] = data[i]
        /\ \A q \in Brokers : handle[q] # None => data'[handle[q]] = data[handle[q]]
    BY <1>5, <2>1, <2>2 DEF Create, Used
  <2>4. UNCHANGED <<Content, Older, value>>  BY <1>5, <2>3, ContentStays DEF Create
  <2>5. \A q \in Brokers : Loaded(q)' = Loaded(q)  BY <1>5, <2>3, LoadedStays DEF Create
  <2>. QED  BY <2>4, <2>5 DEF Got
<1>6. ASSUME NEW p \in Brokers, CreateFails(p) \/ IoError(p) PROVE File!Fail(p)
  <2>1. /\ Abandon(p) /\ value[p] # None /\ pc[p] # "read"
    BY <1>6 DEF CreateFails, IoError
  <2>2. \A i \in Used' : i # None => data'[i] = data[i]
    BY <2>1, ReclaimStays DEF Abandon, Used
  <2>3. UNCHANGED <<Content, Older>> /\ Others(p)
    BY <2>1, <2>2, Elsewhere DEF Abandon
  <2>4. Loaded(p)' = Loaded(p) /\ value' = [value EXCEPT ![p] = None]
    BY <2>1 DEF Abandon, Loaded
  <2>. QED  BY <2>1, <2>3, <2>4 DEF File!Fail, Content, Older, Got, Loaded
<1>7. ASSUME NEW p \in Brokers, Write(p) PROVE Stutter
  <2>1. Writing(p) /\ Apart(p) /\ handle[p] \in Inodes  BY <1>7 DEF Write, Writing, WritersApart
  <2>2. \A i \in Inodes \ {handle[p]} : data'[i] = data[i]  BY <1>7, <2>1 DEF Write
  <2>3. /\ \A i \in {entry'} \cup unsettled' : i # None => data'[i] = data[i]
        /\ \A q \in Brokers \ {p} : handle[q] # None => data'[handle[q]] = data[handle[q]]
    BY <1>7, <2>1, <2>2 DEF Write, Apart
  <2>4. UNCHANGED <<Content, Older, value>>  BY <1>7, <2>3, ContentStays DEF Write
  <2>5. \A q \in Brokers : Loaded(q)' = Loaded(q)  BY <1>7, <2>3, LoadedStays DEF Write
  <2>. QED  BY <2>4, <2>5 DEF Got
<1>8. ASSUME NEW p \in Brokers, Sync(p) PROVE Stutter
  <2>1. UNCHANGED <<Content, Older, value>> /\ Others(p)  BY <1>8, Elsewhere DEF Sync
  <2>2. Loaded(p)' = Loaded(p)  BY <1>8 DEF Sync, Loaded
  <2>. QED  BY <2>1, <2>2 DEF Got
<1>9. ASSUME NEW p \in Brokers, Rename(p) PROVE File!Commit(p)
  <2>1. /\ \A i \in {entry'} \cup unsettled' : i # None => data'[i] = data[i]
        /\ \A q \in Brokers : handle'[q] # None => data'[handle'[q]] = data[handle'[q]]
    BY <1>9, ReclaimStays DEF Rename
  <2>2. value[p] \in Values /\ handle[p] # None /\ data[handle[p]] = value[p]
    BY <1>9 DEF Rename, StepsDone, Done
  <2>3. Content' = value[p]
    BY <1>9, <2>1, <2>2 DEF Rename, Content, ContentOf, Parse
  <2>4. \A i \in unsettled' : ContentOf(i)' = ContentOf(i)  BY <2>1 DEF ContentOf
  <2>5. Older' \in {{Content}, Older \cup {Content}}
    <3>1. unsettled' = {entry} \/ unsettled' = {entry} \cup unsettled  BY <1>9 DEF Rename
    <3>2. Older' = {ContentOf(i) : i \in unsettled'}  BY <2>4 DEF Older
    <3>3. CASE unsettled' = {entry}
      <4>1. Older' = {Content}  BY <3>2, <3>3 DEF Content
      <4>. QED  BY <4>1
    <3>4. CASE unsettled' = {entry} \cup unsettled
      <4>1. {ContentOf(i) : i \in {entry} \cup unsettled} = {Content} \cup Older
        BY DEF Content, Older
      <4>. QED  BY <3>2, <3>4, <4>1
    <3>. QED  BY <3>1, <3>3, <3>4
  <2>6. \A q \in Brokers : Loaded(q)' = Loaded(q)
    BY <1>9, <2>1, LoadedStays DEF Rename
  <2>7. value' = [value EXCEPT ![p] = None]  BY <1>9 DEF Rename
  <2>. QED  BY <2>2, <2>3, <2>5, <2>6, <2>7 DEF File!Commit, Content, Older, Got, Loaded
<1>10. ASSUME NEW p \in Brokers, Crash(p) PROVE File!End(p)
  <2>1. \A i \in Used' : i # None => data'[i] = data[i]
    BY <1>10, ReclaimStays DEF Crash, Used
  <2>2. /\ pc'[p] = "down" /\ got'[p] = None /\ value' = [value EXCEPT ![p] = None]
        /\ \A q \in Brokers \ {p} : pc'[q] = pc[q] /\ handle'[q] = handle[q] /\ got'[q] = got[q]
    BY <1>10 DEF Crash, End
  <2>3. UNCHANGED <<Content, Older>> /\ Others(p)
    BY <1>10, <2>1, <2>2, Elsewhere DEF Crash
  <2>4. Loaded(p)' = None  BY <2>2 DEF Loaded
  <2>5. Got' = [Got EXCEPT ![p] = None]  BY <2>3, <2>4 DEF Got
  <2>. QED  BY <2>2, <2>3, <2>5 DEF File!End, Content, Older, Got, Loaded
<1>11. ASSUME Settle PROVE File!Settle
  <2>1. /\ \A i \in {entry'} \cup unsettled' : i # None => data'[i] = data[i]
        /\ \A q \in Brokers : handle'[q] # None => data'[handle'[q]] = data[handle'[q]]
    BY <1>11, ReclaimStays DEF Settle
  <2>2. Content' = Content  BY <1>11, <2>1, ContentStays DEF Settle
  <2>3. Older' = {}  BY <1>11 DEF Settle, Older
  <2>4. \A q \in Brokers : Loaded(q)' = Loaded(q)  BY <1>11, <2>1, LoadedStays DEF Settle
  <2>5. value' = value  BY <1>11 DEF Settle
  <2>. QED  BY <2>2, <2>3, <2>4, <2>5 DEF File!Settle, Content, Older, Got, Loaded
<1>12. ASSUME PowerLoss PROVE File!PowerLoss
  <2>1. /\ \A q \in Brokers : pc'[q] = "down" /\ got'[q] = None
        /\ value' = [q \in Brokers |-> None]
        /\ entry' \in unsettled \cup {entry} /\ unsettled' = {}
        /\ Reclaim([i \in Inodes |-> IF i \in synced THEN data[i] ELSE Partial], synced)
    BY <1>12 DEF PowerLoss, End
  <2>2. entry' # None => data'[entry'] = data[entry']
    <3>. SUFFICES ASSUME entry' # None PROVE data'[entry'] = data[entry']  OBVIOUS
    <3>1. entry' \in Inodes /\ entry' \in Used' /\ entry' \in synced
      BY <2>1 DEF Used, EntryIsWhole
    <3>. QED  BY <2>1, <3>1, ReclaimKeeps
  <2>3. Content' \in Older \cup {Content}  BY <2>1, <2>2, ContentStays
  <2>4. Older' = {}  BY <2>1 DEF Older
  <2>5. \A q \in Brokers : Loaded(q)' = None  BY <2>1 DEF Loaded
  <2>. QED  BY <2>1, <2>3, <2>4, <2>5 DEF File!PowerLoss, Content, Older, Got, Loaded
<1>13. ASSUME UNCHANGED vars PROVE Stutter
  BY <1>13 DEF vars, Content, Older, Got, Loaded, ContentOf
<1>. HIDE DEF Stutter, Others
<1>. QED
  BY <1>0, <1>1, <1>2, <1>3, <1>4, <1>5, <1>6, <1>7, <1>8, <1>9, <1>10, <1>11, <1>12, <1>13,
     <1>14
     DEF Next, Proceed, File!Next

\* The brokers see an atomic file: a store takes place at one moment or not at all, whatever
\* other brokers do, and a power loss brings back a content the file has had.
THEOREM Refinement == Spec => StoreIsAtomic
  BY FileInit, FileStep, InitInv, StepInv, PTL DEF Spec, StoreIsAtomic, File!Spec
=============================================================================
