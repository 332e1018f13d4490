----------------------------- MODULE CacheFile ------------------------------
(***************************************************************************)
(* One entry file of the persistent caches (CatalogCache of version 2,      *)
(* catalog_cache.rs; UpstreamDefinitionCache of version 3,                  *)
(* upstream_definition_cache.rs) and the brokers that load and store it:    *)
(* every broker of the same configuration, or of the same target. Each      *)
(* loads it once, when it starts, and may store it when a discovery brings  *)
(* something new. A store writes a temporary file, named for the process id *)
(* and a counter of the process, and renames it. A broker is known by its    *)
(* process id: one that starts after another ended has a recycled id, and   *)
(* its counter begins at 1 again.                                           *)
(*                                                                          *)
(* Files are inodes, so that an open file and its name are two things. The  *)
(* calls of the file system are external: their steps are what the code     *)
(* relies on (POSIX: an exclusive creation, an atomic rename, and fsync of  *)
(* the file but not of its directory).                                      *)
(***************************************************************************)
EXTENDS Naturals, FiniteSets

CONSTANTS
  Brokers,     \* process ids of the brokers that use the file
  Values,      \* contents that store accepts: within the limits, names that match
  None,        \* no file, no content
  Partial,     \* what an incomplete write leaves
  Foreign,     \* content that load does not accept: another format or identity
  MaxInodes,   \* bound: files at one time
  MaxCounter,  \* bound: temporary files a process creates
  MaxUnsettled,\* bound: renames that are not on the disk yet
  MaxFaults    \* bound: failing writes, killed processes and power losses

Inodes == 1 .. MaxInodes
Names == Brokers \X (1 .. MaxCounter)

ASSUME CacheFileAssumption ==
  /\ {None, Partial, Foreign} \cap Values = {}
  /\ None # Partial /\ None # Foreign /\ Partial # Foreign
  /\ None \notin Inodes
  /\ MaxInodes \in Nat \ {0}
  /\ MaxCounter \in Nat /\ MaxUnsettled \in Nat /\ MaxFaults \in Nat

VARIABLES
  entry,    \* the inode of the entry file
  temps,    \* the names of temporary files that exist
  data,     \* the content of an inode
  synced,   \* inodes whose content is on the disk
  unsettled,\* inodes the entry may be again after a power loss
  pc,       \* where a process stands
  counter,  \* NEXT_TEMP_ID
  value,    \* what it is storing
  handle,   \* the inode it has open
  got,      \* what load returned, until the next store
  stored,   \* a store of this process succeeded
  faults

diskVars == <<entry, temps, data, synced, unsettled>>
processVars == <<pc, counter, value, handle, got, stored>>
vars == <<diskVars, processVars, faults>>

TypeOK ==
  /\ entry \in Inodes \cup {None}
  /\ temps \subseteq Names
  /\ data \in [Inodes -> Values \cup {None, Partial, Foreign}]
  /\ synced \subseteq Inodes /\ unsettled \subseteq Inodes \cup {None}
  /\ pc \in [Brokers -> {"down", "open", "read", "idle", "create", "write", "sync", "rename"}]
  /\ counter \in [Brokers -> 1 .. MaxCounter + 1]
  /\ value \in [Brokers -> Values \cup {None}]
  /\ handle \in [Brokers -> Inodes \cup {None}]
  /\ got \in [Brokers -> Values \cup {None}]
  /\ stored \in [Brokers -> BOOLEAN]
  /\ faults \in 0 .. MaxFaults
  /\ \A p \in Brokers :
       /\ handle[p] # None <=> pc[p] \in {"read", "write", "sync", "rename"}
       /\ value[p] # None <=> pc[p] \in {"create", "write", "sync", "rename"}

\* The cache holds nothing, or what an earlier broker or somebody else left.
Init ==
  /\ \/ entry = None /\ data = [i \in Inodes |-> None] /\ synced = {}
     \/ /\ entry = 1 /\ synced = {1}
        /\ \E c \in Values \cup {Foreign} : data = [i \in Inodes |-> IF i = 1 THEN c ELSE None]
  /\ temps = {}
  /\ unsettled = {}
  /\ pc = [p \in Brokers |-> "down"]
  /\ counter = [p \in Brokers |-> 1]
  /\ value = [p \in Brokers |-> None]
  /\ handle = [p \in Brokers |-> None]
  /\ got = [p \in Brokers |-> None]
  /\ stored = [p \in Brokers |-> FALSE]
  /\ faults = 0

-----------------------------------------------------------------------------
Goto(p, point) == pc' = [pc EXCEPT ![p] = point]

\* The file system keeps the inodes of the entry and of open files. A temporary
\* file nobody has open keeps its name only: nobody will read it.
Used == {entry} \cup {handle[p] : p \in Brokers} \cup unsettled
Reclaim(content, whole) ==
  /\ data' = [i \in Inodes |-> IF i \in Used' THEN content[i] ELSE None]
  /\ synced' = whole \cap Used'
Fresh == CHOOSE i \in Inodes : i \notin Used

\* What load makes of a file: the stored content, or nothing.
Parse(c) == IF c \in Values THEN c ELSE None
ContentOf(i) == IF i = None THEN None ELSE Parse(data[i])

TempName(p) == <<p, counter[p]>>

-----------------------------------------------------------------------------
(* A process and its load. *)

Start(p) ==
  /\ pc[p] = "down"
  /\ Goto(p, "open")
  /\ UNCHANGED <<diskVars, counter, value, handle, got, stored, faults>>

Open(p) ==
  /\ pc[p] = "open"
  /\ handle' = [handle EXCEPT ![p] = entry]
  /\ Goto(p, IF entry = None THEN "idle" ELSE "read")
  /\ UNCHANGED <<diskVars, counter, value, got, stored, faults>>

Read(p) ==
  /\ pc[p] = "read"
  /\ got' = [got EXCEPT ![p] = ContentOf(handle[p])]
  /\ handle' = [handle EXCEPT ![p] = None]
  /\ Goto(p, "idle")
  /\ UNCHANGED <<entry, temps, unsettled, counter, value, stored, faults>>
  /\ Reclaim(data, synced)

\* It cannot be opened or read, and is taken for no entry: nothing is reported.
LoadFails(p) ==
  /\ pc[p] \in {"open", "read"}
  /\ got' = [got EXCEPT ![p] = None]
  /\ handle' = [handle EXCEPT ![p] = None]
  /\ Goto(p, "idle")
  /\ UNCHANGED <<entry, temps, unsettled, counter, value, stored, faults>>
  /\ Reclaim(data, synced)

-----------------------------------------------------------------------------
(* store *)

Begin(p, v) ==
  /\ pc[p] = "idle" /\ counter[p] <= MaxCounter
  /\ value' = [value EXCEPT ![p] = v]
  /\ got' = [got EXCEPT ![p] = None]
  /\ Goto(p, "create")
  /\ UNCHANGED <<diskVars, counter, handle, stored, faults>>

\* Mutant of Create: the entry file is opened and truncated in place.
CreateInPlace(p) ==
  LET i == IF entry = None THEN Fresh ELSE entry IN
  /\ pc[p] = "create"
  /\ entry' = i
  /\ data' = [data EXCEPT ![i] = Partial]
  /\ synced' = synced \ {i}
  /\ handle' = [handle EXCEPT ![p] = i]
  /\ counter' = [counter EXCEPT ![p] = @ + 1]
  /\ Goto(p, "write")
  /\ UNCHANGED <<temps, unsettled, value, got, stored, faults>>

\* create_new: the temporary file must not exist.
Create(p) ==
  LET n == TempName(p) IN
  /\ pc[p] = "create" /\ n \notin temps /\ Inodes \ Used # {}
  /\ temps' = temps \cup {n}
  /\ data' = [data EXCEPT ![Fresh] = Partial]
  /\ synced' = synced \ {Fresh}
  /\ handle' = [handle EXCEPT ![p] = Fresh]
  /\ counter' = [counter EXCEPT ![p] = @ + 1]
  /\ Goto(p, "write")
  /\ UNCHANGED <<entry, unsettled, value, got, stored, faults>>

\* Mutant of Abandon: the file stays open.
AbandonOpen(p) ==
  /\ value' = [value EXCEPT ![p] = None]
  /\ Goto(p, "idle")
  /\ UNCHANGED <<diskVars, handle, got, stored>>

\* The store returns an error; a temporary file it created stays.
Abandon(p) ==
  /\ value' = [value EXCEPT ![p] = None]
  /\ handle' = [handle EXCEPT ![p] = None]
  /\ Goto(p, "idle")
  /\ UNCHANGED <<entry, temps, unsettled, got, stored>>
  /\ Reclaim(data, synced)

\* Mutant of CreateFails: the counter only moves when a file was created.
CreateFailsUncounted(p) ==
  /\ pc[p] = "create" /\ TempName(p) \in temps
  /\ Abandon(p)
  /\ UNCHANGED <<counter, faults>>

\* A file of that name was left by a process that had this id. The counter has
\* moved: the next store takes another name.
CreateFails(p) ==
  /\ pc[p] = "create" /\ TempName(p) \in temps
  /\ counter' = [counter EXCEPT ![p] = @ + 1]
  /\ Abandon(p)
  /\ UNCHANGED faults

Write(p) ==
  /\ pc[p] = "write"
  /\ data' = [data EXCEPT ![handle[p]] = value[p]]
  /\ Goto(p, "sync")
  /\ UNCHANGED <<entry, temps, synced, unsettled, counter, value, handle, got, stored,
                 faults>>

\* Mutant of Sync: the content is left to the operating system.
SyncLater(p) ==
  /\ pc[p] = "sync"
  /\ Goto(p, "rename")
  /\ UNCHANGED <<diskVars, counter, value, handle, got, stored, faults>>

Sync(p) ==
  /\ pc[p] = "sync"
  /\ synced' = synced \cup {handle[p]}
  /\ Goto(p, "rename")
  /\ UNCHANGED <<entry, temps, data, unsettled, counter, value, handle, got, stored, faults>>

Rename(p) ==
  /\ pc[p] = "rename"
  /\ entry' = handle[p]
  /\ temps' = temps \ {<<p, counter[p] - 1>>}
  /\ unsettled' = {entry} \cup IF Cardinality(unsettled) < MaxUnsettled THEN unsettled ELSE {}
  /\ stored' = [stored EXCEPT ![p] = TRUE]
  /\ value' = [value EXCEPT ![p] = None]
  /\ handle' = [handle EXCEPT ![p] = None]
  /\ Goto(p, "idle")
  /\ UNCHANGED <<counter, got, faults>>
  /\ Reclaim(data, synced)

-----------------------------------------------------------------------------
(* Faults, and what the operating system does by itself. *)

\* create_dir_all, open, write_all, sync_all or rename fails. The counter moves
\* between the first two.
IoError(p) ==
  /\ pc[p] \in {"create", "write", "sync", "rename"} /\ faults < MaxFaults
  /\ faults' = faults + 1
  /\ \/ UNCHANGED counter
     \/ pc[p] = "create" /\ counter' = [counter EXCEPT ![p] = @ + 1]
  /\ Abandon(p)

End(ps) ==
  /\ pc' = [p \in Brokers |-> IF p \in ps THEN "down" ELSE pc[p]]
  /\ counter' = [p \in Brokers |-> IF p \in ps THEN 1 ELSE counter[p]]
  /\ value' = [p \in Brokers |-> IF p \in ps THEN None ELSE value[p]]
  /\ handle' = [p \in Brokers |-> IF p \in ps THEN None ELSE handle[p]]
  /\ got' = [p \in Brokers |-> IF p \in ps THEN None ELSE got[p]]
  /\ stored' = [p \in Brokers |-> IF p \in ps THEN FALSE ELSE stored[p]]

\* The process ends at any point, between two stores or within one.
Crash(p) ==
  /\ pc[p] # "down" /\ faults < MaxFaults
  /\ faults' = faults + 1
  /\ End({p})
  /\ UNCHANGED <<entry, temps, unsettled>>
  /\ Reclaim(data, synced)

\* The operating system writes the directory to the disk.
Settle ==
  /\ unsettled # {}
  /\ unsettled' = {}
  /\ UNCHANGED <<entry, temps, processVars, faults>>
  /\ Reclaim(data, synced)

\* Every process ends, what was not synced is incomplete, and the entry is one
\* it has had since the directory was written. Temporary files may stay.
PowerLoss ==
  /\ faults < MaxFaults
  /\ faults' = faults + 1
  /\ End(Brokers)
  /\ entry' \in unsettled \cup {entry}
  /\ unsettled' = {}
  /\ UNCHANGED temps
  /\ Reclaim([i \in Inodes |-> IF i \in synced THEN data[i] ELSE Partial], synced)

-----------------------------------------------------------------------------
\* A load or a store that is under way.
Proceed(p) ==
  Open(p) \/ Read(p) \/ Create(p) \/ CreateFails(p) \/ Write(p) \/ Sync(p) \/ Rename(p)

Next ==
  \/ \E p \in Brokers : Start(p) \/ Proceed(p) \/ LoadFails(p) \/ IoError(p) \/ Crash(p)
  \/ \E p \in Brokers, v \in Values : Begin(p, v)
  \/ Settle \/ PowerLoss

Spec == Init /\ [][Next]_vars

(* What a process has begun it goes on with: the calls do not block for ever. *)
(* Nothing obliges a broker to store, again or at all.                        *)
FairSpec == Spec /\ \A p \in Brokers : WF_vars(Proceed(p))
-----------------------------------------------------------------------------
(* Properties *)

\* The entry file is always complete and on the disk: no interleaving of two
\* stores, no failing write, crash or power loss leaves a torn one.
EntryIsWhole ==
  \A i \in {entry} \cup unsettled :
    i # None => data[i] \in Values \cup {Foreign} /\ i \in synced

\* Stores and loads behave as if each took place at one moment: the brokers see
\* the atomic file that V2Catalog and V3Catalog take the cache for.
File == INSTANCE AtomicFile WITH
  Processes <- Brokers,
  content <- ContentOf(entry),
  older <- {ContentOf(i) : i \in unsettled},
  pending <- value,
  got <- [p \in Brokers |-> IF pc[p] = "read" THEN ContentOf(handle[p]) ELSE got[p]]
StoreIsAtomic == File!Spec

\* Files that crashed processes left behind delay a store and never prevent it: a broker
\* that stays up and stores again for as long as its stores fail gets one through, also
\* under a recycled process id. Whether it stores again is not the cache's doing: a
\* broker adopts its catalog all the same, and stores when it has another one to keep.
StoresAgain(p) == pc[p] = "idle" ~> (pc[p] # "idle" \/ stored[p])
StoreRecovers ==
  \A p \in Brokers :
    StoresAgain(p) => (pc[p] # "down" ~> (stored[p] \/ pc[p] = "down"))
=============================================================================
