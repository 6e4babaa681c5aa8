-------------------------- MODULE LevelFilesProofs --------------------------
(* Machine-checked theorems of LevelEnv and LevelLock, for every set of files  *)
(* and limits and for every set of processes and threads, and of LevelRepair,  *)
(* for every set of keys, any number of writes and of files, and any number of *)
(* crashes and failures.                                                     *)
EXTENDS LevelEnv, LevelLock, LevelRepair, TLAPS, FiniteSetTheorems, WellFoundedInduction

Kinds == {"closed", "opening", "mmap", "fd", "each"}
EnvTypeOK ==
    /\ opened \in [Files -> Kinds]
    /\ allowed \in [mmap : Int, fd : Int]
EnvInv == EnvTypeOK /\ LimitsKept

As(kinds) == {f \in Files : opened[f] \in kinds}
Mapped == {"opening", "mmap"}

LEMMA AsFinite ==
    ASSUME EnvAssumption, NEW kinds
    PROVE  IsFiniteSet(As(kinds)) /\ OpenAs(kinds) \in Nat /\ OpenAs(kinds) = Cardinality(As(kinds))
  <1>1. As(kinds) \subseteq Files /\ IsFiniteSet(Files)
    BY DEF As, EnvAssumption
  <1>2. IsFiniteSet(As(kinds))
    BY <1>1, FS_Subset
  <1>3. QED
    BY <1>2, FS_CardinalityType DEF As, OpenAs

(* One file changes: it joins the count of a kind, leaves it, or neither.       *)
LEMMA FileJoins ==
    ASSUME EnvAssumption, EnvTypeOK, NEW f \in Files, NEW kinds, NEW to,
           opened' = [opened EXCEPT ![f] = to], opened[f] \notin kinds, to \in kinds
    PROVE  OpenAs(kinds)' = OpenAs(kinds) + 1
  <1>1. As(kinds)' = As(kinds) \cup {f} /\ f \notin As(kinds)
    BY DEF As, EnvTypeOK
  <1>2. Cardinality(As(kinds) \cup {f}) = Cardinality(As(kinds)) + 1
    BY <1>1, AsFinite, FS_AddElement
  <1>3. OpenAs(kinds)' = Cardinality(As(kinds)')
    BY DEF OpenAs, As
  <1>4. QED
    BY <1>1, <1>2, <1>3, AsFinite

LEMMA FileLeaves ==
    ASSUME EnvAssumption, EnvTypeOK, NEW f \in Files, NEW kinds, NEW to,
           opened' = [opened EXCEPT ![f] = to], opened[f] \in kinds, to \notin kinds
    PROVE  OpenAs(kinds)' = OpenAs(kinds) - 1
  <1>1. As(kinds)' = As(kinds) \ {f} /\ f \in As(kinds)
    BY DEF As, EnvTypeOK
  <1>2. Cardinality(As(kinds) \ {f}) = Cardinality(As(kinds)) - 1
    BY <1>1, AsFinite, FS_RemoveElement
  <1>3. OpenAs(kinds)' = Cardinality(As(kinds)')
    BY DEF OpenAs, As
  <1>4. QED
    BY <1>1, <1>2, <1>3, AsFinite

LEMMA FileElsewhere ==
    ASSUME EnvTypeOK, NEW f \in Files, NEW kinds, NEW to,
           opened' = [opened EXCEPT ![f] = to], opened[f] \in kinds <=> to \in kinds
    PROVE  OpenAs(kinds)' = OpenAs(kinds)
  <1>1. As(kinds)' = As(kinds)
    BY DEF As, EnvTypeOK
  <1>2. QED
    BY <1>1 DEF OpenAs, As

LEMMA EnvInitInv == EnvAssumption /\ EnvInit => EnvInv
  <1> SUFFICES ASSUME EnvAssumption, EnvInit PROVE EnvInv
    OBVIOUS
  <1>1. EnvTypeOK
    BY DEF EnvAssumption, EnvInit, EnvTypeOK, Kinds
  <1>2. OpenAs({"opening", "mmap"}) = 0 /\ OpenAs({"fd"}) = 0
    <2>1. As({"opening", "mmap"}) = {} /\ As({"fd"}) = {}
      BY DEF EnvInit, As
    <2>2. QED
      BY <2>1, AsFinite, FS_EmptySet
  <1>3. QED
    BY <1>1, <1>2 DEF EnvInit, EnvInv, LimitsKept, EnvAssumption

LEMMA OpenStep ==
    ASSUME EnvAssumption, EnvInv, NEW f \in Files, OpenRandomAccess(f)
    PROVE  EnvInv'
  <1>1. EnvTypeOK /\ opened[f] = "closed" /\ allowed \in [mmap : Int, fd : Int]
    BY DEF EnvInv, EnvTypeOK, OpenRandomAccess
  <1>2. CASE allowed.mmap > 0
    <2>1. /\ allowed' = [allowed EXCEPT !.mmap = @ - 1]
          /\ opened' = [opened EXCEPT ![f] = "opening"]
      BY <1>2 DEF OpenRandomAccess, CanAcquire, Acquire
    <2>2. OpenAs({"opening", "mmap"})' = OpenAs({"opening", "mmap"}) + 1
      BY <1>1, <2>1, FileJoins
    <2>3. OpenAs({"fd"})' = OpenAs({"fd"})
      BY <1>1, <2>1, FileElsewhere
    <2>4. EnvTypeOK'
      BY <1>1, <2>1 DEF EnvTypeOK, Kinds
    <2>5. QED
      BY <1>1, <1>2, <2>1, <2>2, <2>3, <2>4, AsFinite DEF EnvInv, LimitsKept
  <1>3. CASE ~(allowed.mmap > 0) /\ allowed.fd > 0
    <2>1. /\ allowed' = [allowed EXCEPT !.fd = @ - 1]
          /\ opened' = [opened EXCEPT ![f] = "fd"]
      BY <1>3 DEF OpenRandomAccess, CanAcquire, Acquire
    <2>2. OpenAs({"opening", "mmap"})' = OpenAs({"opening", "mmap"})
      BY <1>1, <2>1, FileElsewhere
    <2>3. OpenAs({"fd"})' = OpenAs({"fd"}) + 1
      BY <1>1, <2>1, FileJoins
    <2>4. EnvTypeOK'
      BY <1>1, <2>1 DEF EnvTypeOK, Kinds
    <2>5. QED
      BY <1>1, <1>3, <2>1, <2>2, <2>3, <2>4, AsFinite DEF EnvInv, LimitsKept
  <1>4. CASE ~(allowed.mmap > 0) /\ ~(allowed.fd > 0)
    <2>1. allowed' = allowed /\ opened' = [opened EXCEPT ![f] = "each"]
      BY <1>4 DEF OpenRandomAccess, CanAcquire
    <2>2. /\ OpenAs({"opening", "mmap"})' = OpenAs({"opening", "mmap"})
          /\ OpenAs({"fd"})' = OpenAs({"fd"})
      BY <1>1, <2>1, FileElsewhere
    <2>3. EnvTypeOK'
      BY <1>1, <2>1 DEF EnvTypeOK, Kinds
    <2>4. QED
      BY <2>1, <2>2, <2>3 DEF EnvInv, LimitsKept
  <1>5. QED
    BY <1>2, <1>3, <1>4

LEMMA MapStep ==
    ASSUME EnvAssumption, EnvInv, NEW f \in Files, Map(f)
    PROVE  EnvInv'
  <1>1. EnvTypeOK /\ opened[f] = "opening" /\ allowed \in [mmap : Int, fd : Int]
    BY DEF EnvInv, EnvTypeOK, Map
  <1>2. CASE opened' = [opened EXCEPT ![f] = "mmap"] /\ UNCHANGED allowed
    <2>1. /\ OpenAs({"opening", "mmap"})' = OpenAs({"opening", "mmap"})
          /\ OpenAs({"fd"})' = OpenAs({"fd"})
      BY <1>1, <1>2, FileElsewhere
    <2>2. EnvTypeOK'
      BY <1>1, <1>2 DEF EnvTypeOK, Kinds
    <2>3. QED
      BY <1>2, <2>1, <2>2 DEF EnvInv, LimitsKept
  <1>3. CASE /\ opened' = [opened EXCEPT ![f] = "closed"]
             /\ allowed' = [allowed EXCEPT !.mmap = @ + 1]
    <2>1. OpenAs({"opening", "mmap"})' = OpenAs({"opening", "mmap"}) - 1
      BY <1>1, <1>3, FileLeaves
    <2>2. OpenAs({"fd"})' = OpenAs({"fd"})
      BY <1>1, <1>3, FileElsewhere
    <2>3. EnvTypeOK'
      BY <1>1, <1>3 DEF EnvTypeOK, Kinds
    <2>4. QED
      BY <1>1, <1>3, <2>1, <2>2, <2>3, AsFinite DEF EnvInv, LimitsKept
  <1>4. QED
    BY <1>2, <1>3 DEF Map, Release

LEMMA CloseFileStep ==
    ASSUME EnvAssumption, EnvInv, NEW f \in Files, CloseFile(f)
    PROVE  EnvInv'
  <1>1. /\ EnvTypeOK /\ opened[f] \in {"mmap", "fd", "each"}
        /\ allowed \in [mmap : Int, fd : Int]
        /\ opened' = [opened EXCEPT ![f] = "closed"]
        /\ allowed' = [mmap |-> allowed.mmap + (IF opened[f] = "mmap" THEN 1 ELSE 0),
                       fd |-> allowed.fd + (IF opened[f] = "fd" THEN 1 ELSE 0)]
    <2>1. /\ EnvTypeOK /\ opened[f] \in {"mmap", "fd", "each"}
          /\ allowed \in [mmap : Int, fd : Int]
          /\ opened' = [opened EXCEPT ![f] = "closed"]
      BY DEF EnvInv, EnvTypeOK, CloseFile
    <2>2. CASE opened[f] = "mmap"
      BY <2>1, <2>2 DEF CloseFile, Release
    <2>3. CASE opened[f] = "fd"
      BY <2>1, <2>3 DEF CloseFile, Release
    <2>4. CASE opened[f] = "each"
      BY <2>1, <2>4 DEF CloseFile
    <2>5. QED
      BY <2>1, <2>2, <2>3, <2>4
  <1>2. EnvTypeOK'
    BY <1>1 DEF EnvTypeOK, Kinds
  <1>3. OpenAs({"opening", "mmap"})' =
            OpenAs({"opening", "mmap"}) - (IF opened[f] = "mmap" THEN 1 ELSE 0)
    <2>1. CASE opened[f] = "mmap"
      BY <1>1, <2>1, FileLeaves
    <2>2. CASE opened[f] # "mmap"
      <3>1. OpenAs({"opening", "mmap"})' = OpenAs({"opening", "mmap"})
        BY <1>1, <2>2, FileElsewhere
      <3>2. OpenAs({"opening", "mmap"}) \in Nat
        BY AsFinite
      <3>3. QED
        BY <2>2, <3>1, <3>2
    <2>3. QED
      BY <2>1, <2>2
  <1>4. OpenAs({"fd"})' = OpenAs({"fd"}) - (IF opened[f] = "fd" THEN 1 ELSE 0)
    <2>1. CASE opened[f] = "fd"
      BY <1>1, <2>1, FileLeaves
    <2>2. CASE opened[f] # "fd"
      <3>1. OpenAs({"fd"})' = OpenAs({"fd"})
        BY <1>1, <2>2, FileElsewhere
      <3>2. OpenAs({"fd"}) \in Nat
        BY AsFinite
      <3>3. QED
        BY <2>2, <3>1, <3>2
    <2>3. QED
      BY <2>1, <2>2
  <1>5. QED
    BY <1>1, <1>2, <1>3, <1>4, AsFinite DEF EnvInv, LimitsKept

(* The queue does not touch the files.                                        *)
LEMMA QueueStep ==
    ASSUME EnvInv, UNCHANGED <<allowed, opened>>
    PROVE  EnvInv'
  BY DEF EnvInv, EnvTypeOK, LimitsKept, OpenAs

LEMMA EnvNextInv ==
    ASSUME EnvAssumption, EnvInv, [EnvNext]_envVars
    PROVE  EnvInv'
  <1>1. CASE UNCHANGED envVars
    BY <1>1, QueueStep DEF envVars
  <1>2. CASE Schedule \/ BGThread \/ SpuriousWakeup
    BY <1>2, QueueStep
       DEF Schedule, BGThread, SpuriousWakeup, WaitForItem, BeginItem, ItemDone
  <1>3. ASSUME NEW f \in Files, OpenRandomAccess(f) \/ Map(f) \/ CloseFile(f)
        PROVE EnvInv'
    BY <1>3, OpenStep, MapStep, CloseFileStep
  <1>4. QED
    BY <1>1, <1>2, <1>3 DEF EnvNext

(* Whatever files are opened, fail to be mapped and are closed, the places of   *)
(* the two limiters are neither lost nor given twice.                          *)
THEOREM LimitsAlwaysKept ==
    ASSUME EnvAssumption PROVE EnvSpec => []LimitsKept
  <1>1. EnvInit => EnvInv
    BY EnvInitInv
  <1>2. EnvInv /\ [EnvNext]_envVars => EnvInv'
    BY EnvNextInv
  <1>3. EnvInv => LimitsKept
    BY DEF EnvInv
  <1>4. QED
    BY <1>1, <1>2, <1>3, PTL DEF EnvSpec

-----------------------------------------------------------------------------
(* The lock on the database                                                  *)

States == {"out", "opened", "refused", "listed", "failed", "held", "unlocking", "removed"}

(* From the insertion into the table to the removal.                          *)
InTable == {t \in Lockers : thread[t] \in {"listed", "failed", "held", "unlocking"}}

LockTypeOK ==
    /\ locked \subseteq Processes /\ owner \subseteq Processes /\ dropped \in BOOLEAN
    /\ thread \in [Lockers -> States]
(* The table is a lock for the threads of one process.                        *)
OneEach ==
    /\ \A t \in InTable : P(t) \in locked
    /\ \A t, u \in InTable : t # u => P(t) # P(u)
(* The kernel's lock is still there, unless a close has dropped one.          *)
StillOwned == \A t \in Holding : dropped \/ owner = {P(t)}

LockInv == LockTypeOK /\ OneEach /\ StillOwned

LEMMA ProcessType == ASSUME LockAssumption, NEW t \in Lockers PROVE P(t) \in Processes
  BY DEF LockAssumption, P

LEMMA LockInitInv == LockInit => LockInv
  BY DEF LockInit, LockInv, LockTypeOK, OneEach, StillOwned, InTable, Holding, States

(* A thread goes on without touching the table or the kernel's lock, to a     *)
(* place outside the section the table guards.                                *)
LEMMA StepAside ==
    ASSUME LockInv, NEW t \in Lockers, NEW from \in States, NEW to \in {"out", "opened"},
           from \notin {"listed", "failed", "held", "unlocking"},
           Goes(t, from, to), UNCHANGED <<locked, owner, dropped>>
    PROVE  LockInv'
  BY DEF LockInv, LockTypeOK, OneEach, StillOwned, InTable, Holding, States, Goes, P

LEMMA InsertStep ==
    ASSUME LockInv, LockAssumption, NEW t \in Lockers, InsertFile(t)
    PROVE  LockInv'
  <1>1. P(t) \in Processes
    BY ProcessType
  <1>2. CASE P(t) \in locked
    BY <1>1, <1>2 DEF LockInv, LockTypeOK, OneEach, StillOwned, InTable, Holding, States,
                      InsertFile, Goes, P
  <1>3. CASE P(t) \notin locked
    <2>1. \A u \in InTable : P(u) # P(t)
      BY <1>3 DEF LockInv, OneEach
    <2>2. InTable' = InTable \cup {t} /\ Holding' = Holding
      BY <1>3 DEF InsertFile, Goes, InTable, Holding, LockInv, LockTypeOK
    <2>3. locked' = locked \cup {P(t)} /\ UNCHANGED <<owner, dropped>> /\ thread' \in [Lockers -> States]
      BY DEF InsertFile, Goes, LockInv, LockTypeOK, States
    <2>4. LockTypeOK'
      BY <1>1, <2>3 DEF LockInv, LockTypeOK
    <2>5. OneEach'
      BY <2>1, <2>2, <2>3 DEF LockInv, OneEach, P
    <2>6. StillOwned'
      BY <2>2, <2>3 DEF LockInv, StillOwned, P
    <2>7. QED
      BY <2>4, <2>5, <2>6 DEF LockInv
  <1>4. QED
    BY <1>2, <1>3

(* Closing a descriptor drops the lock of its process, and `dropped` says so   *)
(* when another thread still counts on it.                                    *)
LEMMA CloseStep ==
    ASSUME LockInv, LockAssumption, NEW t \in Lockers, NEW to \in {"out", "failed"},
           NEW from \in {"refused", "removed", "listed"},
           to = "failed" <=> from = "listed",
           Goes(t, from, to), CloseDescriptor(t), UNCHANGED locked
    PROVE  LockInv'
  <1>1. thread' = [thread EXCEPT ![t] = to] /\ thread[t] = from /\ locked' = locked
    BY DEF Goes
  <1>2. InTable' = InTable /\ Holding' = Holding
    BY <1>1 DEF InTable, Holding, LockInv, LockTypeOK
  <1>3. LockTypeOK'
    BY <1>1 DEF LockInv, LockTypeOK, CloseDescriptor, States
  <1>4. OneEach'
    BY <1>1, <1>2 DEF LockInv, OneEach, P
  <1>5. StillOwned'
    <2>1. SUFFICES ASSUME NEW u \in Holding, ~dropped'
                   PROVE  owner' = {P(u)}
      BY <1>2 DEF StillOwned, P
    <2>2. owner = {P(u)} /\ thread[u] = "held" /\ u \in Lockers /\ u # t
      BY <2>1, <1>1 DEF LockInv, StillOwned, Holding, CloseDescriptor
    <2>3. P(u) # P(t)
      BY <2>1, <2>2 DEF CloseDescriptor
    <2>4. QED
      BY <2>2, <2>3 DEF CloseDescriptor
  <1>6. QED
    BY <1>3, <1>4, <1>5 DEF LockInv

LEMMA SetLockStep ==
    ASSUME LockInv, LockAssumption, NEW t \in Lockers, SetLock(t)
    PROVE  LockInv'
  <1>1. P(t) \in Processes
    BY ProcessType
  <1>2. /\ thread' = [thread EXCEPT ![t] = "held"] /\ thread[t] = "listed"
        /\ owner \subseteq {P(t)} /\ owner' = {P(t)} /\ UNCHANGED <<locked, dropped>>
    BY DEF SetLock, Goes
  <1>3. InTable' = InTable /\ Holding' = Holding \cup {t} /\ t \in InTable /\ Holding \subseteq InTable
    BY <1>2 DEF InTable, Holding, LockInv, LockTypeOK
  <1>4. LockTypeOK'
    BY <1>1, <1>2 DEF LockInv, LockTypeOK, States
  <1>5. OneEach'
    BY <1>2, <1>3 DEF LockInv, OneEach, P
  <1>6. StillOwned'
    <2>1. SUFFICES ASSUME NEW u \in Holding, u # t, ~dropped
                   PROVE  FALSE
      BY <1>2, <1>3 DEF StillOwned, P
    <2>2. owner = {P(u)}
      BY <2>1 DEF LockInv, StillOwned
    <2>3. P(u) = P(t)
      BY <1>2, <2>2
    <2>4. QED
      BY <1>3, <2>1, <2>3 DEF LockInv, OneEach
  <1>7. QED
    BY <1>4, <1>5, <1>6 DEF LockInv

LEMMA RemoveStep ==
    ASSUME LockInv, LockAssumption, NEW t \in Lockers, LockRemove(t) \/ UnlockRemove(t)
    PROVE  LockInv'
  <1>1. PICK to \in {"out", "removed"} :
           /\ thread' = [thread EXCEPT ![t] = to] /\ thread[t] \in {"failed", "unlocking"}
           /\ locked' = locked \ {P(t)} /\ UNCHANGED <<owner, dropped>>
    BY DEF LockRemove, UnlockRemove, Goes
  <1>2. InTable' = InTable \ {t} /\ Holding' = Holding /\ t \in InTable
    BY <1>1 DEF InTable, Holding, LockInv, LockTypeOK
  <1>3. LockTypeOK'
    BY <1>1 DEF LockInv, LockTypeOK, States
  <1>4. OneEach'
    BY <1>1, <1>2 DEF LockInv, OneEach, P
  <1>5. StillOwned'
    BY <1>1, <1>2 DEF LockInv, StillOwned, P
  <1>6. QED
    BY <1>3, <1>4, <1>5 DEF LockInv

LEMMA ClearStep ==
    ASSUME LockInv, LockAssumption, NEW t \in Lockers, ClearLock(t)
    PROVE  LockInv'
  <1>1. /\ thread' = [thread EXCEPT ![t] = "unlocking"] /\ thread[t] = "held"
        /\ owner' = owner \ {P(t)} /\ UNCHANGED <<locked, dropped>>
    BY DEF ClearLock, Goes
  <1>2. /\ InTable' = InTable /\ Holding' = Holding \ {t} /\ t \in Holding
        /\ Holding \subseteq InTable
    BY <1>1 DEF InTable, Holding, LockInv, LockTypeOK
  <1>3. LockTypeOK'
    BY <1>1 DEF LockInv, LockTypeOK, States
  <1>4. OneEach'
    BY <1>1, <1>2 DEF LockInv, OneEach, P
  <1>5. StillOwned'
    <2>1. SUFFICES ASSUME NEW u \in Holding, u # t, ~dropped
                   PROVE  owner' = {P(u)}
      BY <1>1, <1>2 DEF StillOwned, P
    <2>2. owner = {P(u)}
      BY <2>1 DEF LockInv, StillOwned
    <2>3. P(u) # P(t)
      BY <1>2, <2>1 DEF LockInv, OneEach
    <2>4. QED
      BY <1>1, <2>2, <2>3
  <1>6. QED
    BY <1>3, <1>4, <1>5 DEF LockInv

LEMMA ExitStep ==
    ASSUME LockInv, LockAssumption, NEW p \in Processes, Exit(p)
    PROVE  LockInv'
  <1>1. /\ thread' = [t \in Lockers |-> IF P(t) = p THEN "out" ELSE thread[t]]
        /\ locked' = locked \ {p} /\ owner' = owner \ {p} /\ UNCHANGED dropped
    BY DEF Exit
  <1>2. /\ InTable' = {t \in InTable : P(t) # p} /\ Holding' = {t \in Holding : P(t) # p}
    BY <1>1 DEF InTable, Holding, LockInv, LockTypeOK
  <1>3. LockTypeOK'
    BY <1>1 DEF LockInv, LockTypeOK, States
  <1>4. OneEach'
    BY <1>1, <1>2 DEF LockInv, OneEach, P
  <1>5. StillOwned'
    BY <1>1, <1>2 DEF LockInv, StillOwned, P
  <1>6. QED
    BY <1>3, <1>4, <1>5 DEF LockInv

LEMMA LockNextInv ==
    ASSUME LockAssumption, LockInv, [LockNext]_lockVars
    PROVE  LockInv'
  <1>1. CASE UNCHANGED lockVars
    BY <1>1 DEF lockVars, LockInv, LockTypeOK, OneEach, StillOwned, InTable, Holding, P
  <1>2. ASSUME NEW t \in Lockers, OpenFile(t) PROVE LockInv'
    BY <1>2, StepAside DEF OpenFile, States
  <1>3. ASSUME NEW t \in Lockers, InsertFile(t) PROVE LockInv'
    BY <1>3, InsertStep
  <1>4. ASSUME NEW t \in Lockers, AlreadyHeld(t) PROVE LockInv'
    BY <1>4, CloseStep DEF AlreadyHeld
  <1>5. ASSUME NEW t \in Lockers, SetLock(t) PROVE LockInv'
    BY <1>5, SetLockStep
  <1>6. ASSUME NEW t \in Lockers, LockFails(t) PROVE LockInv'
    BY <1>6, CloseStep DEF LockFails
  <1>7. ASSUME NEW t \in Lockers, LockRemove(t) \/ UnlockRemove(t) PROVE LockInv'
    BY <1>7, RemoveStep
  <1>8. ASSUME NEW t \in Lockers, ClearLock(t) PROVE LockInv'
    BY <1>8, ClearStep
  <1>9. ASSUME NEW t \in Lockers, UnlockClose(t) PROVE LockInv'
    BY <1>9, CloseStep DEF UnlockClose
  <1>10. ASSUME NEW p \in Processes, Exit(p) PROVE LockInv'
    BY <1>10, ExitStep
  <1>11. QED
    BY <1>1, <1>2, <1>3, <1>4, <1>5, <1>6, <1>7, <1>8, <1>9, <1>10 DEF LockNext

(* Of two threads that think they have the database, no two are ever of one    *)
(* process, and two are of different processes only after the kernel dropped a *)
(* lock because its process closed another descriptor of the file.            *)
THEOREM DatabaseLockedOnce ==
    ASSUME LockAssumption PROVE LockSpec => []LockedOnce
  <1>1. LockInv => LockedOnce
    BY DEF LockInv, LockedOnce, OneEach, StillOwned, InTable, Holding
  <1>2. LockInit => LockInv
    BY LockInitInv
  <1>3. LockInv /\ [LockNext]_lockVars => LockInv'
    BY LockNextInv
  <1>4. QED
    BY <1>1, <1>2, <1>3, PTL DEF LockSpec

-----------------------------------------------------------------------------
(* Repair                                                                    *)

Entry == [key : UserKeys, seq : 1..Writes]
Steps == {"off", "convert", "archive", "repair", "copied", "finish", "rename", "done"}
BeforeType == [readable : SUBSET Entry, crashes : Nat, faults : Nat, replaced : SUBSET Entry]
RepairTypeOK ==
    /\ tables \in [Numbers -> [data : SUBSET Entry, whole : BOOLEAN, there : BOOLEAN]]
    /\ logs \in [Numbers -> SUBSET Entry]
    /\ lost \in [log : [Numbers -> SUBSET Entry], table : [Numbers -> SUBSET Entry]]
    /\ rep \in [at : Steps, logs : SUBSET Numbers, numbers : SUBSET Numbers,
                listed : SUBSET Numbers, next : Nat, n : Nat, copy : Nat,
                data : SUBSET Entry]
    /\ listed \in SUBSET Numbers
    /\ before \in BeforeType

(* Numbers not allocated yet name no file; those at hand are allocated.        *)
Running == rep.at \notin {"off", "done"}
Copying == rep.at \in {"copied", "finish", "rename"}
Allocated ==
    /\ Running => /\ rep.next > 0
                  /\ \A n \in Numbers : n >= rep.next => ~tables[n].there /\ logs[n] = {}
                  /\ \A n \in rep.numbers \cup rep.listed : n < rep.next
                  /\ \A n \in rep.numbers : tables[n].there
    /\ rep.numbers \cap rep.listed = {}
    /\ rep.at = "archive" => rep.n \in Numbers
(* The table under repair is neither to be scanned nor listed, nor is its copy; *)
(* what the copy has is in the original, or in lost/ when that was moved there. *)
InOriginal(data) ==
    IF tables[rep.n].there THEN tables[rep.n].data = data ELSE lost.table[rep.n] = data
CopyApart ==
    /\ rep.at = "repair" \/ Copying =>
          rep.n \in Numbers \ (rep.numbers \cup rep.listed) /\ rep.n < rep.next
    /\ Copying => rep.copy \in Numbers \ (rep.numbers \cup rep.listed \cup {rep.n})
                  /\ rep.copy < rep.next /\ rep.n < rep.copy /\ tables[rep.copy].there
    /\ rep.at \in {"repair", "copied"} => tables[rep.n].there
    /\ rep.at \in {"copied", "finish"} => tables[rep.copy].data = {}
    /\ rep.at = "finish" => InOriginal(rep.data)
    /\ rep.at = "rename" => InOriginal(tables[rep.copy].data)

(* In a pass without a crash or a failure every entry is in a table to be       *)
(* scanned, in a listed one, in a log to be converted, or in the table at hand. *)
Untroubled == before.crashes + before.faults = 0
Scanned == UNION {tables[n].data : n \in rep.numbers \cup rep.listed}
Converted == IF rep.at = "archive" THEN {rep.n} ELSE {}
Unconverted == UNION {logs[n] : n \in rep.logs \ Converted}
AtHand == CASE rep.at \in {"repair", "copied"} -> tables[rep.n].data
            [] rep.at = "finish" -> rep.data
            [] rep.at = "rename" -> tables[rep.copy].data
            [] OTHER -> {}
Accounted ==
    /\ Untroubled /\ rep.at = "off" => before.readable \subseteq InTables \cup InLogs
    /\ Untroubled /\ rep.at # "off" =>
          before.readable \subseteq Scanned \cup Unconverted \cup AtHand
    /\ rep.at = "done" => listed = rep.listed /\ rep.numbers = {} /\ rep.logs = {}

Kept == before.readable \subseteq InTables \cup InLogs \cup InLost \cup before.replaced
RepairInv == RepairTypeOK /\ Allocated /\ CopyApart /\ Accounted /\ Kept

(* While no operation has failed, the number of a table in lost/ stays in use:  *)
(* by the repaired table, or a file above it keeps FindFiles from giving it out *)
(* again; and the copy that a rename takes away is not that file.              *)
Above(n) ==
    \/ tables[n].there
    \/ \E m \in Numbers : m > n /\ tables[m].there /\ (Copying /\ m = rep.copy => n <= rep.n)
TablesOnce ==
    \A n \in Numbers : lost.table[n] # {} =>
        (tables[n].there => tables[n].whole) /\ (Running => n < rep.next) /\ Above(n)
UnderRepair ==
    /\ rep.at \in {"repair", "copied"} => ~tables[rep.n].whole
    /\ Copying => lost.table[rep.copy] = {}
    /\ rep.at = "rename" => tables[rep.copy].whole
LogsOnce ==
    /\ \A n \in Numbers : logs[n] = {} \/ lost.log[n] = {}
    /\ \A n \in rep.logs : logs[n] # {}
    /\ rep.at = "archive" => rep.n \in rep.logs
NoneReplaced ==
    before.faults = 0 => before.replaced = {} /\ TablesOnce /\ UnderRepair /\ LogsOnce

-----------------------------------------------------------------------------
(* The number FindFiles goes on from is above every file's.                    *)
LEMMA NumbersAbove ==
    ASSUME RepairAssumption
    PROVE  /\ NextFileNumber \in Nat \ {0}
           /\ \A n \in Numbers : tables[n].there \/ logs[n] # {} => n < NextFileNumber
  <1> DEFINE used == There \cup {n \in Numbers : logs[n] # {}}
  <1>1. CASE used = {}
    BY <1>1 DEF NextFileNumber, There, Numbers
  <1>2. CASE used # {}
    <2> DEFINE gaps == {MaxNumber - n : n \in used}
    <2>1. used \subseteq 1..MaxNumber /\ MaxNumber \in Nat
      BY DEF There, Numbers, RepairAssumption
    <2>2. gaps \subseteq Nat /\ gaps # {}
      BY <1>2, <2>1
    <2>3. PICK least \in gaps : \A g \in gaps : ~(<<g, least>> \in OpToRel(<, Nat))
      <3> HIDE DEF gaps
      <3>1. QED
        BY <2>2, NatLessThanWellFounded, WFMin
    <2>4. PICK top \in used : least = MaxNumber - top
      OBVIOUS
    <2>5. \A n \in used : n <= top
      <3> SUFFICES ASSUME NEW n \in used PROVE n <= top
        OBVIOUS
      <3>1. MaxNumber - n \in gaps /\ MaxNumber - n \in Nat /\ least \in Nat
        BY <2>1, <2>2
      <3>2. ~(MaxNumber - n < least)
        BY <2>3, <3>1 DEF OpToRel
      <3>3. QED
        BY <2>1, <2>4, <3>2
    <2> DEFINE greatest == CHOOSE n \in used : \A m \in used : m <= n
    <2>6. greatest \in used /\ \A m \in used : m <= greatest
      BY <2>5
    <2>7. NextFileNumber = 1 + greatest
      BY <1>2 DEF NextFileNumber
    <2> HIDE DEF greatest
    <2>8. QED
      BY <2>1, <2>6, <2>7 DEF There, Numbers
  <1>3. QED
    BY <1>1, <1>2

LEMMA RepairInitInv ==
    ASSUME RepairAssumption, RepairInit
    PROVE  RepairInv
  <1>1. PICK key \in [1..Writes -> UserKeys], file \in [1..Writes -> 1..MaxFile],
             isLog \in SUBSET (1..MaxFile), bad \in SUBSET (1..MaxFile) :
           Directory(key, file, isLog, bad)
    BY DEF RepairInit
  <1> DEFINE data(n) == WrittenTo(n, key, file)
  <1>2. \A n : data(n) \in SUBSET Entry
    BY DEF Entry, WrittenTo
  <1>3. before.readable \in SUBSET Entry
    BY <1>1 DEF Entry, Directory
  <1>4. \A n \in Numbers :
           /\ tables[n] \in [data : SUBSET Entry, whole : BOOLEAN, there : BOOLEAN]
           /\ logs[n] \in SUBSET Entry
    BY <1>1, <1>2 DEF Absent, Table, Directory
  <1>5. RepairTypeOK
    <2>1. before \in BeforeType
      BY <1>1, <1>3 DEF Directory, BeforeType
    <2>2. lost \in [log : [Numbers -> SUBSET Entry], table : [Numbers -> SUBSET Entry]]
      BY <1>1 DEF Directory, NothingLost
    <2>3. QED
      BY <1>1, <1>4, <2>1, <2>2 DEF RepairTypeOK, Directory, Off, Steps
  <1>6. Allocated /\ CopyApart
    BY <1>1 DEF Directory, Allocated, CopyApart, Running, Copying, Off
  <1>7. before.readable \subseteq InTables \cup InLogs
    <2> SUFFICES ASSUME NEW s \in 1..Writes
                 PROVE  [key |-> key[s], seq |-> s] \in InTables \cup InLogs
      BY <1>1 DEF Directory
    <2> DEFINE n == file[s]
               e == [key |-> key[s], seq |-> s]
    <2>1. n \in 1..MaxFile /\ n \in Numbers /\ ~(n > MaxFile)
      BY DEF Numbers, RepairAssumption
    <2>2. e \in data(n)
      BY DEF WrittenTo
    <2>3. CASE n \in isLog
      BY <1>1, <2>1, <2>2, <2>3 DEF InLogs, Directory
    <2>4. CASE n \notin isLog
      <3>1. tables[n] = Table(data(n), n \notin bad)
        BY <1>1, <2>1, <2>2, <2>4 DEF Directory
      <3>2. n \in There /\ tables[n].data = data(n)
        BY <2>1, <3>1 DEF There, Table
      <3>3. QED
        BY <2>2, <3>2 DEF InTables
    <2>5. QED
      BY <2>3, <2>4
  <1>8. QED
    BY <1>1, <1>5, <1>6, <1>7 DEF RepairInv, Accounted, Kept, Off, Directory

-----------------------------------------------------------------------------
(* The steps                                                                 *)

LEMMA FindFilesStep ==
    ASSUME RepairAssumption, RepairInv, FindFiles
    PROVE  RepairInv'
  <1>1. /\ rep' = [at |-> "convert", logs |-> {n \in Numbers : logs[n] # {}}, numbers |-> There,
                   listed |-> {}, next |-> NextFileNumber, n |-> 0, copy |-> 0, data |-> {}]
        /\ UNCHANGED <<tables, logs, lost, listed, before>> /\ rep.at = "off"
    BY DEF FindFiles, Off
  <1>2. /\ NextFileNumber \in Nat \ {0}
        /\ \A n \in Numbers : tables[n].there \/ logs[n] # {} => n < NextFileNumber
    BY NumbersAbove
  <1>3. RepairTypeOK'
    BY <1>1, <1>2 DEF RepairInv, RepairTypeOK, Steps, There
  <1>4. Allocated' /\ CopyApart'
    BY <1>1, <1>2 DEF RepairInv, Allocated, CopyApart, Running, Copying, There, Numbers,
                      RepairAssumption
  <1>5. Untroubled' = Untroubled /\ InTables' = InTables /\ InLogs' = InLogs
    BY <1>1 DEF Untroubled, InTables, InLogs, There
  <1>6. Scanned' = InTables
    BY <1>1 DEF Scanned, InTables, There
  <1>7. Unconverted' = InLogs
    BY <1>1 DEF Unconverted, Converted, InLogs
  <1>8. Accounted'
    BY <1>1, <1>5, <1>6, <1>7 DEF RepairInv, Accounted
  <1>9. Kept'
    BY <1>1, <1>5 DEF RepairInv, Kept, InLost
  <1>10. QED
    BY <1>3, <1>4, <1>8, <1>9 DEF RepairInv

(* A file written at an unused number destroys nothing.                        *)
LEMMA WriteNew ==
    ASSUME RepairInv, NEW n \in Numbers, NEW data \in SUBSET Entry, NEW whole \in BOOLEAN,
           ~tables[n].there, tables' = [tables EXCEPT ![n] = Table(data, whole)]
    PROVE  /\ InTables' = InTables \cup data
           /\ tables' \in [Numbers -> [data : SUBSET Entry, whole : BOOLEAN, there : BOOLEAN]]
           /\ tables'[n] = Table(data, whole)
           /\ \A m \in Numbers \ {n} : tables'[m] = tables[m]
  <1>1. /\ tables'[n] = Table(data, whole)
        /\ \A m \in Numbers \ {n} : tables'[m] = tables[m]
        /\ tables' \in [Numbers -> [data : SUBSET Entry, whole : BOOLEAN, there : BOOLEAN]]
    BY DEF RepairInv, RepairTypeOK, Table
  <1>2. There' = There \cup {n} /\ n \notin There
    BY <1>1 DEF There, Table
  <1>3. \A m \in There : tables'[m].data = tables[m].data
    BY <1>1 DEF There
  <1>4. tables'[n].data = data
    BY <1>1 DEF Table
  <1>5. QED
    BY <1>1, <1>2, <1>3, <1>4 DEF InTables

LEMMA ConvertLogStep ==
    ASSUME RepairAssumption, RepairInv, NEW n \in Numbers, NEW fails \in BOOLEAN, ConvertLog(n, fails)
    PROVE  RepairInv'
  <1>1. rep.next \in Numbers /\ ~tables[rep.next].there /\ logs[rep.next] = {}
    BY DEF ConvertLog, RepairInv, RepairTypeOK, Allocated, Running, Numbers
  <1> DEFINE numbers == IF fails THEN rep.numbers ELSE rep.numbers \cup {rep.next}
  <1>2. /\ rep' = [rep EXCEPT !.at = "archive", !.n = n, !.next = rep.next + 1,
                              !.numbers = numbers]
        /\ UNCHANGED <<logs, lost, listed>> /\ rep.at = "convert" /\ n \in rep.logs
        /\ before' = [before EXCEPT !.faults = IF fails THEN before.faults + 1 ELSE before.faults]
    BY DEF ConvertLog, FaultCounted
  <1>3. numbers \in SUBSET Numbers /\ n \in Nat /\ rep.next + 1 \in Nat
    BY <1>1 DEF RepairInv, RepairTypeOK, Numbers, RepairAssumption
  <1> HIDE DEF numbers
  <1>4. /\ rep'.at = "archive" /\ rep'.n = n /\ rep'.next = rep.next + 1
        /\ rep'.numbers = numbers
        /\ rep'.logs = rep.logs /\ rep'.listed = rep.listed
        /\ rep' \in [at : Steps, logs : SUBSET Numbers, numbers : SUBSET Numbers,
                     listed : SUBSET Numbers, next : Nat, n : Nat, copy : Nat, data : SUBSET Entry]
    BY <1>2, <1>3 DEF RepairInv, RepairTypeOK, Steps
  <1>5. /\ before'.readable = before.readable /\ before'.replaced = before.replaced
        /\ before'.crashes = before.crashes
        /\ before'.faults = IF fails THEN before.faults + 1 ELSE before.faults
        /\ before' \in BeforeType
    BY <1>2 DEF RepairInv, RepairTypeOK, BeforeType
  <1>6. numbers = IF fails THEN rep.numbers ELSE rep.numbers \cup {rep.next}
    BY DEF numbers
  <1>7. CASE fails
    <2>1. tables' = tables
      BY <1>7 DEF ConvertLog
    <2>2. RepairTypeOK' /\ CopyApart'
      BY <1>2, <1>4, <1>5, <2>1 DEF RepairInv, RepairTypeOK, CopyApart, Copying
    <2>3. Allocated'
      BY <1>2, <1>3, <1>4, <1>6, <1>7, <2>1
         DEF RepairInv, RepairTypeOK, Allocated, Running, Numbers
    <2>4. Accounted'
      <3>1. ~Untroubled'
        BY <1>5, <1>7 DEF RepairInv, RepairTypeOK, BeforeType, Untroubled
      <3>2. QED
        BY <1>4, <3>1 DEF Accounted
    <2>5. Kept'
      BY <1>2, <1>5, <2>1 DEF RepairInv, Kept, InLost, InTables, InLogs, There
    <2>6. QED
      BY <2>2, <2>3, <2>4, <2>5 DEF RepairInv
  <1>8. CASE ~fails
    <2>1. tables' = [tables EXCEPT ![rep.next] = Table(logs[n], TRUE)] /\ logs[n] \in SUBSET Entry
      BY <1>8 DEF ConvertLog, RepairInv, RepairTypeOK
    <2>2. /\ InTables' = InTables \cup logs[n]
          /\ tables' \in [Numbers -> [data : SUBSET Entry, whole : BOOLEAN, there : BOOLEAN]]
          /\ tables'[rep.next] = Table(logs[n], TRUE)
          /\ \A m \in Numbers \ {rep.next} : tables'[m] = tables[m]
      BY <1>1, <2>1, WriteNew
    <2>3. RepairTypeOK' /\ CopyApart'
      BY <1>2, <1>4, <1>5, <2>2 DEF RepairInv, RepairTypeOK, CopyApart, Copying
    <2>4. Allocated'
      <3>1. /\ \A m \in Numbers : m >= rep.next => ~tables[m].there /\ logs[m] = {}
            /\ \A m \in rep.numbers \cup rep.listed : m < rep.next
            /\ \A m \in rep.numbers : tables[m].there
            /\ rep.numbers \cap rep.listed = {} /\ rep.next > 0
        BY <1>2 DEF RepairInv, Allocated, Running
      <3>2. \A m \in Numbers : m >= rep.next + 1 => m >= rep.next /\ m # rep.next
        BY <1>1 DEF Numbers, RepairAssumption
      <3>3. \A m \in Numbers : m >= rep'.next => ~tables'[m].there /\ logs'[m] = {}
        BY <1>2, <1>4, <2>2, <3>1, <3>2
      <3>4. rep'.next > 0 /\ \A m \in rep'.numbers \cup rep'.listed : m < rep'.next
        BY <1>1, <1>3, <1>4, <1>6, <3>1 DEF RepairInv, RepairTypeOK, Numbers, RepairAssumption
      <3>5. \A m \in rep'.numbers : tables'[m].there
        <4>1. \A m \in rep.numbers : m \in Numbers \ {rep.next}
          BY <1>1, <3>1 DEF RepairInv, RepairTypeOK, Numbers, RepairAssumption
        <4>2. tables'[rep.next].there
          BY <2>2 DEF Table
        <4>3. QED
          BY <1>4, <1>6, <1>8, <2>2, <3>1, <4>1, <4>2
      <3>6. rep'.numbers \cap rep'.listed = {}
        BY <1>1, <1>4, <1>6, <3>1 DEF Numbers, RepairAssumption
      <3>7. rep'.at = "archive" => rep'.n \in Numbers
        BY <1>4
      <3>8. QED
        BY <3>3, <3>4, <3>5, <3>6, <3>7 DEF Allocated
    <2>5. Scanned \cup Unconverted \subseteq Scanned' \cup Unconverted'
      <3>1. rep.next \notin rep.numbers \cup rep.listed
        BY <1>2 DEF RepairInv, RepairTypeOK, Allocated, Running
      <3>2. Scanned' = Scanned \cup logs[n]
        <4>1. \A m \in rep.numbers \cup rep.listed : tables'[m] = tables[m]
          BY <2>2, <3>1 DEF RepairInv, RepairTypeOK
        <4>2. tables'[rep.next].data = logs[n]
          BY <2>2 DEF Table
        <4>3. rep'.numbers \cup rep'.listed = rep.numbers \cup rep.listed \cup {rep.next}
          BY <1>6, <1>4, <1>8
        <4>4. QED
          BY <4>1, <4>2, <4>3 DEF Scanned
      <3>3. Unconverted \subseteq Unconverted' \cup logs[n]
        BY <1>2, <1>4 DEF Unconverted, Converted
      <3>4. QED
        BY <3>2, <3>3
    <2>6. Accounted'
      BY <1>2, <1>4, <1>5, <1>8, <2>5 DEF RepairInv, Accounted, Untroubled, AtHand
    <2>7. Kept'
      BY <1>2, <1>5, <2>2 DEF RepairInv, Kept, InLost, InLogs
    <2>8. QED
      BY <2>3, <2>4, <2>6, <2>7 DEF RepairInv
  <1>9. QED
    BY <1>7, <1>8

(* What a failed or successful ArchiveFile does to the counters.                *)
LEMMA ArchivedStep ==
    ASSUME RepairInv
    PROVE  \A fails \in BOOLEAN, old, new \in SUBSET Entry : Archived(fails, old, new) =>
               /\ before' \in BeforeType /\ before'.readable = before.readable
               /\ before'.faults = 0 => before.faults = 0 /\ ~fails
               /\ fails => ~Untroubled' /\ before'.replaced = before.replaced
               /\ ~fails => before'.replaced = before.replaced \cup (old \ new)
               /\ Untroubled' => Untroubled
  <1> SUFFICES ASSUME NEW fails \in BOOLEAN, NEW old \in SUBSET Entry, NEW new \in SUBSET Entry,
                      Archived(fails, old, new)
               PROVE  /\ before' \in BeforeType /\ before'.readable = before.readable
                      /\ before'.faults = 0 => before.faults = 0 /\ ~fails
                      /\ fails => ~Untroubled' /\ before'.replaced = before.replaced
                      /\ ~fails => before'.replaced = before.replaced \cup (old \ new)
                      /\ Untroubled' => Untroubled
    OBVIOUS
  <1>1. before \in BeforeType
    BY DEF RepairInv, RepairTypeOK
  <1>2. CASE fails
    <2>1. before' = [before EXCEPT !.faults = before.faults + 1]
      BY <1>2 DEF Archived
    <2>2. QED
      BY <1>1, <1>2, <2>1 DEF BeforeType, Untroubled
  <1>3. CASE ~fails
    <2>1. before' = [before EXCEPT !.replaced = before.replaced \cup (old \ new)]
      BY <1>3 DEF Archived
    <2>2. before.replaced \cup (old \ new) \in SUBSET Entry
      BY <1>1 DEF BeforeType
    <2>3. /\ before' \in BeforeType /\ before'.readable = before.readable
          /\ before'.crashes = before.crashes /\ before'.faults = before.faults
          /\ before'.replaced = before.replaced \cup (old \ new)
      BY <1>1, <2>1, <2>2 DEF BeforeType
    <2>4. QED
      BY <1>3, <2>3 DEF Untroubled
  <1>4. QED
    BY <1>2, <1>3

LEMMA ArchiveLogStep ==
    ASSUME RepairAssumption, RepairInv, NEW fails \in BOOLEAN, ArchiveLog(fails)
    PROVE  RepairInv'
  <1>1. /\ rep' = [rep EXCEPT !.at = "convert", !.logs = rep.logs \ {rep.n}]
        /\ UNCHANGED <<tables, listed>> /\ rep.at = "archive" /\ rep.n \in Numbers
        /\ Archived(fails, lost.log[rep.n], logs[rep.n])
    BY DEF ArchiveLog, RepairInv, Allocated
  <1>2. /\ rep'.at = "convert" /\ rep'.n = rep.n /\ rep'.next = rep.next
        /\ rep'.numbers = rep.numbers /\ rep'.logs = rep.logs \ {rep.n} /\ rep'.listed = rep.listed
        /\ rep' \in [at : Steps, logs : SUBSET Numbers, numbers : SUBSET Numbers,
                     listed : SUBSET Numbers, next : Nat, n : Nat, copy : Nat, data : SUBSET Entry]
    BY <1>1 DEF RepairInv, RepairTypeOK, Steps
  <1>3. /\ lost.log[rep.n] \in SUBSET Entry
        /\ before' \in BeforeType /\ before'.readable = before.readable
        /\ fails => before'.replaced = before.replaced
        /\ ~fails => before'.replaced = before.replaced \cup (lost.log[rep.n] \ logs[rep.n])
        /\ Untroubled' => Untroubled
    <2>1. lost.log[rep.n] \in SUBSET Entry /\ logs[rep.n] \in SUBSET Entry
      BY <1>1 DEF RepairInv, RepairTypeOK
    <2>2. QED
      BY <1>1, <2>1, ArchivedStep
  <1>4. /\ logs' \in [Numbers -> SUBSET Entry]
        /\ lost' \in [log : [Numbers -> SUBSET Entry], table : [Numbers -> SUBSET Entry]]
        /\ lost'.table = lost.table
        /\ \A m \in Numbers \ {rep.n} : logs'[m] = logs[m] /\ lost'.log[m] = lost.log[m]
        /\ fails => logs' = logs /\ lost' = lost
        /\ ~fails => logs'[rep.n] = {} /\ lost'.log[rep.n] = logs[rep.n]
    <2>1. CASE fails
      BY <2>1 DEF ArchiveLog, RepairInv, RepairTypeOK
    <2>2. CASE ~fails
      <3>1. /\ lost' = [lost EXCEPT !.log[rep.n] = logs[rep.n]]
            /\ logs' = [logs EXCEPT ![rep.n] = {}]
        BY <2>2 DEF ArchiveLog
      <3>2. QED
        BY <1>1, <2>2, <3>1 DEF RepairInv, RepairTypeOK
    <2>3. QED
      BY <2>1, <2>2
  <1>5. RepairTypeOK' /\ CopyApart'
    BY <1>1, <1>2, <1>3, <1>4 DEF RepairInv, RepairTypeOK, CopyApart, Copying
  <1>6. Allocated'
    BY <1>1, <1>2, <1>4 DEF RepairInv, Allocated, Running
  <1>7. Scanned' = Scanned
    BY <1>1, <1>2 DEF Scanned
  <1>8. Unconverted' = Unconverted
    BY <1>1, <1>2, <1>4 DEF Unconverted, Converted, RepairInv, RepairTypeOK
  <1>9. Accounted'
    BY <1>1, <1>2, <1>3, <1>7, <1>8 DEF RepairInv, Accounted, AtHand
  <1>10. InLogs \cup InLost \cup before.replaced \subseteq InLogs' \cup InLost' \cup before'.replaced
    <2>1. CASE fails
      BY <1>3, <1>4, <2>1 DEF InLogs, InLost
    <2>2. CASE ~fails
      <3>1. InLogs \subseteq InLogs' \cup InLost'
        BY <1>4, <2>2 DEF InLogs, InLost
      <3>2. InLost \subseteq InLost' \cup before'.replaced
        BY <1>3, <1>4, <2>2 DEF InLost
      <3>3. QED
        BY <1>3, <2>2, <3>1, <3>2
    <2>3. QED
      BY <2>1, <2>2
  <1>11. InTables' = InTables
    BY <1>1 DEF InTables, There
  <1>12. Kept'
    BY <1>3, <1>10, <1>11 DEF RepairInv, Kept
  <1>13. QED
    BY <1>5, <1>6, <1>9, <1>12 DEF RepairInv

(* What a failure adds to the counters.                                        *)
LEMMA CountedStep ==
    ASSUME RepairInv, NEW fails \in BOOLEAN, FaultCounted(fails)
    PROVE  /\ before' \in BeforeType
           /\ before'.readable = before.readable /\ before'.replaced = before.replaced
           /\ before'.faults = 0 => before.faults = 0 /\ ~fails
           /\ fails => ~Untroubled'
           /\ Untroubled' => Untroubled
  BY DEF RepairInv, RepairTypeOK, FaultCounted, Untroubled, BeforeType

LEMMA ScanTableStep ==
    ASSUME RepairInv, NEW n \in Numbers, ScanTable(n)
    PROVE  RepairInv'
  <1>1. /\ rep.at = "convert" /\ rep.logs = {} /\ n \in rep.numbers
        /\ UNCHANGED <<tables, logs, lost, listed, before>>
    BY DEF ScanTable
  <1>2. Allocated /\ RepairTypeOK /\ n \notin rep.listed /\ n < rep.next /\ n \in Nat
    BY <1>1 DEF RepairInv, Allocated, Running, RepairTypeOK, Numbers
  <1>3. Unconverted' = Unconverted /\ Kept' /\ Untroubled' = Untroubled
    <2>1. rep'.logs = {}
      BY <1>1, <1>2 DEF ScanTable, RepairTypeOK
    <2>2. QED
      BY <1>1, <2>1 DEF RepairInv, Unconverted, Kept, InLost, InTables, InLogs, There, Untroubled
  <1>4. CASE tables[n].whole
    <2>1. /\ rep' = [rep EXCEPT !.numbers = rep.numbers \ {n}, !.listed = rep.listed \cup {n}]
          /\ rep'.at = "convert" /\ rep'.next = rep.next
          /\ rep'.numbers = rep.numbers \ {n} /\ rep'.listed = rep.listed \cup {n}
      BY <1>1, <1>2, <1>4 DEF ScanTable, RepairTypeOK
    <2>2. RepairTypeOK' /\ Allocated' /\ CopyApart'
      BY <1>1, <1>2, <2>1 DEF RepairTypeOK, Allocated, Running, CopyApart, Copying
    <2>3. Scanned' = Scanned
      BY <1>1, <2>1 DEF Scanned
    <2>4. Accounted'
      BY <1>1, <1>3, <2>1, <2>3 DEF RepairInv, Accounted, AtHand
    <2>5. QED
      BY <1>3, <2>2, <2>4 DEF RepairInv
  <1>5. CASE ~tables[n].whole
    <2>1. /\ rep' = [rep EXCEPT !.at = "repair", !.numbers = rep.numbers \ {n}, !.n = n]
          /\ rep'.at = "repair" /\ rep'.next = rep.next /\ rep'.n = n
          /\ rep'.numbers = rep.numbers \ {n} /\ rep'.listed = rep.listed
      BY <1>1, <1>2, <1>5 DEF ScanTable, RepairTypeOK
    <2>2. RepairTypeOK'
      BY <1>1, <1>2, <2>1 DEF RepairTypeOK, Steps
    <2>3. Allocated' /\ CopyApart'
      BY <1>1, <1>2, <2>1 DEF RepairTypeOK, Allocated, Running, CopyApart, Copying
    <2>4. Scanned = Scanned' \cup AtHand'
      BY <1>1, <2>1 DEF Scanned, AtHand
    <2>5. Accounted'
      BY <1>1, <1>3, <2>1, <2>4 DEF RepairInv, Accounted, AtHand
    <2>6. QED
      BY <1>3, <2>2, <2>3, <2>5 DEF RepairInv
  <1>6. QED
    BY <1>4, <1>5

(* A step of RepairTable writes no other table than the original and its copy, *)
(* and no log.                                                                *)
LEMMA OthersStay ==
    ASSUME RepairInv, rep.at = "repair" \/ Copying, UNCHANGED logs,
           rep'.numbers = rep.numbers, rep'.logs = rep.logs,
           rep'.at \notin {"archive", "off"},
           rep'.listed \in {rep.listed, rep.listed \cup {rep.n}},
           \A m \in rep.numbers \cup rep.listed : tables'[m] = tables[m]
    PROVE  Scanned \subseteq Scanned' /\ Unconverted' = Unconverted
  <1>1. rep.at # "archive"
    BY DEF Copying
  <1>2. QED
    BY <1>1 DEF Scanned, Unconverted, Converted

LEMMA StartCopyStep ==
    ASSUME RepairAssumption, RepairInv, NEW fails \in BOOLEAN, StartCopy(fails)
    PROVE  RepairInv'
  <1>1. /\ rep.at = "repair" /\ rep.next <= MaxNumber /\ UNCHANGED <<logs, lost, listed>>
        /\ FaultCounted(fails)
    BY DEF StartCopy
  <1>2. /\ RepairTypeOK /\ Allocated /\ CopyApart /\ Accounted /\ Kept
        /\ rep.next \in Numbers /\ ~tables[rep.next].there /\ rep.next + 1 \in Nat
        /\ rep.n \in Numbers \ (rep.numbers \cup rep.listed) /\ rep.n < rep.next
        /\ \A m \in rep.numbers \cup rep.listed : m < rep.next /\ m \in Numbers
        /\ (\A m \in rep.numbers : tables[m].there) /\ tables[rep.n].there
    BY <1>1 DEF RepairInv, RepairTypeOK, Allocated, Running, CopyApart, Numbers, RepairAssumption
  <1>3. /\ before' \in BeforeType
        /\ before'.readable = before.readable /\ before'.replaced = before.replaced
        /\ fails => ~Untroubled'
        /\ Untroubled' => Untroubled
    BY <1>1, CountedStep
  <1>4. CASE fails
    <2>1. /\ rep' = [rep EXCEPT !.at = "convert", !.next = rep.next + 1] /\ UNCHANGED tables
          /\ rep'.at = "convert" /\ rep'.next = rep.next + 1
          /\ rep'.numbers = rep.numbers /\ rep'.listed = rep.listed
      BY <1>2, <1>4 DEF StartCopy, RepairTypeOK
    <2>2. RepairTypeOK'
      BY <1>1, <1>2, <1>3, <2>1 DEF RepairTypeOK, Steps
    <2>3. Allocated' /\ CopyApart'
      BY <1>1, <1>2, <2>1 DEF RepairTypeOK, Allocated, Running, CopyApart, Copying, Numbers
    <2>4. Accounted' /\ Kept'
      BY <1>1, <1>2, <1>3, <1>4, <2>1 DEF Accounted, Kept, InLost, InTables, InLogs, There
    <2>5. QED
      BY <2>2, <2>3, <2>4 DEF RepairInv
  <1>5. CASE ~fails
    <2>1. /\ rep' = [rep EXCEPT !.at = "copied", !.copy = rep.next, !.next = rep.next + 1]
          /\ tables' = [tables EXCEPT ![rep.next] = Table({}, FALSE)]
          /\ rep'.at = "copied" /\ rep'.next = rep.next + 1 /\ rep'.copy = rep.next
          /\ rep'.n = rep.n /\ rep'.logs = rep.logs
          /\ rep'.numbers = rep.numbers /\ rep'.listed = rep.listed
      BY <1>2, <1>5 DEF StartCopy, RepairTypeOK
    <2>2. /\ InTables' = InTables
          /\ tables' \in [Numbers -> [data : SUBSET Entry, whole : BOOLEAN, there : BOOLEAN]]
          /\ tables'[rep.next] = Table({}, FALSE)
          /\ \A m \in Numbers \ {rep.next} : tables'[m] = tables[m]
      <3>1. {} \in SUBSET Entry /\ FALSE \in BOOLEAN /\ InTables \cup {} = InTables
        OBVIOUS
      <3>2. tables' = [tables EXCEPT ![rep.next] = Table({}, FALSE)]
        BY <2>1
      <3>3. rep.next \in Numbers /\ ~tables[rep.next].there
        BY <1>2
      <3>4. QED
        BY <3>1, <3>2, <3>3, WriteNew
    <2>3. RepairTypeOK'
      BY <1>1, <1>2, <1>3, <2>1, <2>2 DEF RepairTypeOK, Steps
    <2>4. Allocated'
      <3>1. \A m \in Numbers : m >= rep.next + 1 => m >= rep.next /\ m # rep.next
        BY <1>2 DEF Numbers, RepairAssumption
      <3>2. rep.next + 1 > 0 /\ \A m \in rep.numbers \cup rep.listed : m < rep.next + 1
        BY <1>2 DEF Numbers, RepairAssumption
      <3>3. \A m \in Numbers : m >= rep'.next => ~tables'[m].there /\ logs'[m] = {}
        <4>1. \A m \in Numbers : m >= rep.next => ~tables[m].there /\ logs[m] = {}
          BY <1>1, <1>2 DEF Allocated, Running
        <4>2. \A m \in Numbers : m >= rep'.next => m >= rep.next /\ m \in Numbers \ {rep.next}
          BY <2>1, <3>1
        <4>3. QED
          BY <1>1, <2>2, <4>1, <4>2
      <3>4. rep'.next > 0 /\ \A m \in rep'.numbers \cup rep'.listed : m < rep'.next
        BY <2>1, <3>2
      <3>5. \A m \in rep'.numbers : tables'[m].there
        <4>1. \A m \in rep.numbers : m \in Numbers \ {rep.next}
          BY <1>2 DEF Numbers, RepairAssumption
        <4>2. QED
          BY <1>2, <2>1, <2>2, <4>1
      <3>6. rep'.at = "copied" /\ rep'.numbers \cap rep'.listed = {}
        BY <1>2, <2>1 DEF Allocated
      <3>7. QED
        BY <3>3, <3>4, <3>5, <3>6 DEF Allocated
    <2>5. CopyApart'
      <3>1. /\ rep'.at = "copied" /\ rep'.copy = rep.next /\ rep'.n = rep.n
            /\ rep'.next = rep.next + 1
            /\ rep'.numbers = rep.numbers /\ rep'.listed = rep.listed
        BY <2>1
      <3>2. rep.n # rep.next /\ rep.next \notin rep.numbers \cup rep.listed
        BY <1>2 DEF Numbers, RepairAssumption
      <3>3. tables'[rep.n].there /\ tables'[rep.next].data = {} /\ tables'[rep.next].there
        BY <1>2, <2>2, <3>2 DEF Table
      <3>4. rep.n < rep.next + 1 /\ rep.next < rep.next + 1
        BY <1>2 DEF Numbers, RepairAssumption
      <3>5. QED
        BY <1>2, <3>1, <3>2, <3>3, <3>4 DEF CopyApart, Copying
    <2>6. Scanned \subseteq Scanned' /\ Unconverted' = Unconverted
      <3>1. \A m \in rep.numbers \cup rep.listed : tables'[m] = tables[m]
        BY <1>2, <2>2 DEF Numbers, RepairAssumption
      <3>2. QED
        BY <1>1, <2>1, <3>1, OthersStay
    <2>7. AtHand' = AtHand
      <3>1. rep.n # rep.next
        BY <1>2 DEF Numbers, RepairAssumption
      <3>2. tables'[rep.n] = tables[rep.n]
        BY <1>2, <2>2, <3>1
      <3>3. AtHand = tables[rep.n].data
        BY <1>1 DEF AtHand
      <3>4. AtHand' = tables'[rep.n].data
        BY <2>1 DEF AtHand
      <3>5. QED
        BY <3>2, <3>3, <3>4
    <2>8. Accounted'
      BY <1>1, <1>2, <1>3, <2>1, <2>6, <2>7 DEF Accounted
    <2>9. Kept'
      BY <1>1, <1>2, <1>3, <2>2 DEF Kept, InLost, InLogs
    <2>10. QED
      BY <2>3, <2>4, <2>5, <2>8, <2>9 DEF RepairInv
  <1>6. QED
    BY <1>4, <1>5

LEMMA ArchiveTableStep ==
    ASSUME RepairInv, NEW fails \in BOOLEAN, ArchiveTable(fails)
    PROVE  RepairInv'
  <1> DEFINE data == tables[rep.n].data
             at == IF data = {} THEN "convert" ELSE "finish"
  <1>1. /\ rep.at = "copied" /\ Archived(fails, lost.table[rep.n], data)
        /\ rep' = [rep EXCEPT !.at = at, !.data = data]
        /\ UNCHANGED <<logs, listed>>
    BY DEF ArchiveTable
  <1>2. /\ RepairTypeOK /\ Allocated /\ CopyApart /\ Accounted /\ Kept
        /\ rep.n \in Numbers \ (rep.numbers \cup rep.listed)
        /\ rep.copy \in Numbers \ {rep.n} /\ tables[rep.copy].data = {}
        /\ data \in SUBSET Entry /\ at \in {"convert", "finish"} /\ (at = "convert" => data = {})
        /\ tables[rep.n].there /\ lost.table[rep.n] \in SUBSET Entry
    BY <1>1 DEF RepairInv, RepairTypeOK, CopyApart, Copying
  <1>3. /\ before' \in BeforeType /\ before'.readable = before.readable
        /\ fails => before'.replaced = before.replaced
        /\ ~fails => before'.replaced = before.replaced \cup (lost.table[rep.n] \ data)
        /\ Untroubled' => Untroubled
    <2>1. /\ lost.table[rep.n] \in SUBSET Entry /\ data \in SUBSET Entry
          /\ Archived(fails, lost.table[rep.n], data)
      BY <1>1, <1>2
    <2> HIDE DEF data
    <2>2. QED
      BY <2>1, ArchivedStep
  <1>4. /\ tables' \in [Numbers -> [data : SUBSET Entry, whole : BOOLEAN, there : BOOLEAN]]
        /\ lost' \in [log : [Numbers -> SUBSET Entry], table : [Numbers -> SUBSET Entry]]
        /\ lost'.log = lost.log
        /\ \A m \in Numbers \ {rep.n} :
              tables'[m] = tables[m] /\ lost'.table[m] = lost.table[m]
        /\ fails => tables' = tables /\ lost' = lost
        /\ ~fails => tables'[rep.n] = Absent /\ lost'.table[rep.n] = data
    <2>1. CASE fails
      BY <1>2, <2>1 DEF ArchiveTable, RepairTypeOK
    <2>2. CASE ~fails
      <3>1. /\ lost' = [lost EXCEPT !.table[rep.n] = data]
            /\ tables' = [tables EXCEPT ![rep.n] = Absent]
        BY <2>2 DEF ArchiveTable
      <3>2. QED
        BY <1>2, <2>2, <3>1 DEF RepairTypeOK, Absent
    <2>3. QED
      BY <2>1, <2>2
  <1> HIDE DEF at
  <1>5. /\ rep'.at = at /\ rep'.data = data /\ rep'.n = rep.n /\ rep'.copy = rep.copy
        /\ rep'.next = rep.next /\ rep'.logs = rep.logs
        /\ rep'.numbers = rep.numbers /\ rep'.listed = rep.listed
    BY <1>1, <1>2 DEF RepairTypeOK
  <1>6. RepairTypeOK'
    BY <1>1, <1>2, <1>3, <1>4 DEF RepairTypeOK, Steps
  <1>7. Allocated'
    BY <1>1, <1>2, <1>4, <1>5 DEF RepairTypeOK, Allocated, Running, Absent
  <1>8. CopyApart'
    <2>1. InOriginal(rep.data)'
      <3>1. CASE fails
        BY <1>2, <1>4, <1>5, <3>1 DEF InOriginal
      <3>2. CASE ~fails
        BY <1>2, <1>4, <1>5, <3>2 DEF InOriginal, Absent
      <3>3. QED
        BY <3>1, <3>2
    <2>2. tables'[rep.copy] = tables[rep.copy]
      BY <1>2, <1>4
    <2>3. QED
      BY <1>1, <1>2, <1>5, <2>1, <2>2 DEF CopyApart, Copying
  <1>9. Scanned \subseteq Scanned' /\ Unconverted' = Unconverted
    <2>1. \A m \in rep.numbers \cup rep.listed : tables'[m] = tables[m]
      BY <1>2, <1>4 DEF RepairTypeOK
    <2>2. QED
      BY <1>1, <1>2, <1>5, <2>1, OthersStay DEF Copying
  <1>10. AtHand' = AtHand
    BY <1>1, <1>2, <1>5 DEF AtHand
  <1>11. Accounted'
    BY <1>1, <1>2, <1>3, <1>5, <1>9, <1>10 DEF Accounted
  <1>12. InTables \subseteq InTables' \cup InLost'
    BY <1>2, <1>4 DEF InTables, InLost, There, RepairTypeOK
  <1>13. InLost \subseteq InLost' \cup before'.replaced
    <2>1. CASE fails
      BY <1>4, <2>1 DEF InLost
    <2>2. CASE ~fails
      BY <1>3, <1>4, <2>2 DEF InLost
    <2>3. QED
      BY <2>1, <2>2
  <1>14. Kept'
    BY <1>1, <1>2, <1>3, <1>12, <1>13 DEF Kept, InLogs
  <1>15. QED
    BY <1>6, <1>7, <1>8, <1>11, <1>14 DEF RepairInv

LEMMA FinishCopyStep ==
    ASSUME RepairInv, NEW fails \in BOOLEAN, FinishCopy(fails)
    PROVE  RepairInv'
  <1> DEFINE copy == IF fails THEN Absent ELSE Table(rep.data, TRUE)
             at == IF fails THEN "convert" ELSE "rename"
  <1>1. /\ rep.at = "finish" /\ tables' = [tables EXCEPT ![rep.copy] = copy]
        /\ rep' = [rep EXCEPT !.at = at]
        /\ FaultCounted(fails) /\ UNCHANGED <<logs, lost, listed>>
    BY DEF FinishCopy
  <1>2. /\ RepairTypeOK /\ Allocated /\ CopyApart /\ Accounted /\ Kept
        /\ rep.n \in Numbers \ (rep.numbers \cup rep.listed) /\ InOriginal(rep.data)
        /\ rep.copy \in Numbers \ (rep.numbers \cup rep.listed \cup {rep.n})
        /\ tables[rep.copy].data = {} /\ rep.copy < rep.next
        /\ copy \in [data : SUBSET Entry, whole : BOOLEAN, there : BOOLEAN]
    BY <1>1 DEF RepairInv, RepairTypeOK, CopyApart, Copying, Absent, Table
  <1>3. /\ before' \in BeforeType
        /\ before'.readable = before.readable /\ before'.replaced = before.replaced
        /\ fails => ~Untroubled'
        /\ Untroubled' => Untroubled
    BY <1>1, CountedStep
  <1>4. /\ fails => at = "convert" /\ copy = Absent
        /\ ~fails => at = "rename" /\ copy.data = rep.data /\ copy.there
        /\ copy.data = {} \/ ~fails
    BY DEF Absent, Table
  <1> HIDE DEF copy, at
  <1>5. /\ rep'.at = at /\ rep'.data = rep.data /\ rep'.n = rep.n /\ rep'.copy = rep.copy
        /\ rep'.next = rep.next /\ rep'.logs = rep.logs
        /\ rep'.numbers = rep.numbers /\ rep'.listed = rep.listed
        /\ tables'[rep.copy] = copy /\ \A m \in Numbers \ {rep.copy} : tables'[m] = tables[m]
    BY <1>1, <1>2 DEF RepairTypeOK
  <1>6. RepairTypeOK'
    BY <1>1, <1>2, <1>3, <1>4 DEF RepairTypeOK, Steps
  <1>7. Allocated'
    <2>1. \A m \in Numbers : m >= rep.next => m # rep.copy
      BY <1>2 DEF RepairTypeOK
    <2>2. QED
      BY <1>1, <1>2, <1>4, <1>5, <2>1 DEF Allocated, Running
  <1>8. CopyApart'
    BY <1>1, <1>2, <1>4, <1>5 DEF CopyApart, Copying, InOriginal
  <1>9. CASE fails
    <2>1. Accounted'
      BY <1>1, <1>3, <1>4, <1>5, <1>9 DEF Accounted
    <2>2. InTables \subseteq InTables'
      BY <1>2, <1>5 DEF InTables, There
    <2>3. Kept'
      BY <1>1, <1>2, <1>3, <2>2 DEF Kept, InLost, InLogs
    <2>4. QED
      BY <1>6, <1>7, <1>8, <2>1, <2>3 DEF RepairInv
  <1>10. CASE ~fails
    <2>1. Scanned \subseteq Scanned' /\ Unconverted' = Unconverted
      <3>1. \A m \in rep.numbers \cup rep.listed : tables'[m] = tables[m]
        BY <1>2, <1>5 DEF RepairTypeOK
      <3>2. QED
        BY <1>1, <1>4, <1>5, <1>10, <3>1, OthersStay DEF Copying
    <2>2. AtHand' = AtHand
      <3>1. AtHand = rep.data
        BY <1>1 DEF AtHand
      <3>2. AtHand' = tables'[rep.copy].data
        BY <1>4, <1>5, <1>10 DEF AtHand
      <3>3. QED
        BY <1>4, <1>5, <1>10, <3>1, <3>2
    <2>3. Accounted'
      BY <1>1, <1>2, <1>3, <1>4, <1>5, <1>10, <2>1, <2>2 DEF Accounted
    <2>4. InTables \subseteq InTables'
      BY <1>2, <1>5 DEF InTables, There
    <2>5. Kept'
      BY <1>1, <1>2, <1>3, <2>4 DEF Kept, InLost, InLogs
    <2>6. QED
      BY <1>6, <1>7, <1>8, <2>3, <2>5 DEF RepairInv
  <1>11. QED
    BY <1>9, <1>10

LEMMA RenameCopyStep ==
    ASSUME RepairInv, NEW fails \in BOOLEAN, RenameCopy(fails)
    PROVE  RepairInv'
  <1> DEFINE original == IF fails THEN tables[rep.n] ELSE tables[rep.copy]
             newly == IF fails THEN rep.listed ELSE rep.listed \cup {rep.n}
  <1>1. /\ rep.at = "rename" /\ FaultCounted(fails) /\ UNCHANGED <<logs, lost, listed>>
        /\ rep' = [rep EXCEPT !.at = "convert", !.listed = newly]
    BY DEF RenameCopy
  <1>2. /\ RepairTypeOK /\ Allocated /\ CopyApart /\ Accounted /\ Kept
        /\ rep.n \in Numbers \ (rep.numbers \cup rep.listed) /\ rep.n < rep.next
        /\ rep.copy \in Numbers \ (rep.numbers \cup rep.listed \cup {rep.n})
        /\ rep.copy < rep.next /\ tables[rep.copy].there /\ InOriginal(tables[rep.copy].data)
        /\ newly \in SUBSET Numbers
    BY <1>1 DEF RepairInv, RepairTypeOK, CopyApart, Copying
  <1>3. /\ before' \in BeforeType
        /\ before'.readable = before.readable /\ before'.replaced = before.replaced
        /\ fails => ~Untroubled'
        /\ Untroubled' => Untroubled
    BY <1>1, CountedStep
  <1>4. /\ tables' \in [Numbers -> [data : SUBSET Entry, whole : BOOLEAN, there : BOOLEAN]]
        /\ tables'[rep.copy] = Absent /\ tables'[rep.n] = original
        /\ \A m \in Numbers \ {rep.copy, rep.n} : tables'[m] = tables[m]
    BY <1>2 DEF RenameCopy, RepairTypeOK, Absent
  <1>5. /\ fails => newly = rep.listed
        /\ fails => original = tables[rep.n]
        /\ ~fails => newly = rep.listed \cup {rep.n} /\ original = tables[rep.copy]
    OBVIOUS
  <1> HIDE DEF original, newly
  <1>6. /\ rep'.at = "convert" /\ rep'.next = rep.next /\ rep'.logs = rep.logs
        /\ rep'.numbers = rep.numbers /\ rep'.listed = newly
    BY <1>1, <1>2 DEF RepairTypeOK
  <1>7. RepairTypeOK' /\ CopyApart'
    BY <1>1, <1>2, <1>3, <1>4, <1>6 DEF RepairTypeOK, Steps, CopyApart, Copying
  <1>8. Allocated'
    <2>1. \A m \in Numbers : m >= rep.next => m # rep.copy /\ m # rep.n
      BY <1>2 DEF RepairTypeOK
    <2>2. \A m \in rep.numbers \cup newly : m < rep.next
      BY <1>1, <1>2, <1>5 DEF Allocated, Running
    <2>3. rep.numbers \cap newly = {}
      BY <1>2, <1>5 DEF Allocated
    <2>4. \A m \in rep.numbers : tables'[m].there
      BY <1>1, <1>2, <1>4 DEF Allocated, Running, RepairTypeOK
    <2>5. \A m \in Numbers : m >= rep.next => ~tables'[m].there /\ logs'[m] = {}
      BY <1>1, <1>2, <1>4, <2>1 DEF Allocated, Running
    <2>6. QED
      BY <1>1, <1>2, <1>6, <2>2, <2>3, <2>4, <2>5 DEF Allocated, Running
  <1>9. ASSUME fails PROVE Accounted'
    BY <1>1, <1>3, <1>6, <1>9 DEF Accounted
  <1>10. ASSUME ~fails PROVE Accounted'
    <2>1. Scanned \subseteq Scanned' /\ Unconverted' = Unconverted
      <3>1. \A m \in rep.numbers \cup rep.listed : tables'[m] = tables[m]
        BY <1>2, <1>4 DEF RepairTypeOK
      <3>2. QED
        BY <1>1, <1>5, <1>6, <1>10, <3>1, OthersStay DEF Copying
    <2>2. AtHand = tables[rep.copy].data
      BY <1>1 DEF AtHand
    <2>3. AtHand \subseteq Scanned'
      BY <1>4, <1>5, <1>6, <1>10, <2>2 DEF Scanned
    <2>4. QED
      BY <1>1, <1>2, <1>3, <1>6, <2>1, <2>3 DEF Accounted
  <1>11. InTables \subseteq InTables' \cup InLost
    <2>1. CASE fails
      BY <1>2, <1>4, <1>5, <2>1 DEF InTables, InLost, There, InOriginal
    <2>2. CASE ~fails
      BY <1>2, <1>4, <1>5, <2>2 DEF InTables, There, InOriginal
    <2>3. QED
      BY <2>1, <2>2
  <1>12. Kept'
    BY <1>1, <1>2, <1>3, <1>11 DEF Kept, InLost, InLogs
  <1>13. QED
    BY <1>7, <1>8, <1>9, <1>10, <1>12 DEF RepairInv

LEMMA WriteDescriptorStep ==
    ASSUME RepairInv, NEW fails \in BOOLEAN, WriteDescriptor(fails)
    PROVE  RepairInv'
  <1>1. /\ rep.at = "convert" /\ rep.logs = {} /\ rep.numbers = {}
        /\ FaultCounted(fails) /\ UNCHANGED <<tables, logs, lost>>
    BY DEF WriteDescriptor
  <1>2. RepairTypeOK /\ Allocated /\ CopyApart /\ Accounted /\ Kept
    BY DEF RepairInv
  <1>3. /\ before' \in BeforeType
        /\ before'.readable = before.readable /\ before'.replaced = before.replaced
        /\ fails => ~Untroubled'
        /\ Untroubled' => Untroubled
    BY <1>1, CountedStep
  <1>4. Kept'
    BY <1>1, <1>2, <1>3 DEF Kept, InLost, InTables, InLogs, There
  <1>5. CASE fails
    <2>1. rep' = Off /\ listed' = listed
      BY <1>5 DEF WriteDescriptor
    <2>2. RepairTypeOK' /\ Allocated' /\ CopyApart'
      BY <1>1, <1>2, <1>3, <2>1
         DEF RepairTypeOK, Steps, Off, Allocated, Running, CopyApart, Copying
    <2>3. Accounted'
      BY <1>3, <1>5, <2>1 DEF Accounted, Off
    <2>4. QED
      BY <1>4, <2>2, <2>3 DEF RepairInv
  <1>6. CASE ~fails
    <2>1. /\ rep' = [rep EXCEPT !.at = "done"] /\ listed' = rep.listed
          /\ rep'.at = "done" /\ rep'.logs = {} /\ rep'.numbers = {} /\ rep'.listed = rep.listed
      BY <1>1, <1>2, <1>6 DEF WriteDescriptor, RepairTypeOK
    <2>2. RepairTypeOK' /\ Allocated' /\ CopyApart'
      BY <1>1, <1>2, <1>3, <2>1
         DEF RepairTypeOK, Steps, Allocated, Running, CopyApart, Copying
    <2>3. Scanned' = Scanned /\ Unconverted' = Unconverted
      BY <1>1, <2>1 DEF Scanned, Unconverted, Converted
    <2>4. AtHand' = AtHand
      BY <1>1, <2>1 DEF AtHand
    <2>5. Accounted'
      BY <1>1, <1>2, <1>3, <2>1, <2>3, <2>4 DEF Accounted
    <2>6. QED
      BY <1>4, <2>2, <2>5 DEF RepairInv
  <1>7. QED
    BY <1>5, <1>6

LEMMA RepairCrashStep ==
    ASSUME RepairInv, NEW partial \in BOOLEAN, Crash(partial)
    PROVE  RepairInv'
  <1>1. /\ rep' = Off /\ before' = [before EXCEPT !.crashes = before.crashes + 1]
        /\ UNCHANGED <<logs, lost, listed>>
    BY DEF Crash
  <1>2. RepairTypeOK /\ Kept
    BY DEF RepairInv
  <1>3. /\ before' \in BeforeType /\ ~Untroubled'
        /\ before'.readable = before.readable /\ before'.replaced = before.replaced
    BY <1>1, <1>2 DEF RepairTypeOK, Untroubled, BeforeType
  <1>4. /\ tables' \in [Numbers -> [data : SUBSET Entry, whole : BOOLEAN, there : BOOLEAN]]
        /\ InTables' = InTables
    <2>1. CASE partial
      <3>1. /\ tables' = [tables EXCEPT ![rep.next] = Table({}, FALSE)]
            /\ rep.next \in Numbers /\ ~tables[rep.next].there
        BY <2>1 DEF Crash, RepairInv, RepairTypeOK, Allocated, Running, Numbers
      <3>2. {} \in SUBSET Entry /\ FALSE \in BOOLEAN /\ InTables \cup {} = InTables
        OBVIOUS
      <3>3. QED
        BY <3>1, <3>2, WriteNew
    <2>2. CASE ~partial
      <3>1. tables' = tables
        BY <2>2 DEF Crash
      <3>2. QED
        BY <1>2, <3>1 DEF RepairTypeOK, InTables, There
    <2>3. QED
      BY <2>1, <2>2
  <1>5. RepairTypeOK' /\ Allocated' /\ CopyApart'
    BY <1>1, <1>2, <1>3, <1>4 DEF RepairTypeOK, Steps, Off, Allocated, Running, CopyApart, Copying
  <1>6. Accounted'
    BY <1>1, <1>3 DEF Accounted, Off
  <1>7. Kept'
    BY <1>1, <1>2, <1>3, <1>4 DEF Kept, InLogs, InLost
  <1>8. QED
    BY <1>5, <1>6, <1>7 DEF RepairInv

(* A step that at most writes a file of the next number, and lets no copy be    *)
(* renamed but that one.                                                        *)
LEMMA OnceStays ==
    ASSUME RepairInv, TablesOnce, Running, lost'.table = lost.table,
           \A m \in Numbers : tables'[m] = tables[m] \/ m = rep.next,
           Copying' => ~Copying /\ rep'.copy = rep.next,
           Running' => rep'.next \in Nat /\ rep.next <= rep'.next
    PROVE  TablesOnce'
  <1> SUFFICES ASSUME NEW n \in Numbers, lost.table[n] # {}
               PROVE  /\ tables'[n].there => tables'[n].whole
                      /\ Running' => n < rep'.next
                      /\ Above(n)'
    BY DEF TablesOnce
  <1>1. (tables[n].there => tables[n].whole) /\ n < rep.next /\ Above(n)
    BY DEF TablesOnce
  <1>2. rep.next \in Nat /\ \A m \in Numbers : tables[m].there => m < rep.next
    BY DEF RepairInv, RepairTypeOK, Allocated, Numbers
  <1>3. \A m \in Numbers : m < rep.next => tables'[m] = tables[m]
    BY <1>2 DEF Numbers
  <1>4. Running' => n < rep'.next
    BY <1>1, <1>2 DEF Numbers
  <1>5. CASE tables[n].there
    BY <1>1, <1>3, <1>4, <1>5 DEF Above
  <1>6. CASE ~tables[n].there
    <2>1. PICK m \in Numbers : m > n /\ tables[m].there
      BY <1>1, <1>6 DEF Above
    <2>2. m < rep.next /\ tables'[m].there
      BY <1>2, <1>3, <2>1
    <2>3. ~(Copying' /\ m = rep'.copy)
      BY <1>2, <2>2 DEF Numbers
    <2>4. Above(n)'
      BY <2>1, <2>2, <2>3 DEF Above
    <2>5. QED
      BY <1>1, <1>3, <1>4, <1>6, <2>4
  <1>7. QED
    BY <1>5, <1>6

LEMMA NoneReplacedInit ==
    ASSUME RepairInit PROVE NoneReplaced
  <1>1. /\ lost = NothingLost /\ rep = Off /\ before.replaced = {}
    BY DEF RepairInit, Directory
  <1>2. QED
    BY <1>1 DEF NoneReplaced, TablesOnce, UnderRepair, LogsOnce, NothingLost, Off, Copying

LEMMA NoneReplacedFindFiles ==
    ASSUME RepairAssumption, RepairInv, NoneReplaced, FindFiles
    PROVE  NoneReplaced'
  <1>1. /\ rep'.at = "convert" /\ rep'.logs = {n \in Numbers : logs[n] # {}}
        /\ rep'.next = NextFileNumber /\ UNCHANGED <<tables, logs, lost, before>>
        /\ rep.at = "off"
    BY DEF FindFiles, Off
  <1> SUFFICES ASSUME before.faults = 0
               PROVE  TablesOnce' /\ UnderRepair' /\ LogsOnce'
    BY <1>1 DEF NoneReplaced
  <1>2. TablesOnce /\ LogsOnce
    BY DEF NoneReplaced
  <1>3. /\ NextFileNumber \in Nat
        /\ \A n \in Numbers : tables[n].there => n < NextFileNumber
    BY NumbersAbove
  <1>4. UnderRepair' /\ LogsOnce'
    BY <1>1, <1>2 DEF UnderRepair, LogsOnce, Copying
  <1>5. ASSUME NEW n \in Numbers, lost.table[n] # {}
        PROVE  (tables[n].there => tables[n].whole) /\ n < NextFileNumber /\ Above(n)'
    <2>1. (tables[n].there => tables[n].whole) /\ Above(n)
      BY <1>2, <1>5 DEF TablesOnce
    <2>2. Above(n)'
      BY <1>1, <2>1 DEF Above, Copying
    <2>3. \E m \in Numbers : m >= n /\ tables[m].there
      BY <2>1 DEF Above, Numbers
    <2>4. n < NextFileNumber
      BY <1>3, <2>3 DEF Numbers
    <2>5. QED
      BY <2>1, <2>2, <2>4
  <1>6. TablesOnce'
    BY <1>1, <1>5 DEF TablesOnce
  <1>7. QED
    BY <1>4, <1>6

LEMMA NoneReplacedConvert ==
    ASSUME RepairAssumption, RepairInv, NoneReplaced,
           NEW n \in Numbers, NEW fails \in BOOLEAN, ConvertLog(n, fails)
    PROVE  NoneReplaced'
  <1>1. /\ rep.at = "convert" /\ n \in rep.logs /\ UNCHANGED <<logs, lost, listed>>
        /\ FaultCounted(fails) /\ rep.next \in Nat
        /\ rep'.at = "archive" /\ rep'.n = n /\ rep'.logs = rep.logs /\ rep'.next = rep.next + 1
        /\ \A m \in Numbers : tables'[m] = tables[m] \/ m = rep.next
    BY DEF ConvertLog, RepairInv, RepairTypeOK
  <1>2. before'.replaced = before.replaced /\ (before'.faults = 0 => before.faults = 0)
    BY <1>1, CountedStep
  <1> SUFFICES ASSUME before.faults = 0
               PROVE  TablesOnce' /\ UnderRepair' /\ LogsOnce'
    BY <1>2 DEF NoneReplaced
  <1>3. TablesOnce /\ LogsOnce
    BY DEF NoneReplaced
  <1>4. TablesOnce'
    <2>1. Running /\ ~Copying' /\ rep'.next \in Nat /\ rep.next <= rep'.next
      BY <1>1 DEF Running, Copying
    <2>2. QED
      BY <1>1, <1>3, <2>1, OnceStays
  <1>5. QED
    BY <1>1, <1>3, <1>4 DEF UnderRepair, LogsOnce, Copying

LEMMA NoneReplacedArchiveLog ==
    ASSUME RepairInv, NoneReplaced, NEW fails \in BOOLEAN, ArchiveLog(fails)
    PROVE  NoneReplaced'
  <1>1. /\ rep.at = "archive" /\ rep.n \in Numbers /\ lost.log[rep.n] \in SUBSET Entry
        /\ Archived(fails, lost.log[rep.n], logs[rep.n]) /\ UNCHANGED <<tables, listed>>
        /\ rep'.at = "convert" /\ rep'.logs = rep.logs \ {rep.n} /\ rep'.next = rep.next
    BY DEF ArchiveLog, RepairInv, RepairTypeOK, Allocated
  <1>2. /\ before'.faults = 0 => before.faults = 0 /\ ~fails
        /\ ~fails => before'.replaced = before.replaced \cup (lost.log[rep.n] \ logs[rep.n])
    <2> DEFINE old == lost.log[rep.n]
               new == logs[rep.n]
    <2>1. old \in SUBSET Entry /\ new \in SUBSET Entry /\ Archived(fails, old, new)
      BY <1>1 DEF RepairInv, RepairTypeOK
    <2> HIDE DEF old, new
    <2>2. /\ before'.faults = 0 => before.faults = 0 /\ ~fails
          /\ ~fails => before'.replaced = before.replaced \cup (old \ new)
      BY <2>1, ArchivedStep
    <2>3. QED
      BY <2>2 DEF old, new
  <1> SUFFICES ASSUME before.faults = 0, ~fails
               PROVE  before'.replaced = {} /\ TablesOnce' /\ UnderRepair' /\ LogsOnce'
    BY <1>2 DEF NoneReplaced
  <1>3. TablesOnce /\ LogsOnce /\ before.replaced = {}
    BY DEF NoneReplaced
  <1>4. /\ lost' = [lost EXCEPT !.log[rep.n] = logs[rep.n]]
        /\ logs' = [logs EXCEPT ![rep.n] = {}]
    BY DEF ArchiveLog
  <1>5. /\ lost'.table = lost.table /\ logs'[rep.n] = {}
        /\ \A m \in Numbers \ {rep.n} : logs'[m] = logs[m] /\ lost'.log[m] = lost.log[m]
    BY <1>1, <1>4 DEF RepairInv, RepairTypeOK
  <1>6. lost.log[rep.n] = {}
    BY <1>1, <1>3 DEF LogsOnce
  <1>7. LogsOnce'
    BY <1>1, <1>3, <1>5 DEF LogsOnce, RepairInv, RepairTypeOK
  <1>8. TablesOnce'
    <2>1. Running /\ ~Copying' /\ rep'.next \in Nat /\ rep.next <= rep'.next
      BY <1>1 DEF Running, Copying, RepairInv, RepairTypeOK
    <2>2. QED
      BY <1>1, <1>3, <1>5, <2>1, OnceStays
  <1>9. UnderRepair'
    BY <1>1 DEF UnderRepair, Copying
  <1>10. QED
    BY <1>2, <1>3, <1>6, <1>7, <1>8, <1>9

LEMMA NoneReplacedScan ==
    ASSUME RepairInv, NoneReplaced, NEW n \in Numbers, ScanTable(n)
    PROVE  NoneReplaced'
  <1>1. /\ rep.at = "convert" /\ UNCHANGED <<tables, logs, lost, before>>
        /\ rep'.at \in {"convert", "repair"} /\ rep'.logs = rep.logs /\ rep'.next = rep.next
        /\ rep'.at = "repair" => rep'.n = n /\ ~tables[n].whole
    BY DEF ScanTable, RepairInv, RepairTypeOK
  <1> SUFFICES ASSUME before.faults = 0
               PROVE  TablesOnce' /\ UnderRepair' /\ LogsOnce'
    BY <1>1 DEF NoneReplaced
  <1>2. TablesOnce /\ LogsOnce
    BY DEF NoneReplaced
  <1>3. Running /\ ~Copying' /\ rep'.next \in Nat /\ rep.next <= rep'.next
    BY <1>1 DEF Running, Copying, RepairInv, RepairTypeOK
  <1>4. TablesOnce'
    BY <1>1, <1>2, <1>3, OnceStays
  <1>5. QED
    BY <1>1, <1>2, <1>3, <1>4 DEF UnderRepair, LogsOnce

LEMMA NoneReplacedStartCopy ==
    ASSUME RepairAssumption, RepairInv, NoneReplaced, NEW fails \in BOOLEAN, StartCopy(fails)
    PROVE  NoneReplaced'
  <1>1. /\ rep.at = "repair" /\ UNCHANGED <<logs, lost, listed>> /\ FaultCounted(fails)
        /\ rep.next \in Numbers /\ rep.n \in Numbers /\ rep.n < rep.next
    BY DEF StartCopy, RepairInv, RepairTypeOK, Allocated, Running, CopyApart, Numbers
  <1>2. /\ before'.replaced = before.replaced
        /\ before'.faults = 0 => before.faults = 0 /\ ~fails
    BY <1>1, CountedStep
  <1> SUFFICES ASSUME before.faults = 0, ~fails
               PROVE  TablesOnce' /\ UnderRepair' /\ LogsOnce'
    BY <1>2 DEF NoneReplaced
  <1>3. TablesOnce /\ UnderRepair /\ LogsOnce
    BY DEF NoneReplaced
  <1>4. /\ rep'.at = "copied" /\ rep'.copy = rep.next /\ rep'.next = rep.next + 1
        /\ rep'.n = rep.n /\ rep'.logs = rep.logs
        /\ \A m \in Numbers : tables'[m] = tables[m] \/ m = rep.next
    BY DEF StartCopy, RepairInv, RepairTypeOK
  <1>5. TablesOnce'
    <2>1. Running /\ ~Copying /\ rep'.next \in Nat /\ rep.next <= rep'.next
      BY <1>1, <1>4 DEF Running, Copying, Numbers
    <2>2. QED
      BY <1>1, <1>3, <1>4, <2>1, OnceStays
  <1>6. lost.table[rep.next] = {}
    BY <1>1, <1>3 DEF TablesOnce, Running, Numbers
  <1>7. tables'[rep.n] = tables[rep.n]
    BY <1>1, <1>4 DEF Numbers
  <1>8. UnderRepair' /\ LogsOnce'
    BY <1>1, <1>3, <1>4, <1>6, <1>7 DEF UnderRepair, LogsOnce
  <1>9. QED
    BY <1>5, <1>8

LEMMA NoneReplacedArchiveTable ==
    ASSUME RepairInv, NoneReplaced, NEW fails \in BOOLEAN, ArchiveTable(fails)
    PROVE  NoneReplaced'
  <1>1. /\ rep.at = "copied" /\ Copying /\ Running
        /\ Archived(fails, lost.table[rep.n], tables[rep.n].data) /\ UNCHANGED <<logs, listed>>
        /\ rep'.at \in {"convert", "finish"} /\ rep'.n = rep.n /\ rep'.copy = rep.copy
        /\ rep'.next = rep.next /\ rep'.logs = rep.logs
        /\ rep.n \in Numbers /\ rep.copy \in Numbers \ {rep.n} /\ rep.n < rep.copy
        /\ rep.n < rep.next /\ tables[rep.n].there /\ tables[rep.copy].there
        /\ lost.table[rep.n] \in SUBSET Entry
    BY DEF ArchiveTable, RepairInv, RepairTypeOK, CopyApart, Copying, Running
  <1>2. /\ before'.faults = 0 => before.faults = 0 /\ ~fails
        /\ ~fails => before'.replaced =
                        before.replaced \cup (lost.table[rep.n] \ tables[rep.n].data)
    <2> DEFINE old == lost.table[rep.n]
               new == tables[rep.n].data
    <2>1. old \in SUBSET Entry /\ new \in SUBSET Entry /\ Archived(fails, old, new)
      BY <1>1 DEF RepairInv, RepairTypeOK
    <2> HIDE DEF old, new
    <2>2. /\ before'.faults = 0 => before.faults = 0 /\ ~fails
          /\ ~fails => before'.replaced = before.replaced \cup (old \ new)
      BY <2>1, ArchivedStep
    <2>3. QED
      BY <2>2 DEF old, new
  <1> SUFFICES ASSUME before.faults = 0, ~fails
               PROVE  before'.replaced = {} /\ TablesOnce' /\ UnderRepair' /\ LogsOnce'
    BY <1>2 DEF NoneReplaced
  <1>3. TablesOnce /\ UnderRepair /\ LogsOnce /\ before.replaced = {}
    BY DEF NoneReplaced
  <1>4. /\ lost' = [lost EXCEPT !.table[rep.n] = tables[rep.n].data]
        /\ tables' = [tables EXCEPT ![rep.n] = Absent]
    BY DEF ArchiveTable
  <1>5. /\ lost'.log = lost.log /\ ~tables'[rep.n].there
        /\ \A m \in Numbers \ {rep.n} :
              tables'[m] = tables[m] /\ lost'.table[m] = lost.table[m]
    BY <1>1, <1>4 DEF RepairInv, RepairTypeOK, Absent
  <1>6. lost.table[rep.n] = {}
    BY <1>1, <1>3 DEF TablesOnce, UnderRepair
  <1>7. UnderRepair' /\ LogsOnce'
    BY <1>1, <1>3, <1>5 DEF UnderRepair, LogsOnce
  <1>8. ASSUME NEW n \in Numbers, n <= rep.n PROVE Above(n)'
    <2>1. rep.copy > n /\ tables'[rep.copy].there
      BY <1>1, <1>5, <1>8 DEF Numbers
    <2>2. QED
      BY <1>1, <1>8, <2>1 DEF Above
  <1>9. ASSUME NEW n \in Numbers, n # rep.n, lost.table[n] # {}
        PROVE  (tables'[n].there => tables'[n].whole) /\ n < rep.next /\ Above(n)'
    <2>1. (tables[n].there => tables[n].whole) /\ n < rep.next /\ Above(n)
      BY <1>1, <1>3, <1>9 DEF TablesOnce
    <2>2. tables'[n] = tables[n]
      BY <1>5, <1>9
    <2>3. CASE tables[n].there
      BY <2>1, <2>2, <2>3 DEF Above
    <2>4. CASE ~tables[n].there
      <3>1. PICK m \in Numbers : m > n /\ tables[m].there /\ (m = rep.copy => n <= rep.n)
        BY <1>1, <2>1, <2>4 DEF Above
      <3>2. CASE m = rep.n
        BY <1>8, <2>1, <2>2, <3>1, <3>2 DEF Numbers
      <3>3. CASE m # rep.n
        <4>1. tables'[m].there
          BY <1>5, <3>1, <3>3
        <4>2. Above(n)'
          BY <1>1, <3>1, <4>1 DEF Above
        <4>3. QED
          BY <2>1, <2>2, <4>2
      <3>4. QED
        BY <3>2, <3>3
    <2>5. QED
      BY <2>3, <2>4
  <1>10. TablesOnce'
    <2>1. rep.n <= rep.n
      BY <1>1 DEF Numbers
    <2>2. Above(rep.n)'
      BY <1>1, <1>8, <2>1
    <2>3. QED
      BY <1>1, <1>5, <1>9, <2>2 DEF TablesOnce
  <1>11. QED
    BY <1>2, <1>3, <1>6, <1>7, <1>10

LEMMA NoneReplacedFinish ==
    ASSUME RepairInv, NoneReplaced, NEW fails \in BOOLEAN, FinishCopy(fails)
    PROVE  NoneReplaced'
  <1>1. /\ rep.at = "finish" /\ Copying /\ Running /\ FaultCounted(fails)
        /\ UNCHANGED <<logs, lost, listed>>
        /\ rep.copy \in Numbers /\ tables[rep.copy].there
    BY DEF FinishCopy, RepairInv, CopyApart, Copying, Running
  <1>2. /\ before'.replaced = before.replaced
        /\ before'.faults = 0 => before.faults = 0 /\ ~fails
    BY <1>1, CountedStep
  <1> SUFFICES ASSUME before.faults = 0, ~fails
               PROVE  TablesOnce' /\ UnderRepair' /\ LogsOnce'
    BY <1>2 DEF NoneReplaced
  <1>3. TablesOnce /\ UnderRepair /\ LogsOnce
    BY DEF NoneReplaced
  <1>4. /\ rep'.at = "rename" /\ rep'.copy = rep.copy /\ rep'.n = rep.n
        /\ rep'.next = rep.next /\ rep'.logs = rep.logs
        /\ tables'[rep.copy] = Table(rep.data, TRUE)
        /\ \A m \in Numbers \ {rep.copy} : tables'[m] = tables[m]
    BY <1>1 DEF FinishCopy, RepairInv, RepairTypeOK
  <1>5. tables'[rep.copy].there /\ tables'[rep.copy].whole
    BY <1>4 DEF Table
  <1>6. \A m \in Numbers : tables'[m].there <=> tables[m].there
    BY <1>1, <1>4, <1>5
  <1>7. UnderRepair' /\ LogsOnce'
    BY <1>1, <1>3, <1>4, <1>5 DEF UnderRepair, LogsOnce, Copying
  <1>8. ASSUME NEW n \in Numbers, Above(n) PROVE Above(n)'
    BY <1>1, <1>4, <1>6, <1>8 DEF Above, Copying
  <1>9. ASSUME NEW n \in Numbers, tables[n].there => tables[n].whole
        PROVE  tables'[n].there => tables'[n].whole
    BY <1>4, <1>5, <1>9
  <1>10. TablesOnce'
    BY <1>1, <1>3, <1>4, <1>8, <1>9 DEF TablesOnce, Running
  <1>11. QED
    BY <1>7, <1>10

LEMMA NoneReplacedRename ==
    ASSUME RepairInv, NoneReplaced, NEW fails \in BOOLEAN, RenameCopy(fails)
    PROVE  NoneReplaced'
  <1>1. /\ rep.at = "rename" /\ Copying /\ Running /\ FaultCounted(fails)
        /\ UNCHANGED <<logs, lost, listed>>
        /\ rep.n \in Numbers /\ rep.copy \in Numbers \ {rep.n} /\ rep.n < rep.copy
        /\ tables[rep.copy].there
    BY DEF RenameCopy, RepairInv, CopyApart, Copying, Running
  <1>2. /\ before'.replaced = before.replaced
        /\ before'.faults = 0 => before.faults = 0 /\ ~fails
    BY <1>1, CountedStep
  <1> SUFFICES ASSUME before.faults = 0, ~fails
               PROVE  TablesOnce' /\ UnderRepair' /\ LogsOnce'
    BY <1>2 DEF NoneReplaced
  <1>3. TablesOnce /\ UnderRepair /\ LogsOnce
    BY DEF NoneReplaced
  <1>4. /\ rep'.at = "convert" /\ rep'.next = rep.next /\ rep'.logs = rep.logs
        /\ tables'[rep.n] = tables[rep.copy] /\ ~tables'[rep.copy].there
        /\ \A m \in Numbers \ {rep.n, rep.copy} : tables'[m] = tables[m]
    BY <1>1 DEF RenameCopy, RepairInv, RepairTypeOK, Absent
  <1>5. UnderRepair' /\ LogsOnce'
    BY <1>1, <1>3, <1>4 DEF UnderRepair, LogsOnce, Copying
  <1>6. tables[rep.copy].whole /\ lost.table[rep.copy] = {}
    BY <1>1, <1>3 DEF UnderRepair
  <1>7. ASSUME NEW n \in Numbers, lost.table[n] # {}
        PROVE  (tables'[n].there => tables'[n].whole) /\ n < rep.next /\ Above(n)'
    <2>1. (tables[n].there => tables[n].whole) /\ n < rep.next /\ Above(n) /\ n # rep.copy
      BY <1>1, <1>3, <1>6, <1>7 DEF TablesOnce
    <2>2. CASE n = rep.n
      BY <1>1, <1>4, <1>6, <2>1, <2>2 DEF Above
    <2>3. CASE n # rep.n /\ tables[n].there
      BY <1>4, <2>1, <2>3 DEF Above
    <2>4. CASE n # rep.n /\ ~tables[n].there
      <3>1. PICK m \in Numbers : m > n /\ tables[m].there /\ (m = rep.copy => n <= rep.n)
        BY <1>1, <2>1, <2>4 DEF Above
      <3>2. CASE m # rep.copy
        <4>1. tables'[m].there
          BY <1>1, <1>4, <3>1, <3>2
        <4>2. QED
          BY <1>4, <2>1, <2>4, <3>1, <4>1 DEF Above, Copying
      <3>3. CASE m = rep.copy
        <4>1. rep.n > n /\ tables'[rep.n].there
          BY <1>1, <1>4, <2>4, <3>1, <3>3 DEF Numbers
        <4>2. QED
          BY <1>1, <1>4, <2>1, <2>4, <4>1 DEF Above, Copying
      <3>4. QED
        BY <3>2, <3>3
    <2>5. QED
      BY <2>2, <2>3, <2>4
  <1>8. TablesOnce'
    BY <1>1, <1>4, <1>7 DEF TablesOnce
  <1>9. QED
    BY <1>5, <1>8

LEMMA NoneReplacedDescriptor ==
    ASSUME RepairInv, NoneReplaced, NEW fails \in BOOLEAN, WriteDescriptor(fails)
    PROVE  NoneReplaced'
  <1>1. /\ rep.at = "convert" /\ rep.logs = {} /\ FaultCounted(fails)
        /\ UNCHANGED <<tables, logs, lost>>
    BY DEF WriteDescriptor
  <1>2. /\ before'.replaced = before.replaced
        /\ before'.faults = 0 => before.faults = 0 /\ ~fails
    BY <1>1, CountedStep
  <1> SUFFICES ASSUME before.faults = 0, ~fails
               PROVE  TablesOnce' /\ UnderRepair' /\ LogsOnce'
    BY <1>2 DEF NoneReplaced
  <1>3. TablesOnce /\ LogsOnce
    BY DEF NoneReplaced
  <1>4. rep'.at = "done" /\ rep'.logs = {}
    BY <1>1 DEF WriteDescriptor, RepairInv, RepairTypeOK
  <1>5. Running /\ ~Running' /\ ~Copying'
    BY <1>1, <1>4 DEF Running, Copying
  <1>6. TablesOnce'
    BY <1>1, <1>3, <1>5, OnceStays
  <1>7. QED
    BY <1>1, <1>3, <1>4, <1>5, <1>6 DEF UnderRepair, LogsOnce

LEMMA NoneReplacedCrash ==
    ASSUME RepairInv, NoneReplaced, NEW partial \in BOOLEAN, Crash(partial)
    PROVE  NoneReplaced'
  <1>1. /\ rep' = Off /\ Running /\ UNCHANGED <<logs, lost>>
        /\ before'.replaced = before.replaced /\ before'.faults = before.faults
        /\ \A m \in Numbers : tables'[m] = tables[m] \/ m = rep.next
    BY DEF Crash, Running, RepairInv, RepairTypeOK, BeforeType
  <1> SUFFICES ASSUME before.faults = 0
               PROVE  TablesOnce' /\ UnderRepair' /\ LogsOnce'
    BY <1>1 DEF NoneReplaced
  <1>2. TablesOnce /\ LogsOnce
    BY DEF NoneReplaced
  <1>3. ~Running' /\ ~Copying' /\ rep'.at = "off" /\ rep'.logs = {}
    BY <1>1 DEF Running, Copying, Off
  <1>4. TablesOnce'
    BY <1>1, <1>2, <1>3, OnceStays
  <1>5. QED
    BY <1>1, <1>2, <1>3, <1>4 DEF UnderRepair, LogsOnce

LEMMA NoneReplacedNext ==
    ASSUME RepairAssumption, RepairInv, NoneReplaced, [RepairNext]_repairVars
    PROVE  NoneReplaced'
  <1>1. CASE UNCHANGED repairVars
    BY <1>1 DEF repairVars, NoneReplaced, TablesOnce, UnderRepair, LogsOnce, Above, Copying, Running
  <1>2. CASE FindFiles
    BY <1>2, NoneReplacedFindFiles
  <1>3. ASSUME NEW n \in Numbers, ScanTable(n) PROVE NoneReplaced'
    BY <1>3, NoneReplacedScan
  <1>4. ASSUME NEW n \in Numbers, NEW f \in BOOLEAN, ConvertLog(n, f) PROVE NoneReplaced'
    BY <1>4, NoneReplacedConvert
  <1>5. ASSUME NEW f \in BOOLEAN,
               ArchiveLog(f) \/ StartCopy(f) \/ ArchiveTable(f) \/ FinishCopy(f)
        PROVE NoneReplaced'
    BY <1>5, NoneReplacedArchiveLog, NoneReplacedStartCopy, NoneReplacedArchiveTable,
       NoneReplacedFinish
  <1>6. ASSUME NEW f \in BOOLEAN, RenameCopy(f) \/ WriteDescriptor(f) \/ Crash(f)
        PROVE NoneReplaced'
    BY <1>6, NoneReplacedRename, NoneReplacedDescriptor, NoneReplacedCrash
  <1>7. QED
    BY <1>1, <1>2, <1>3, <1>4, <1>5, <1>6 DEF RepairNext

LEMMA RepairNextInv ==
    ASSUME RepairAssumption, RepairInv, [RepairNext]_repairVars
    PROVE  RepairInv'
  <1>1. CASE UNCHANGED repairVars
    BY <1>1 DEF repairVars, RepairInv, RepairTypeOK, Allocated, Running, CopyApart, Copying,
                Accounted, Untroubled, Scanned, Converted, Unconverted, AtHand, Kept, InLost, InTables,
                InLogs, There, InOriginal
  <1>2. CASE FindFiles
    BY <1>2, FindFilesStep
  <1>3. ASSUME NEW n \in Numbers, ScanTable(n) PROVE RepairInv'
    BY <1>3, ScanTableStep
  <1>4. ASSUME NEW n \in Numbers, NEW f \in BOOLEAN, ConvertLog(n, f) PROVE RepairInv'
    BY <1>4, ConvertLogStep
  <1>5. ASSUME NEW f \in BOOLEAN,
               ArchiveLog(f) \/ StartCopy(f) \/ ArchiveTable(f) \/ FinishCopy(f)
        PROVE RepairInv'
    BY <1>5, ArchiveLogStep, StartCopyStep, ArchiveTableStep, FinishCopyStep
  <1>6. ASSUME NEW f \in BOOLEAN, RenameCopy(f) \/ WriteDescriptor(f) \/ Crash(f)
        PROVE RepairInv'
    BY <1>6, RenameCopyStep, WriteDescriptorStep, RepairCrashStep
  <1>7. QED
    BY <1>1, <1>2, <1>3, <1>4, <1>5, <1>6 DEF RepairNext

(* Whatever logs and tables, whole or damaged, a database was left with, and    *)
(* however often its repair fails, crashes and is run again: every entry that   *)
(* could be read is in a file or in lost/, but for those of tables in lost/ that *)
(* others were moved onto, of which there are none unless a file operation      *)
(* failed; and a repair without trouble lists them all.                         *)
THEOREM RepairAlwaysKeeps ==
    ASSUME RepairAssumption PROVE RepairSpec => []RepairKeeps
  <1>1. RepairInit => RepairInv /\ NoneReplaced
    BY RepairInitInv, NoneReplacedInit
  <1>2. (RepairInv /\ NoneReplaced) /\ [RepairNext]_repairVars => (RepairInv /\ NoneReplaced)'
    BY RepairNextInv, NoneReplacedNext
  <1>3. RepairInv /\ NoneReplaced => RepairKeeps
    <2> SUFFICES ASSUME RepairInv, rep.at = "done", Untroubled
                 PROVE  before.readable \subseteq UNION {tables[n].data : n \in listed}
      BY DEF RepairInv, Kept, RepairKeeps, Untroubled, NoneReplaced
    <2>1. AtHand = {} /\ Unconverted = {} /\ Scanned = UNION {tables[n].data : n \in listed}
      BY DEF RepairInv, Accounted, AtHand, Unconverted, Scanned
    <2>2. QED
      BY <2>1 DEF RepairInv, Accounted
  <1>4. QED
    BY <1>1, <1>2, <1>3, PTL DEF RepairSpec
=============================================================================
