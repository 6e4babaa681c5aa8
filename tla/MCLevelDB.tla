------------------------------ MODULE MCLevelDB ------------------------------
(***************************************************************************)
(* The parts of leveldb that other processes, other threads and crashes     *)
(* reach, each on small instances: the store three times (two writers and a  *)
(* crash; one writer with more writes and none; two writers that the number  *)
(* of tables stops), the environment and the lock on the directory.  A       *)
(* behavior is one of one part, the others stay where they begin.            *)
(***************************************************************************)
EXTENDS LevelStore, LevelEnv, LevelLock, TLC

VARIABLE part

\* One writer, more writes, all of them synced, no crash.
Steady == INSTANCE LevelStore
              WITH Writers <- {1}, Syncs <- {TRUE}, MaxOps <- MaxOps + 1, MaxCrashes <- 0

\* Two writers without a crash or a failure, a memtable of two items, and as
\* many tables stop the writers as call for a compaction.
Stopped == INSTANCE LevelStore
               WITH Syncs <- {TRUE}, MaxOps <- MaxOps + 2, MaxCrashes <- 0,
                    MaxFaults <- 0, StopTrigger <- CompactionTrigger, BufferLimit <- BufferLimit + 1

\* Four threads of two processes.
Of == (1 :> 1) @@ (2 :> 1) @@ (3 :> 2) @@ (4 :> 2)

ASSUME StoreAssumption /\ EnvAssumption /\ LockAssumption

dbVars == <<vars, envVars, lockVars, part>>

DBInit ==
    /\ part \in {"store", "steady", "stopped", "env", "lock"}
    /\ IF part = "steady" THEN Steady!Init ELSE Init
    /\ EnvInit /\ LockInit

Store(A) == part = "store" /\ A /\ UNCHANGED <<envVars, lockVars, part>>
Deeper(A) == part = "steady" /\ A /\ UNCHANGED <<envVars, lockVars, part>>
Slower(A) == part = "stopped" /\ A /\ UNCHANGED <<envVars, lockVars, part>>
EnvStep(A) == part = "env" /\ A /\ UNCHANGED <<vars, lockVars, part>>

StoreNext == Store(Next)
SteadyNext == Deeper(Steady!Next)
StoppedNext == Slower(Stopped!Next)
EnvironmentNext == EnvStep(EnvNext)
DirectoryNext == part = "lock" /\ LockNext /\ UNCHANGED <<vars, envVars, part>>
DBNext == StoreNext \/ SteadyNext \/ StoppedNext \/ EnvironmentNext \/ DirectoryNext

\* The fairness of LevelStore and of LevelEnv.
DBSpec ==
    /\ DBInit /\ [][DBNext]_dbVars
    /\ WF_dbVars(Store(OpenStep)) /\ WF_dbVars(Deeper(Steady!OpenStep))
    /\ WF_dbVars(Store(BackgroundStep)) /\ WF_dbVars(Deeper(Steady!BackgroundStep))
    /\ WF_dbVars(Store(CloseDone))
    /\ WF_dbVars(Slower(Stopped!OpenStep)) /\ WF_dbVars(Slower(Stopped!BackgroundStep))
    /\ WF_dbVars(Deeper(Steady!WriteStep(1)))
    /\ \A w \in Writers : WF_dbVars(Store(WriteStep(w))) /\ WF_dbVars(Slower(Stopped!WriteStep(w)))
    /\ WF_dbVars(EnvStep(BGThread))
==============================================================================
