------------------------------ MODULE LevelLock ------------------------------
(***************************************************************************)
(* The lock on a database directory (LockFile and UnlockFile of            *)
(* util/env_posix.cc): a table of the files this process has locked and a  *)
(* record lock of the kernel, which belongs to the process and which the   *)
(* kernel drops as soon as the process closes any descriptor of the file.  *)
(* DB::Open takes it, and the destructor of DBImpl gives it back.           *)
(***************************************************************************)
CONSTANTS Processes, Lockers,    \* Lockers: the threads that open databases
          ProcessOf       \* a function: each thread's process

LockAssumption == ProcessOf \in [Lockers -> Processes]

VARIABLES
    locked,   \* the processes whose PosixLockTable has the file
    owner,    \* the processes that hold the kernel's lock: one, or none
    thread,   \* where each thread stands in LockFile or UnlockFile
    dropped   \* has a close taken the kernel's lock from another descriptor?

lockVars == <<locked, owner, thread, dropped>>

LockInit ==
    /\ locked = {} /\ owner = {} /\ dropped = FALSE
    /\ thread = [t \in Lockers |-> "out"]

P(t) == ProcessOf[t]
Goes(t, from, to) == thread[t] = from /\ thread' = [thread EXCEPT ![t] = to]

(* The kernel: closing any descriptor of the file drops the process's lock.   *)
CloseDescriptor(t) ==
    /\ owner' = owner \ {P(t)}
    /\ dropped' = (dropped \/ \E u \in Lockers \ {t} :
                        P(u) = P(t) /\ P(t) \in owner /\ thread[u] \in {"held", "unlocking"})

-----------------------------------------------------------------------------
(* LockFile                                                                  *)

OpenFile(t) == Goes(t, "out", "opened") /\ UNCHANGED <<locked, owner, dropped>>

InsertTwice(t) ==        \* mutant: the answer of insert() is not looked at
    /\ Goes(t, "opened", "listed")
    /\ locked' = locked \cup {P(t)} /\ UNCHANGED <<owner, dropped>>
InsertFile(t) ==
    /\ Goes(t, "opened", IF P(t) \in locked THEN "refused" ELSE "listed")
    /\ locked' = locked \cup {P(t)} /\ UNCHANGED <<owner, dropped>>

AlreadyHeld(t) ==        \* by this process
    /\ Goes(t, "refused", "out") /\ CloseDescriptor(t) /\ UNCHANGED locked

SetLock(t) ==            \* fcntl(F_SETLK)
    /\ owner \subseteq {P(t)}
    /\ Goes(t, "listed", "held")
    /\ owner' = {P(t)} /\ UNCHANGED <<locked, dropped>>
LockFails(t) ==          \* another process has it, or fcntl fails
    /\ Goes(t, "listed", "failed") /\ CloseDescriptor(t) /\ UNCHANGED locked
LockRemove(t) ==
    /\ Goes(t, "failed", "out")
    /\ locked' = locked \ {P(t)} /\ UNCHANGED <<owner, dropped>>

-----------------------------------------------------------------------------
(* UnlockFile, and the end of a process                                      *)

ClearLock(t) ==          \* fcntl(F_UNLCK)
    /\ Goes(t, "held", "unlocking")
    /\ owner' = owner \ {P(t)} /\ UNCHANGED <<locked, dropped>>
UnlockRemove(t) ==
    /\ Goes(t, "unlocking", "removed")
    /\ locked' = locked \ {P(t)} /\ UNCHANGED <<owner, dropped>>
UnlockClose(t) ==
    /\ Goes(t, "removed", "out") /\ CloseDescriptor(t) /\ UNCHANGED locked

Exit(p) ==
    /\ locked' = locked \ {p} /\ owner' = owner \ {p}
    /\ thread' = [t \in Lockers |-> IF P(t) = p THEN "out" ELSE thread[t]]
    /\ UNCHANGED dropped

LockNext ==
    \/ \E t \in Lockers :
          \/ OpenFile(t) \/ InsertFile(t) \/ AlreadyHeld(t)
          \/ SetLock(t) \/ LockFails(t) \/ LockRemove(t)
          \/ ClearLock(t) \/ UnlockRemove(t) \/ UnlockClose(t)
    \/ \E p \in Processes : Exit(p)

LockSpec == LockInit /\ [][LockNext]_lockVars

-----------------------------------------------------------------------------
(* Properties *)

Holding == {t \in Lockers : thread[t] = "held"}

(* Of the threads that think they have the database, no two are of one        *)
(* process, whatever attempts, refusals and exits there were; and no two are  *)
(* of different processes either, unless a close has dropped a lock.          *)
LockedOnce ==
    \A t, u \in Holding : t # u => P(t) # P(u) /\ dropped

(* env.h:112-113 on LockFile, "Used to prevent concurrent access to the same  *)
(* db by multiple processes".                                                 *)
OneProcessAtATime == \A t, u \in Holding : P(t) = P(u)
=============================================================================
