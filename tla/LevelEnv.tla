------------------------------ MODULE LevelEnv ------------------------------
(***************************************************************************)
(* Two more parts of the POSIX environment (util/env_posix.cc): the queue  *)
(* of Schedule and the one background thread that serves it, and the two   *)
(* limiters that bound how many table files are mapped and kept open.  A   *)
(* file that gets neither is opened again for every read.                  *)
(***************************************************************************)
EXTENDS Integers, Sequences, FiniteSets

CONSTANTS Files,          \* table files that may be open at once
          MmapLimit, FdLimit,
          MaxItems        \* bound: calls of Schedule

EnvAssumption == IsFiniteSet(Files) /\ MmapLimit \in Nat /\ FdLimit \in Nat

VARIABLES
    work,     \* queue_: what has been scheduled and not begun
    worker,       \* BGThread: "none", "ready", "waiting", "running"
    ran,      \* what has run, in order
    allowed,  \* [mmap, fd], the allowed_ of the two limiters
    opened    \* how each file is open: "closed", "opening", "mmap", "fd", "each"

envVars == <<work, worker, ran, allowed, opened>>

EnvInit ==
    /\ work = <<>> /\ worker = "none" /\ ran = <<>>
    /\ allowed = [mmap |-> MmapLimit, fd |-> FdLimit]
    /\ opened = [f \in Files |-> "closed"]

-----------------------------------------------------------------------------
(* Schedule and BGThread; each step is a stretch under mu_                    *)

Scheduled == Len(work) + Len(ran)

WokenWhenBusy == IF worker = "none" THEN "ready"       \* mutant: the test is inverted
                 ELSE IF work # <<>> /\ worker = "waiting" THEN "ready" ELSE worker
Woken ==      \* the thread is started once, and signalled when the queue is empty
    IF worker = "none" THEN "ready"
    ELSE IF work = <<>> /\ worker = "waiting" THEN "ready" ELSE worker
Schedule ==
    /\ Scheduled < MaxItems
    /\ worker' = Woken
    /\ work' = Append(work, Scheduled + 1)
    /\ UNCHANGED <<ran, allowed, opened>>

(* Also a spurious return of pthread_cond_wait: it goes back to waiting.      *)
WaitForItem ==
    /\ worker = "ready" /\ work = <<>>
    /\ worker' = "waiting" /\ UNCHANGED <<work, ran, allowed, opened>>
SpuriousWakeup ==
    /\ worker = "waiting" /\ worker' = "ready" /\ UNCHANGED <<work, ran, allowed, opened>>
BeginItem ==
    /\ worker = "ready" /\ work # <<>>
    /\ worker' = "running" /\ ran' = Append(ran, Head(work)) /\ work' = Tail(work)
    /\ UNCHANGED <<allowed, opened>>
ItemDone ==
    /\ worker = "running" /\ worker' = "ready" /\ UNCHANGED <<work, ran, allowed, opened>>
BGThread == WaitForItem \/ BeginItem \/ ItemDone

-----------------------------------------------------------------------------
(* NewRandomAccessFile and the destructors of the two kinds of file           *)

(* Limiter's Acquire and Release, under its mutex; Acquire fails at once when *)
(* nothing is left.                                                          *)
CanAcquire(limiter) == allowed[limiter] > 0
Acquire(limiter) == allowed' = [allowed EXCEPT ![limiter] = @ - 1]
Release(limiter) == allowed' = [allowed EXCEPT ![limiter] = @ + 1]

OpenRandomAccess(f) ==
    /\ opened[f] = "closed"
    /\ \/ CanAcquire("mmap") /\ Acquire("mmap") /\ opened' = [opened EXCEPT ![f] = "opening"]
       \/ /\ ~CanAcquire("mmap") /\ CanAcquire("fd") /\ Acquire("fd")
          /\ opened' = [opened EXCEPT ![f] = "fd"]
       \/ /\ ~CanAcquire("mmap") /\ ~CanAcquire("fd") /\ UNCHANGED allowed
          /\ opened' = [opened EXCEPT ![f] = "each"]
    /\ UNCHANGED <<work, worker, ran>>

MapLeaking(f) ==       \* mutant: a failed mmap keeps its place
    /\ opened[f] = "opening"
    /\ \/ opened' = [opened EXCEPT ![f] = "mmap"]
       \/ opened' = [opened EXCEPT ![f] = "closed"]
    /\ UNCHANGED <<work, worker, ran, allowed>>
Map(f) ==              \* GetFileSize and mmap, which may fail
    /\ opened[f] = "opening"
    /\ \/ opened' = [opened EXCEPT ![f] = "mmap"] /\ UNCHANGED allowed
       \/ opened' = [opened EXCEPT ![f] = "closed"] /\ Release("mmap")
    /\ UNCHANGED <<work, worker, ran>>

CloseFile(f) ==
    /\ opened[f] \in {"mmap", "fd", "each"}
    /\ opened' = [opened EXCEPT ![f] = "closed"]
    /\ IF opened[f] = "each" THEN UNCHANGED allowed ELSE Release(opened[f])
    /\ UNCHANGED <<work, worker, ran>>

EnvNext ==
    \/ Schedule \/ BGThread \/ SpuriousWakeup
    \/ \E f \in Files : OpenRandomAccess(f) \/ Map(f) \/ CloseFile(f)

EnvSpec == EnvInit /\ [][EnvNext]_envVars /\ WF_envVars(BGThread)

-----------------------------------------------------------------------------
(* Properties *)

OpenAs(kinds) == Cardinality({f \in Files : opened[f] \in kinds})

(* No place of a limiter is lost or given twice, whatever files failed to be  *)
(* mapped: the maps and descriptors held and those allowed make the limits.   *)
LimitsKept ==
    /\ allowed.mmap >= 0 /\ allowed.mmap + OpenAs({"opening", "mmap"}) = MmapLimit
    /\ allowed.fd >= 0 /\ allowed.fd + OpenAs({"fd"}) = FdLimit

(* Every call that is scheduled runs, in the order of scheduling: no signal    *)
(* is lost between the test of the queue and the wait.                         *)
ScheduledRuns ==
    \A n \in 1..MaxItems :
        (\E i \in DOMAIN work : work[i] = n) ~> (n \in DOMAIN ran /\ ran[n] = n)
=============================================================================
