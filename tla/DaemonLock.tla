----------------------------- MODULE DaemonLock -----------------------------
(***************************************************************************)
(* The single-instance lock of the daemon (src/daemon/process-manager.ts): *)
(* daemon.lock is created exclusively, daemon.pid is written after it, and *)
(* a starter that finds the lock reads the pid file to tell a running      *)
(* daemon from a stale lock.  Every file operation is a step of its own,   *)
(* a process may die between any two of them, and release removes the two  *)
(* files in two steps.  A removal that fails is swallowed, in the starter  *)
(* and in release: the file stays and the process goes on.                 *)
(***************************************************************************)
EXTENDS Naturals, FiniteSets

CONSTANTS
  Procs,         \* daemon processes, each started once
  SerialStarts,  \* TRUE: starts and stops of daemons do not overlap
  NoPid

ASSUME LockAssumption ==
  /\ NoPid \notin Procs
  /\ SerialStarts \in BOOLEAN

VARIABLES
  lockFile,  \* daemon.lock is absent or present
  pidFile,   \* the process daemon.pid names, or NoPid
  at         \* where each process is in acquireDaemonInstance or release

lockVars == <<lockFile, pidFile, at>>

Entering == {"open", "writePid", "readPid", "unlinkLock", "unlinkPid"}
Leaving == {"releaseLock", "releasePid"}
Gone == {"off", "refused", "stopped", "dead"}

(* process.kill(pid, 0) finds the process. *)
Running(p) == at[p] \notin Gone

Goto(p, label) == at' = [at EXCEPT ![p] = label]

InitLock ==
  /\ lockFile = "absent"
  /\ pidFile = NoPid
  /\ at = [p \in Procs |-> "off"]
-----------------------------------------------------------------------------
MayEnterOrLeave ==
  SerialStarts => \A q \in Procs : at[q] \notin Entering \union Leaving

Start(p) ==
  /\ at[p] = "off"
  /\ MayEnterOrLeave
  /\ Goto(p, "open")
  /\ UNCHANGED <<lockFile, pidFile>>

OpenExclusive_shared(p) ==
  /\ at[p] = "open"
  /\ lockFile' = "present"
  /\ Goto(p, "writePid")
  /\ UNCHANGED pidFile

OpenExclusive(p) ==
  /\ at[p] = "open"
  /\ lockFile' = "present"
  /\ Goto(p, IF lockFile = "present" THEN "readPid" ELSE "writePid")
  /\ UNCHANGED pidFile

(* A write that throws ends the start and leaves the lock behind.          *)
WritePid(p) ==
  /\ at[p] = "writePid"
  /\ \/ pidFile' = p /\ Goto(p, "held")
     \/ pidFile' = pidFile /\ Goto(p, "refused")
  /\ UNCHANGED lockFile

(* A pid file that is missing, or names a process that is gone, makes the  *)
(* lock stale.                                                             *)
Stale == pidFile \in Procs => ~Running(pidFile)

ReadPid_awaitsPid(p) ==
  /\ at[p] = "readPid"
  /\ Goto(p, IF pidFile = NoPid THEN "open"
             ELSE IF Stale THEN "unlinkLock" ELSE "refused")
  /\ UNCHANGED <<lockFile, pidFile>>

ReadPid(p) ==
  /\ at[p] = "readPid"
  /\ Goto(p, IF Stale THEN "unlinkLock" ELSE "refused")
  /\ UNCHANGED <<lockFile, pidFile>>

(* The stale files are unlinked, or are not: both ways the starter tries   *)
(* again, as often as it takes.                                            *)
UnlinkLock(p) ==
  /\ at[p] = "unlinkLock"
  /\ lockFile' \in {lockFile, "absent"}
  /\ Goto(p, "unlinkPid")
  /\ UNCHANGED pidFile

UnlinkPid(p) ==
  /\ at[p] = "unlinkPid"
  /\ pidFile' \in {pidFile, NoPid}
  /\ Goto(p, "open")
  /\ UNCHANGED lockFile
-----------------------------------------------------------------------------
(* shutdown, on SIGINT or SIGTERM: release, then process.exit. *)
Shutdown(p) ==
  /\ at[p] = "held"
  /\ MayEnterOrLeave
  /\ Goto(p, "releaseLock")
  /\ UNCHANGED <<lockFile, pidFile>>

ReleaseLock(p) ==
  /\ at[p] = "releaseLock"
  /\ lockFile' \in {lockFile, "absent"}
  /\ Goto(p, "releasePid")
  /\ UNCHANGED pidFile

ReleasePid(p) ==
  /\ at[p] = "releasePid"
  /\ pidFile' \in {pidFile, NoPid}
  /\ Goto(p, "stopped")
  /\ UNCHANGED lockFile

Die(p) ==
  /\ Running(p)
  /\ Goto(p, "dead")
  /\ UNCHANGED <<lockFile, pidFile>>

Acquire(p) ==
  OpenExclusive(p) \/ WritePid(p) \/ ReadPid(p) \/ UnlinkLock(p) \/ UnlinkPid(p)

Release(p) == ReleaseLock(p) \/ ReleasePid(p)

NextLock == \E p \in Procs :
  Start(p) \/ Acquire(p) \/ Shutdown(p) \/ Release(p) \/ Die(p)

LockSpec == InitLock /\ [][NextLock]_lockVars

(* A process that is running takes its next file operation.  The code does *)
(* not bound its retries, so that a start ends rests on the file system:   *)
(* a lock that a starter tries to remove again and again is removed once.  *)
Removal(p) == UnlinkLock(p) /\ lockFile' = "absent"

FairLockSpec ==
  /\ LockSpec
  /\ \A p \in Procs : /\ WF_lockVars(Acquire(p))
                      /\ WF_lockVars(Release(p))
                      /\ SF_lockVars(Removal(p))
-----------------------------------------------------------------------------
(* The files and the program counters hold values of their kinds. *)
LockTypeOK ==
  /\ lockFile \in {"absent", "present"}
  /\ pidFile \in Procs \union {NoPid}
  /\ at \in [Procs -> Entering \union Leaving \union Gone \union {"held"}]

(* Two processes never run as the daemon together.  The lock gives this    *)
(* only when starts and stops do not overlap: the pid file is written      *)
(* after the lock, and a lock without a pid counts as stale.               *)
SingleInstance ==
  \A p, q \in Procs : at[p] = "held" /\ at[q] = "held" => p = q

(* The running daemon can always be found: both of its files are there and *)
(* the pid file names it, so that a second start is refused and `daemon    *)
(* stop` signals the right process.                                        *)
HolderOnRecord ==
  \A p \in Procs : at[p] = "held" => lockFile = "present" /\ pidFile = p

(* Every start ends, whatever a dead daemon or a failing release left: the *)
(* process becomes the daemon, is refused, or dies.  This takes a file     *)
(* system that does not refuse the removal of the stale lock for ever; if  *)
(* it does, the starter retries for ever.                                  *)
StartsEnd ==
  \A p \in Procs : at[p] = "open" ~> at[p] \in {"held", "refused", "dead"}
=============================================================================
