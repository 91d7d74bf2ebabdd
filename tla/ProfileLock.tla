----------------------------- MODULE ProfileLock -----------------------------
(***************************************************************************)
(* The per-profile lock of src/src/locks.rs: a directory created with      *)
(* mkdir, in which the owner then writes a file that holds its pid.  The   *)
(* jobs of one master or client daemon are tasks of one process; the TUI,  *)
(* the CLI and other daemons on the same host are further processes.  A    *)
(* task asks for the lock of one profile once, runs, and drops it.         *)
(*                                                                         *)
(* One file-system call is one step, so that tasks interleave between      *)
(* mkdir and the write of the pid, between the verdict "stale" and the     *)
(* removal, and inside remove_dir_all.  Opening and filling the pid file   *)
(* are one step: an empty file and no file give is_stale the same answer.  *)
(*                                                                         *)
(* A definition whose name starts with Mutant is no part of the model: it  *)
(* is a bug that the definition after it could have had, for which some    *)
(* property below must fail.                                               *)
(***************************************************************************)
EXTENDS Naturals, FiniteSets

CONSTANTS Tasks,        \* calls of ProfileLock::acquire for one profile
          Procs,        \* process incarnations, each with a pid of its own
          ProcOf,       \* the process a task runs in
          NoPid         \* the pid file does not exist

ASSUME ProcOfAssumption == ProcOf \in [Tasks -> Procs] /\ NoPid \notin Procs

VARIABLES dir,          \* the lock directory exists
          pid,          \* content of its pid file
          alive,        \* /proc/<pid> exists
          pc,           \* where each task is
          reclaimed     \* observation: some task has found the lock stale

vars == <<dir, pid, alive, pc, reclaimed>>

\* try_acquire has returned Ok or is about to, and drop has not removed the directory
Owning  == {"mkdir_done", "holds", "drop_unlink", "drop_rmdir"}
Waiting == {"try", "check", "unlink", "rmdir", "sleep"}
Ended   == {"idle", "released", "timed_out", "dead"}

TypeOK ==
  /\ dir \in BOOLEAN
  /\ pid \in Procs \cup {NoPid}
  /\ alive \in [Procs -> BOOLEAN]
  /\ pc \in [Tasks -> Owning \cup Waiting \cup Ended]
  /\ reclaimed \in BOOLEAN

Init ==
  /\ dir = FALSE /\ pid = NoPid
  /\ alive = [p \in Procs |-> TRUE]
  /\ pc = [t \in Tasks |-> "idle"]
  /\ reclaimed = FALSE

Goto(t, l) == pc' = [pc EXCEPT ![t] = l]

Acquire(t) ==
  /\ pc[t] = "idle" /\ alive[ProcOf[t]]
  /\ Goto(t, "try")
  /\ UNCHANGED <<dir, pid, alive, reclaimed>>

\* create_dir_all instead of create_dir: succeeds on a directory that exists
MutantCreateDirAll(t) ==
  /\ pc[t] = "try"
  /\ dir' = TRUE
  /\ Goto(t, "mkdir_done")
  /\ UNCHANGED <<pid, alive, reclaimed>>

\* fs::create_dir: fails iff the directory exists
CreateDir(t) ==
  /\ pc[t] = "try"
  /\ dir' = TRUE
  /\ Goto(t, IF dir THEN "check" ELSE "mkdir_done")
  /\ UNCHANGED <<pid, alive, reclaimed>>

\* the id of the task, not of the process
MutantWriteTaskId(t) ==
  /\ pc[t] = "mkdir_done"
  /\ pid' = IF dir THEN t ELSE pid
  /\ Goto(t, "holds")
  /\ UNCHANGED <<dir, alive, reclaimed>>

\* let _ = fs::write(...): lost without a word when the directory is gone
WritePid(t) ==
  /\ pc[t] = "mkdir_done"
  /\ pid' = IF dir THEN ProcOf[t] ELSE pid
  /\ Goto(t, "holds")
  /\ UNCHANGED <<dir, alive, reclaimed>>

\* no /proc to look at; and a pid that is never looked up
MutantNoProc == TRUE
MutantTrustsPid == pid = NoPid

IsStale == IF pid = NoPid THEN TRUE ELSE ~alive[pid]

FoundStale(t) ==
  /\ pc[t] = "check" /\ IsStale
  /\ reclaimed' = TRUE
  /\ Goto(t, "unlink")
  /\ UNCHANGED <<dir, pid, alive>>

\* a live owner: sleep 100 ms, or give up when the deadline has passed
FoundLive(t) ==
  /\ pc[t] = "check" /\ ~IsStale
  /\ \/ Goto(t, "sleep")
     \/ Goto(t, "timed_out")
  /\ UNCHANGED <<dir, pid, alive, reclaimed>>

Wake(t) ==
  /\ pc[t] = "sleep"
  /\ Goto(t, "try")
  /\ UNCHANGED <<dir, pid, alive, reclaimed>>

\* fs::remove_dir_all is unlink(pid) and then rmdir; rmdir fails on a
\* directory into which somebody has written a pid meanwhile
Unlink(t, from, to) ==
  /\ pc[t] = from
  /\ pid' = NoPid
  /\ Goto(t, to)
  /\ UNCHANGED <<dir, alive, reclaimed>>

\* the directory cannot be removed, and the loop goes on without its deadline
MutantRmdirFails(t, from, to) ==
  /\ pc[t] = from
  /\ Goto(t, to)
  /\ UNCHANGED <<dir, pid, alive, reclaimed>>

Rmdir(t, from, to) ==
  /\ pc[t] = from
  /\ dir' = (dir /\ pid # NoPid)
  /\ Goto(t, to)
  /\ UNCHANGED <<pid, alive, reclaimed>>

RemoveStale(t) == Unlink(t, "unlink", "rmdir") \/ Rmdir(t, "rmdir", "try")

Release(t) ==
  /\ pc[t] = "holds"
  /\ Goto(t, "drop_unlink")
  /\ UNCHANGED <<dir, pid, alive, reclaimed>>

Drop(t) == Unlink(t, "drop_unlink", "drop_rmdir") \/ Rmdir(t, "drop_rmdir", "released")

\* the process dies with every task in it; the directory stays behind
Crash(p) ==
  /\ alive[p]
  /\ alive' = [alive EXCEPT ![p] = FALSE]
  /\ pc' = [t \in Tasks |-> IF ProcOf[t] = p /\ pc[t] \notin {"released", "timed_out"}
                              THEN "dead" ELSE pc[t]]
  /\ UNCHANGED <<dir, pid, reclaimed>>

TaskStep(t) ==
  \/ CreateDir(t) \/ WritePid(t) \/ FoundStale(t) \/ FoundLive(t)
  \/ Wake(t) \/ RemoveStale(t) \/ Drop(t)

Next ==
  \/ \E t \in Tasks : Acquire(t) \/ Release(t) \/ TaskStep(t)
  \/ \E p \in Procs : Crash(p)

Spec == Init /\ [][Next]_vars

\* The runtime polls every task that can move.  A deadline passes after finitely
\* many rounds of sleep, so a task cannot sleep forever; a job ends in time or
\* is killed by its timeout, so Release is fair too.  Nothing makes a process
\* crash or a new job arrive.
Deadline(t) == FoundLive(t) /\ pc'[t] = "timed_out"

FairSpec ==
  /\ Spec
  /\ \A t \in Tasks : WF_vars(TaskStep(t)) /\ WF_vars(Release(t)) /\ SF_vars(Deadline(t))

-----------------------------------------------------------------------------
Holders == {t \in Tasks : pc[t] = "holds"}

\* "concurrent jobs sharing a Chromium user_data_dir cannot corrupt each
\* other" (locks.rs:1-2) needs at most one task inside the lock.
MutualExclusion == Cardinality(Holders) <= 1

\* The directory gives exclusion until the first reclaim: as long as no task
\* has found the lock stale, two tasks never hold it together.
ExclusiveUntilReclaim ==
  ~reclaimed => \A t, u \in Tasks : pc[t] \in Owning /\ pc[u] \in Owning => t = u

\* Once a holder's pid is on disk and no other task is inside an acquisition or a
\* removal, nobody can take the lock from it: later contenders find a live pid
\* and wait.  The races of locks.rs are confined to the window before that.
Established(t) ==
  /\ pc[t] = "holds" /\ dir /\ pid = ProcOf[t]
  /\ \A u \in Tasks \ {t} : pc[u] \in {"try", "check", "sleep"} \cup Ended

EstablishedIsKept ==
  [][ \A t \in Tasks : Established(t) => Established(t)' \/ pc'[t] # "holds" ]_vars

\* Whoever asks for the lock gets an answer (the lock, or the timeout error),
\* also when its owner died without dropping it.
WaiterAnswered == \A t \in Tasks : pc[t] = "try" ~> pc[t] \notin Waiting

\* A directory that a dead process left behind does not block the profile:
\* while somebody waits for it, it is reclaimed.
DeadOwnerReclaimed ==
  \A p \in Procs, t \in Tasks :
    (dir /\ pid = p /\ ~alive[p] /\ pc[t] = "try") ~> (pid # p \/ pc[t] = "dead")
=============================================================================
