-------------------------- MODULE ProfileLockProofs --------------------------
(***************************************************************************)
(* What the lock of ProfileLock gives for every number of jobs and         *)
(* processes: exclusion until the first reclaim, and that an established   *)
(* lock is never taken from a live holder.                                 *)
(***************************************************************************)
EXTENDS ProfileLock, TLAPS

USE DEF Owning, Waiting, Ended

\* The types, for every step of every task and process (locks.rs:11-57).
THEOREM Typing == Spec => []TypeOK
<1>1. Init => TypeOK
  BY DEF Init, TypeOK
<1>2. TypeOK /\ [Next]_vars => TypeOK'
  <2> SUFFICES ASSUME TypeOK, [Next]_vars PROVE TypeOK'
    OBVIOUS
  <2> USE ProcOfAssumption DEF TypeOK, Goto
  <2>1. ASSUME NEW t \in Tasks, Acquire(t) PROVE TypeOK'
    BY <2>1 DEF Acquire
  <2>2. ASSUME NEW t \in Tasks, Release(t) PROVE TypeOK'
    BY <2>2 DEF Release
  <2>3. ASSUME NEW t \in Tasks, CreateDir(t) PROVE TypeOK'
    BY <2>3 DEF CreateDir
  <2>4. ASSUME NEW t \in Tasks, WritePid(t) PROVE TypeOK'
    BY <2>4 DEF WritePid
  <2>5. ASSUME NEW t \in Tasks, FoundStale(t) PROVE TypeOK'
    BY <2>5 DEF FoundStale
  <2>6. ASSUME NEW t \in Tasks, FoundLive(t) PROVE TypeOK'
    BY <2>6 DEF FoundLive
  <2>7. ASSUME NEW t \in Tasks, Wake(t) PROVE TypeOK'
    BY <2>7 DEF Wake
  <2>8. ASSUME NEW t \in Tasks, RemoveStale(t) \/ Drop(t) PROVE TypeOK'
    BY <2>8 DEF RemoveStale, Drop, Unlink, Rmdir
  <2>9. ASSUME NEW p \in Procs, Crash(p) PROVE TypeOK'
    BY <2>9 DEF Crash
  <2>10. CASE UNCHANGED vars
    BY <2>10 DEF vars
  <2> QED
    BY <2>1, <2>2, <2>3, <2>4, <2>5, <2>6, <2>7, <2>8, <2>9, <2>10 DEF Next, TaskStep
<1> QED
  BY <1>1, <1>2, PTL DEF Spec

\* The strengthening that makes exclusion inductive: before the first reclaim
\* nobody removes a directory it does not own, and every owner's directory
\* exists, so that a second mkdir fails.
LockInv ==
  ~reclaimed =>
    /\ \A t \in Tasks : pc[t] \notin {"unlink", "rmdir"}
    /\ \A t \in Tasks : pc[t] \in Owning => dir
    /\ \A t, u \in Tasks : pc[t] \in Owning /\ pc[u] \in Owning => t = u

\* Two tasks never own the profile before somebody has found its lock stale.
THEOREM ExclusionUntilReclaim == Spec => []ExclusiveUntilReclaim
<1>1. Init => LockInv
  BY DEF Init, LockInv
<1>2. TypeOK /\ LockInv /\ [Next]_vars => LockInv'
  <2> SUFFICES ASSUME TypeOK, LockInv, [Next]_vars PROVE LockInv'
    OBVIOUS
  <2> USE DEF TypeOK, LockInv, Goto
  <2>1. ASSUME NEW t \in Tasks, Acquire(t) PROVE LockInv'
    BY <2>1 DEF Acquire
  <2>2. ASSUME NEW t \in Tasks, Release(t) PROVE LockInv'
    BY <2>2 DEF Release
  <2>3. ASSUME NEW t \in Tasks, CreateDir(t) PROVE LockInv'
    BY <2>3 DEF CreateDir
  <2>4. ASSUME NEW t \in Tasks, WritePid(t) PROVE LockInv'
    BY <2>4 DEF WritePid
  <2>5. ASSUME NEW t \in Tasks, FoundStale(t) PROVE LockInv'
    BY <2>5 DEF FoundStale
  <2>6. ASSUME NEW t \in Tasks, FoundLive(t) PROVE LockInv'
    BY <2>6 DEF FoundLive
  <2>7. ASSUME NEW t \in Tasks, Wake(t) PROVE LockInv'
    BY <2>7 DEF Wake
  <2>8. ASSUME NEW t \in Tasks, RemoveStale(t) \/ Drop(t) PROVE LockInv'
    BY <2>8 DEF RemoveStale, Drop, Unlink, Rmdir
  <2>9. ASSUME NEW p \in Procs, Crash(p) PROVE LockInv'
    BY <2>9 DEF Crash
  <2>10. CASE UNCHANGED vars
    BY <2>10 DEF vars
  <2> QED
    BY <2>1, <2>2, <2>3, <2>4, <2>5, <2>6, <2>7, <2>8, <2>9, <2>10 DEF Next, TaskStep
<1>3. LockInv => ExclusiveUntilReclaim
  BY DEF LockInv, ExclusiveUntilReclaim
<1> QED
  BY <1>1, <1>2, <1>3, Typing, PTL DEF Spec

\* A task that is still inside an acquisition belongs to a live process.
LiveInv == \A t \in Tasks : pc[t] \in Owning \cup Waiting => alive[ProcOf[t]]

\* That stays so: the death of a process ends its tasks.
LEMMA LiveTasks == Spec => []LiveInv
<1>1. Init => LiveInv
  BY DEF Init, LiveInv
<1>2. TypeOK /\ LiveInv /\ [Next]_vars => LiveInv'
  BY ProcOfAssumption, SMTT(30)
  DEF TypeOK, LiveInv, Goto, Next, TaskStep, vars, Acquire, Release, CreateDir, WritePid,
      FoundStale, FoundLive, Wake, RemoveStale, Drop, Unlink, Rmdir, Crash
<1> QED
  BY <1>1, <1>2, Typing, PTL DEF Spec

\* Contenders that arrive after the pid is on disk find a live owner and wait:
\* no step of theirs ends the holder's lock.
THEOREM EstablishedLockIsKept == Spec => EstablishedIsKept
<1> DEFINE Kept == \A t \in Tasks : Established(t) => Established(t)' \/ pc'[t] # "holds"
<1>1. TypeOK /\ LiveInv /\ [Next]_vars => [Kept]_vars
  <2> SUFFICES ASSUME TypeOK, LiveInv, Next,
                      NEW t \in Tasks, Established(t), pc'[t] = "holds"
               PROVE  Established(t)'
    BY DEF Established
  <2> USE ProcOfAssumption DEF TypeOK, LiveInv, Established, Goto
  <2>0. alive[ProcOf[t]] /\ ~IsStale
    BY DEF IsStale
  <2>1. ASSUME NEW u \in Tasks, Acquire(u) PROVE Established(t)'
    BY <2>1 DEF Acquire
  <2>2. ASSUME NEW u \in Tasks, Release(u) PROVE Established(t)'
    BY <2>2 DEF Release
  <2>3. ASSUME NEW u \in Tasks, TaskStep(u) PROVE Established(t)'
    BY <2>0, <2>3 DEF TaskStep, CreateDir, WritePid, FoundStale, FoundLive, Wake,
                      RemoveStale, Drop, Unlink, Rmdir
  <2>4. ASSUME NEW p \in Procs, Crash(p) PROVE Established(t)'
    BY <2>4 DEF Crash
  <2> QED
    BY <2>1, <2>2, <2>3, <2>4 DEF Next
<1> QED
  BY <1>1, Typing, LiveTasks, PTL DEF Spec, EstablishedIsKept
=============================================================================
