----------------------------- MODULE FleetRetry -----------------------------
(***************************************************************************)
(* Two paces the master keeps: the interval between dispatches and the     *)
(* cooldown between retries of one profile (master_hub.rs, ops.rs).  Both  *)
(* are read under one lock and written under a later one, by calls that    *)
(* run side by side.  A caller makes one call after the other: an operator,*)
(* or submit_batch, which submits its items in turn.                       *)
(*                                                                         *)
(* Skill, account and digest of a retry are those of its profile, so a     *)
(* profile stands for the key of the cooldown.  Mutant* definitions are    *)
(* bugs the properties are there to find.                                  *)
(***************************************************************************)
EXTENDS Naturals, FiniteSets

CONSTANTS Callers, Profiles,
          Window,       \* DEFAULT_RETRY_COOLDOWN_SECS
          Interval,     \* the desired interval_ms, changed between 0 and this
          MaxTime, MaxCalls,   \* bounds
          Never

VARIABLES
  now,
  interval,   \* desired.interval_ms
  stamp,      \* HubState::last_dispatch, Never before the first
  cooled,     \* profile |-> last_retry_at in retry_cooldown.json, or Never
  job,        \* profile |-> its last job: "none", "active", "retryable", "final"
  op,       \* caller |-> step, profile, when it read the clock, when it wakes
  calls,      \* bound: calls made
  sentAt,     \* observation: caller |-> when it sent its last job
  tooSoon,    \* observation: a caller's job followed its last within the interval
  hasty,      \* observation: a retry was noted within the cooldown
  clash       \* observation: two retries were between their read and their note

pace == <<interval, stamp>>
seen == <<sentAt, tooSoon>>
vars == <<now, pace, cooled, job, op, calls, seen, hasty, clash>>

Times == 0..MaxTime
Idle  == [at |-> "idle", profile |-> Never, read |-> 0, wake |-> 0]

TypeOK ==
  /\ now \in Times /\ interval \in {0, Interval} /\ stamp \in Times \cup {Never}
  /\ cooled \in [Profiles -> Times \cup {Never}]
  /\ job \in [Profiles -> {"none", "active", "retryable", "final"}]
  /\ \A c \in Callers :
       /\ op[c].at \in {"idle", "note", "submit", "sleep", "record", "send", "stamp"}
       /\ op[c].profile \in Profiles \cup {Never}
       /\ op[c].read \in Times /\ op[c].wake \in 0..(MaxTime + Interval)
  /\ calls \in 0..MaxCalls /\ sentAt \in [Callers -> Times \cup {Never}]
  /\ {tooSoon, hasty, clash} \subseteq BOOLEAN

Init ==
  /\ now = 0 /\ interval \in {0, Interval} /\ stamp = Never
  /\ cooled = [p \in Profiles |-> Never] /\ job = [p \in Profiles |-> "none"]
  /\ op = [c \in Callers |-> Idle] /\ calls = 0
  /\ sentAt = [c \in Callers |-> Never] /\ tooSoon = FALSE
  /\ hasty = FALSE /\ clash = FALSE

Within(then, span) == then # Never /\ now < then + span
Go(c, l)   == op' = [op EXCEPT ![c].at = l]
Back(c)    == op' = [op EXCEPT ![c] = Idle]
Opens(c, l, p, t) ==
  /\ op[c].at = "idle" /\ calls < MaxCalls /\ calls' = calls + 1
  /\ op' = [op EXCEPT ![c] = [at |-> l, profile |-> p, read |-> t, wake |-> 0]]

\* retry_job up to the cooldown (master_hub.rs:848): a job without a retryable
\* result is refused, and so is one whose profile was retried just before.
MutantRetry(c, p) ==
  /\ job[p] = "retryable" /\ Opens(c, "note", p, now)
  /\ clash' = (clash \/ \E o \in Callers : op[o].at = "note")
  /\ UNCHANGED <<now, pace, cooled, job, seen, hasty>>
Retry(c, p) ==
  /\ job[p] = "retryable" /\ ~Within(cooled[p], Window) /\ Opens(c, "note", p, now)
  /\ clash' = (clash \/ \E o \in Callers : op[o].at = "note")
  /\ UNCHANGED <<now, pace, cooled, job, seen, hasty>>

\* note_retry (ops.rs:150), with the time read before, and before the submit
\* that may yet refuse.
NoteRetry(c) ==
  LET p == op[c].profile
      t == op[c].read
  IN /\ op[c].at = "note"
     /\ hasty' = (hasty \/ (cooled[p] # Never /\ t < cooled[p] + Window))
     /\ cooled' = [cooled EXCEPT ![p] = t]
     /\ op' = [op EXCEPT ![c] = [at |-> "submit", profile |-> p, read |-> 0, wake |-> 0]]
     /\ UNCHANGED <<now, pace, job, calls, seen, clash>>

\* submit_job, alone or as an item of submit_batch (master_hub.rs:901).
Submit(c, p) ==
  /\ Opens(c, "submit", p, 0)
  /\ UNCHANGED <<now, pace, cooled, job, seen, hasty, clash>>

\* A profile with an active job refuses, at the first check and at the second
\* (master_hub.rs:752, 777); a batch goes on with its next item.
Occupied(c) ==
  /\ op[c].at \in {"submit", "record"} /\ job[op[c].profile] = "active"
  /\ Back(c)
  /\ UNCHANGED <<now, pace, cooled, job, calls, seen, hasty, clash>>

\* wait_dispatch_interval (master_hub.rs:980) fixes when the call wakes.
MutantWakesAt == IF stamp = Never THEN now ELSE stamp
WakesAt == IF interval # 0 /\ Within(stamp, interval) THEN stamp + interval ELSE now
WaitInterval(c) ==
  /\ op[c].at = "submit" /\ job[op[c].profile] # "active"
  /\ op' = [op EXCEPT ![c].at = "sleep", ![c].wake = WakesAt]
  /\ UNCHANGED <<now, pace, cooled, job, calls, seen, hasty, clash>>

Wake(c) ==
  /\ op[c].at = "sleep" /\ now >= op[c].wake
  /\ op' = [op EXCEPT ![c].at = "record", ![c].wake = 0]
  /\ UNCHANGED <<now, pace, cooled, job, calls, seen, hasty, clash>>

\* The job is written as queued (master_hub.rs:777).
Record(c) ==
  /\ op[c].at = "record" /\ job[op[c].profile] # "active"
  /\ job' = [job EXCEPT ![op[c].profile] = "active"]
  /\ Go(c, "send")
  /\ UNCHANGED <<now, pace, cooled, calls, seen, hasty, clash>>

\* It is sent; or the client is gone, and the job stays queued.
Send(c) ==
  /\ op[c].at = "send"
  /\ \/ /\ sentAt' = [sentAt EXCEPT ![c] = now]
        /\ tooSoon' = (tooSoon \/ (interval # 0 /\ Within(sentAt[c], interval)))
        /\ Go(c, "stamp")
     \/ Back(c) /\ UNCHANGED seen
  /\ UNCHANGED <<now, pace, cooled, job, calls, hasty, clash>>

\* last_dispatch is written under a lock of its own (master_hub.rs:840).
Stamp(c) ==
  /\ op[c].at = "stamp" /\ stamp' = now /\ Back(c)
  /\ UNCHANGED <<now, interval, cooled, job, calls, seen, hasty, clash>>

\* The client reports the job's end, with a status that may be retried or not.
JobEnds(p) ==
  /\ job[p] = "active" /\ \E r \in {"retryable", "final"} : job' = [job EXCEPT ![p] = r]
  /\ UNCHANGED <<now, pace, cooled, op, calls, seen, hasty, clash>>

\* A desired configuration with another interval; only while no call waits by
\* the one before.
Reconfigure ==
  /\ \A c \in Callers : op[c] = Idle
  /\ interval' \in {0, Interval} \ {interval}
  /\ UNCHANGED <<now, stamp, cooled, job, op, calls, seen, hasty, clash>>

Tick ==
  /\ now < MaxTime /\ now' = now + 1
  /\ UNCHANGED <<pace, cooled, job, op, calls, seen, hasty, clash>>

Next ==
  \/ Tick \/ Reconfigure \/ \E p \in Profiles : JobEnds(p)
  \/ \E c \in Callers :
       \/ \E p \in Profiles : Retry(c, p) \/ Submit(c, p)
       \/ NoteRetry(c) \/ Occupied(c) \/ WaitInterval(c) \/ Wake(c)
       \/ Record(c) \/ Send(c) \/ Stamp(c)

Spec == Init /\ [][Next]_vars

-----------------------------------------------------------------------------
(* Properties *)

\* Whoever sends beside it, one caller's jobs (a batch) leave the desired
\* interval apart, although the interval is read long before it is stamped
\* (wait_dispatch_interval); and a profile is retried twice within the cooldown
\* only when two retries were between their check and their note at once.
Paced == ~tooSoon /\ (hasty => clash)

\* "retry cooldown {remain}s for profile '{}' skill '{}'" (master_hub.rs:873): a
\* retry within the cooldown of the last one is refused.  The code reads and
\* notes the time under separate locks, so of two at once neither is.
CooldownRefuses == ~hasty
=============================================================================
