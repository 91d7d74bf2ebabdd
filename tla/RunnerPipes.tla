---------------------------- MODULE RunnerPipes ----------------------------
(***************************************************************************)
(* One child process of the client daemon and the pipes to it, in the two  *)
(* ways the daemon runs one: a package's Python file (run_python_runner,   *)
(* skill_pkg.rs) and the worker in its one-shot form (oneshot_killable,    *)
(* worker.rs).  A pipe holds Cap units; a write to a full one blocks, a    *)
(* read from an empty one blocks, and either ends with the other side.     *)
(*                                                                         *)
(* standard error is as standard output, and one of them stands for both.  *)
(* Definitions that start with Mutant are bugs, no part of the model.      *)
(***************************************************************************)
EXTENDS Naturals

CONSTANTS Cap,       \* what a pipe holds
          Inputs,    \* sizes of the payload
          Outputs    \* sizes of what the child prints

Kinds == {"runner", "oneshot"}
\* What a child may do: read then answer, print before it has read, or neither.
Scripts == {"reads", "prints", "hangs"}

VARIABLES
  kind, script, input, output,  \* chosen by the call
  parent,   \* where the caller is
  sent,     \* units of the payload written to stdin
  got,      \* units of stdin the child has read
  printed,  \* units the child has written to stdout
  taken,    \* units of stdout the caller has read
  child,    \* "none" yet, "runs", "exited" by itself, or "killed"
  cancel,   \* the cancel flag of the job
  late,     \* the run's timeout has passed
  result    \* what the caller returns: "none", "ok", "error", "cancelled", "timeout"

fixed == <<kind, script, input, output>>
vars  == <<fixed, parent, sent, got, printed, taken, child, cancel, late, result>>

TypeOK ==
  /\ kind \in Kinds /\ script \in Scripts
  /\ input \in Inputs \cup {0} /\ output \in Outputs \cup {0}
  /\ parent \in {"idle", "write", "wait", "read", "close", "answered"}
  /\ sent \in 0..input /\ got \in 0..sent /\ printed \in 0..output /\ taken \in 0..printed
  /\ sent - got <= Cap /\ printed - taken <= Cap
  /\ child \in {"none", "runs", "exited", "killed"} /\ cancel \in BOOLEAN /\ late \in BOOLEAN
  /\ result \in {"none", "ok", "error", "cancelled", "timeout"}

Init ==
  /\ kind = "runner" /\ script = "reads" /\ input = 0 /\ output = 0
  /\ parent = "idle" /\ sent = 0 /\ got = 0 /\ printed = 0 /\ taken = 0
  /\ child = "none" /\ cancel = FALSE /\ late = FALSE /\ result = "none"

\* The child is spawned with its three pipes (skill_pkg.rs:989, worker.rs:52).
Start(k, s, i, o) ==
  /\ parent = "idle" /\ parent' = "write" /\ child' = "runs"
  /\ kind' = k /\ script' = s /\ input' = i /\ output' = o
  /\ UNCHANGED <<sent, got, printed, taken, cancel, late, result>>

-----------------------------------------------------------------------------
(* The child *)
Child == child = "runs" /\ UNCHANGED <<fixed, parent, sent, taken, cancel, late, result>>

ChildReads ==
  /\ Child /\ got < sent
  /\ script = "reads" \/ (script = "prints" /\ printed = output)
  /\ got' = got + 1 /\ UNCHANGED <<printed, child>>

ChildPrints ==
  /\ Child /\ printed < output /\ printed - taken < Cap
  /\ script = "prints" \/ (script = "reads" /\ got = input)
  /\ printed' = printed + 1 /\ UNCHANGED <<got, child>>

\* A package's file ends when it has printed; the worker waits for the
\* shutdown request or the end of its input (__main__.py:239).
ChildExits ==
  /\ Child /\ printed = output /\ script # "hangs"
  /\ script = "reads" => got = input
  /\ kind = "runner" \/ parent = "close"
  /\ child' = "exited" /\ UNCHANGED <<got, printed>>

-----------------------------------------------------------------------------
(* The caller *)
Answer(r) == parent' = "answered" /\ result' = r

\* The payload is written before any timeout or cancel flag is looked at
\* (skill_pkg.rs:1028, worker.rs:107).
Write ==
  /\ parent = "write" /\ child = "runs" /\ sent < input /\ sent - got < Cap
  /\ sent' = sent + 1
  /\ UNCHANGED <<fixed, parent, got, printed, taken, child, cancel, late, result>>

Written ==
  /\ parent = "write" /\ sent = input
  /\ parent' = IF kind = "runner" THEN "wait" ELSE "read"
  /\ UNCHANGED <<fixed, sent, got, printed, taken, child, cancel, late, result>>

\* A write to a child that has ended fails: the runner's child is dropped and
\* with it killed, the worker is shut down.
WriteFails ==
  /\ parent = "write" /\ child # "runs" /\ sent < input
  /\ IF kind = "runner" THEN Answer("error")
                        ELSE parent' = "close" /\ result' = "error"
  /\ UNCHANGED <<fixed, sent, got, printed, taken, child, cancel, late>>

\* run_python_runner's loop (skill_pkg.rs:1036): the flag first, then the
\* child; its output is read only once it has exited.
RunnerCancelled ==
  /\ kind = "runner" /\ parent = "wait" /\ cancel /\ ~late
  /\ child' = IF child = "runs" THEN "killed" ELSE child
  /\ Answer("cancelled")
  /\ UNCHANGED <<fixed, sent, got, printed, taken, cancel, late>>

RunnerExited ==
  /\ kind = "runner" /\ parent = "wait" /\ child = "exited" /\ ~late
  /\ taken' = printed
  /\ \/ Answer("ok") \/ Answer("error")     \* its status, its last line
  /\ UNCHANGED <<fixed, sent, got, printed, child, cancel, late>>

\* The timeout kills the whole process group (skill_pkg.rs:1066, kill_tree).
MutantRunnerLate ==
  /\ kind = "runner" /\ parent = "wait" /\ late
  /\ Answer("timeout")
  /\ UNCHANGED <<fixed, sent, got, printed, taken, child, cancel, late>>
RunnerLate ==
  /\ kind = "runner" /\ parent = "wait" /\ late
  /\ child' = IF child = "runs" THEN "killed" ELSE child
  /\ Answer("timeout")
  /\ UNCHANGED <<fixed, sent, got, printed, taken, cancel, late>>

\* request_timeout's loop (worker.rs:112): lines are read as they come; the
\* answer is the last of them.
OneshotReads ==
  /\ kind = "oneshot" /\ parent = "read" /\ taken < printed
  /\ taken' = taken + 1
  /\ IF taken + 1 = output THEN parent' = "close" /\ result' = "ok"
                           ELSE UNCHANGED <<parent, result>>
  /\ UNCHANGED <<fixed, sent, got, printed, child, cancel, late>>

\* Its end of file, or the timeout; then the worker is shut down.
MutantOneshotFails ==
  /\ kind = "oneshot" /\ parent = "read" /\ child # "runs" /\ taken = printed
  /\ parent' = "close"
  /\ result' = IF cancel THEN "cancelled" ELSE "error"
  /\ UNCHANGED <<fixed, sent, got, printed, taken, child, cancel, late>>
OneshotFails ==
  /\ kind = "oneshot" /\ parent = "read"
  /\ (child # "runs" /\ taken = printed) \/ late
  /\ parent' = "close"
  /\ result' = IF cancel THEN "cancelled" ELSE "error"
  /\ UNCHANGED <<fixed, sent, got, printed, taken, child, cancel, late>>

\* The killer task beside the request (worker.rs:219).
Killer ==
  /\ kind = "oneshot" /\ parent \in {"write", "read"} /\ cancel /\ child = "runs"
  /\ child' = "killed"
  /\ UNCHANGED <<fixed, parent, sent, got, printed, taken, cancel, late, result>>

\* Worker::shutdown (worker.rs:153): the child has exited within its time, or
\* is killed.
Shutdown ==
  /\ parent = "close"
  /\ child' = IF child = "runs" THEN "killed" ELSE child
  /\ parent' = "answered"
  /\ UNCHANGED <<fixed, sent, got, printed, taken, cancel, late, result>>

\* job_cancel sets the flag, the clock passes the timeout, once each.
Cancel ==
  /\ ~cancel /\ parent \notin {"idle", "answered"} /\ cancel' = TRUE
  /\ UNCHANGED <<fixed, parent, sent, got, printed, taken, child, late, result>>

\* The clock of the timeout starts when the payload is written.
TimePasses ==
  /\ ~late /\ parent \in {"wait", "read"} /\ late' = TRUE
  /\ UNCHANGED <<fixed, parent, sent, got, printed, taken, child, cancel, result>>

Caller == \/ Write \/ Written \/ WriteFails
          \/ RunnerCancelled \/ RunnerExited \/ RunnerLate
          \/ OneshotReads \/ OneshotFails \/ Killer \/ Shutdown
Next == \/ \E k \in Kinds, s \in Scripts, i \in Inputs, o \in Outputs : Start(k, s, i, o)
        \/ Caller \/ Cancel \/ TimePasses
        \/ ChildReads \/ ChildPrints \/ ChildExits

\* The caller polls, and its clock runs; the child owes nothing but to go on
\* reading its input when that is what it does.
Fairness == WF_vars(Caller) /\ WF_vars(TimePasses) /\ WF_vars(ChildReads)
Spec == Init /\ [][Next]_vars /\ Fairness

-----------------------------------------------------------------------------
(* Properties *)

\* Whichever way a run ends, its process has ended with it.
AnsweredLeavesNoChild == parent = "answered" => child # "runs"

\* Every run is answered, whatever its child does, if the payload fits in the
\* pipe or a worker can be killed: the write comes before the timeout, and a
\* child that never reads holds a longer one up for good.
Begun    == parent = "write" /\ input <= Cap
Answered == parent = "answered"
RunIsAnswered == Begun ~> Answered

\* A run that succeeds printed no more than a pipe holds, unless it was read
\* while it ran: a runner's longer report is never seen, for it cannot exit.
RunnerReportFits == kind = "runner" /\ result = "ok" => output <= Cap /\ taken = output
=============================================================================
