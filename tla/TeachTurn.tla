----------------------------- MODULE TeachTurn -----------------------------
(***************************************************************************)
(* The chat the desktop drives by JSON lines (src/src/teach_events.rs):    *)
(* one loop reads commands and ticks, and at most one task at a time plans *)
(* a turn, sends its actions to the hub and waits.  Loop and task share    *)
(* the session (behind a mutex), the cancel flag and the busy flag, and    *)
(* run side by side; the worker answers or does not.                       *)
(*                                                                         *)
(* The hub is reduced to the waiter of each request; TeachHub has the rest.*)
(* A plan never asks for confirmation (TeachPlan), so a confirm command    *)
(* always finds nothing to confirm.  The snapshot is replaced by a rename  *)
(* under the session's mutex.  Mutant* definitions are bugs.               *)
(***************************************************************************)
EXTENDS TeachPlan

CONSTANTS Answers,     \* what the model may answer
          MaxTurns, MaxCancels, MaxStarts   \* bounds

VARIABLES
  loop,     \* "run", "cancel" and "report" inside cancel_inflight, "join", "closed"
  stop,     \* the loop is handling a stop
  task,     \* where the task is; "none" when the loop holds no handle
  answer,   \* the model's answer in this turn
  busy, cancel, phase,
  last,     \* last_request_id, 0 when there is none
  result,   \* what execute_planned returned
  waiter,   \* request |-> "none", "waits", "ok", "failed", "cancelled"
  told,     \* request |-> the last state a job event gave it
  target,   \* the request a cancel under way has read
  snap,     \* last_request_id in events-snapshot.json
  bound,    \* bound: turns, cancels and process starts so far
  asked     \* observation: this turn was cancelled "inTime", "late", or "no"

session == <<cancel, phase, last>>
vars == <<loop, stop, task, answer, busy, session, result, waiter, told, target, snap, bound, asked>>

Requests == 1..MaxTurns
\* The task while it plans, is about to send, has sent, has an answer.
Working == {"begin", "plan", "apply", "dispatch", "post", "wait", "end"}

TypeOK ==
  /\ loop \in {"run", "cancel", "report", "join", "closed"} /\ stop \in BOOLEAN
  /\ task \in Working \cup {"none", "finished"} /\ answer \in Answers
  /\ busy \in BOOLEAN /\ cancel \in BOOLEAN
  /\ phase \in {"chat", "acting", "cancel", "error"}
  /\ {last, target, snap} \subseteq 0..MaxTurns
  /\ result \in {"none", "ok", "failed", "cancelled", "error"}
  /\ waiter \in [Requests -> {"none", "waits", "ok", "failed", "cancelled"}]
  /\ told \in [Requests -> {"none", "running", "done", "failed", "cancelled"}]
  /\ bound.turns \in 0..MaxTurns /\ bound.cancels \in 0..MaxCancels
  /\ bound.starts \in 0..MaxStarts
  /\ asked \in {"no", "inTime", "late"}

Init ==
  /\ loop = "run" /\ stop = FALSE /\ task = "none" /\ answer \in Answers
  /\ busy = FALSE /\ cancel = FALSE /\ phase = "chat" /\ last = 0 /\ result = "none"
  /\ waiter = [r \in Requests |-> "none"] /\ told = [r \in Requests |-> "none"]
  /\ target = 0 /\ snap = 0 /\ asked = "no"
  /\ bound = [turns |-> 0, cancels |-> 0, starts |-> 1]

\* The request of this turn; ids are fresh, and the turns of all processes count.
Mine == bound.turns
Tell(r, s) == told' = IF r = 0 THEN told ELSE [told EXCEPT ![r] = s]
Step(from, to) == task = from /\ task' = to

-----------------------------------------------------------------------------
(* The loop *)

\* send (teach_events.rs:487): refused while a handle is held or busy is set.
Send(a) ==
  /\ loop = "run" /\ task = "none" /\ ~busy /\ bound.turns < MaxTurns
  /\ busy' = TRUE /\ task' = "begin" /\ answer' = a /\ asked' = "no"
  /\ bound' = [bound EXCEPT !.turns = @ + 1]
  /\ UNCHANGED <<loop, stop, session, result, waiter, told, target, snap>>

\* confirm (teach_events.rs:470): its task finds nothing pending and ends.
Confirm ==
  /\ loop = "run" /\ task = "none" /\ ~busy
  /\ busy' = TRUE /\ task' = "finished"
  /\ UNCHANGED <<loop, stop, answer, session, result, waiter, told, target, snap, bound, asked>>

\* The tick (teach_events.rs:424) takes the handle of a task that has ended.
MutantTick ==
  /\ loop = "run" /\ task = "finished"
  /\ task' = "none"
  /\ UNCHANGED <<loop, stop, answer, busy, session, result, waiter, told, target, snap, bound, asked>>
Tick ==
  /\ loop = "run" /\ task = "finished"
  /\ task' = "none" /\ busy' = FALSE
  /\ UNCHANGED <<loop, stop, answer, session, result, waiter, told, target, snap, bound, asked>>

\* cancel and stop (teach_events.rs:457, 584): the flag is set, the phase and
\* the id of the last request are read under one lock.
CancelInflight(s) ==
  /\ loop = "run" /\ (s \/ bound.cancels < MaxCancels)
  /\ cancel' = TRUE
  /\ phase' = IF phase = "acting" THEN "cancel" ELSE phase
  /\ target' = last /\ loop' = "cancel" /\ stop' = s
  /\ bound' = [bound EXCEPT !.cancels = IF s THEN @ ELSE @ + 1]
  \* observation: before the turn's own reset of the flag and after its last
  \* look at it, a cancel comes too early or too late
  /\ asked' = CASE task \in {"plan", "post", "wait", "end"} -> "inTime"
                [] task \in {"begin", "apply", "dispatch"}  -> "late"
                [] OTHER -> asked
  /\ UNCHANGED <<task, answer, busy, last, result, waiter, told, snap>>

\* hub.cancel_request (teach_hub.rs:262) answers the waiter itself.
CancelAtHub ==
  /\ loop = "cancel" /\ loop' = "report"
  /\ waiter' = [r \in Requests |->
       IF r = target /\ waiter[r] = "waits" THEN "cancelled" ELSE waiter[r]]
  /\ UNCHANGED <<stop, task, answer, busy, session, result, told, target, snap, bound, asked>>

\* The job event and the snapshot (teach_events.rs:600).
ReportCancel ==
  /\ loop = "report" /\ loop' = IF stop THEN "join" ELSE "run"
  /\ Tell(target, "cancelled") /\ target' = 0
  /\ snap' = last
  /\ UNCHANGED <<stop, task, answer, busy, session, result, waiter, bound, asked>>

\* stop waits two seconds for the task (teach_events.rs:461).  Only a blocked
\* answer of the model, or a wait nobody cancelled, takes longer.
Joined ==
  /\ loop = "join"
  /\ task \in {"none", "finished", "plan"} \/ (task = "wait" /\ ~cancel)
  /\ loop' = "closed" /\ snap' = last
  /\ UNCHANGED <<stop, task, answer, busy, session, result, waiter, told, target, bound, asked>>

-----------------------------------------------------------------------------
(* The task *)
Runs == loop # "closed" /\ UNCHANGED <<loop, stop, target, bound, asked>>

\* handle_send begins (teach_events.rs:932).
Begin ==
  /\ Runs /\ Step("begin", "plan")
  /\ cancel' = FALSE /\ phase' = "acting" /\ snap' = last
  /\ UNCHANGED <<answer, busy, last, result, waiter, told>>

\* The model's text is streamed; between chunks and at the end the flag is
\* read (teach_events.rs:975, 1127), and once more after planning (:1041).
PlanCancelled ==
  /\ Runs /\ cancel /\ Step("plan", "finished")
  /\ phase' = "chat" /\ snap' = last
  /\ UNCHANGED <<answer, busy, cancel, last, result, waiter, told>>

\* The model fails, or there is none (teach_events.rs:995, 1017).
PlanFails ==
  /\ Runs /\ ~cancel /\ Step("plan", "finished")
  /\ phase' \in {"error", "chat"} /\ snap' = last
  /\ UNCHANGED <<answer, busy, cancel, last, result, waiter, told>>

MutantPlanned ==
  /\ Runs /\ Step("plan", "apply")
  /\ UNCHANGED <<answer, busy, session, result, waiter, told, snap>>
Planned ==
  /\ Runs /\ ~cancel /\ Step("plan", "apply")
  /\ UNCHANGED <<answer, busy, session, result, waiter, told, snap>>

\* apply_plan (teach_chat.rs:1155), and the turns that end with it.
Apply ==
  LET plan == Plan(answer) IN
  /\ Runs /\ task = "apply"
  /\ phase' = IF plan.errors THEN "error" ELSE "chat"
  /\ task' = IF plan.errors \/ plan.actions = <<>> THEN "finished" ELSE "dispatch"
  /\ snap' = last
  /\ UNCHANGED <<answer, busy, cancel, last, result, waiter, told>>

\* dispatch_planned begins (teach_events.rs:1312): the flag is reset, whatever
\* it said, under the lock that makes the new request the last one.
Dispatch ==
  /\ Runs /\ Step("dispatch", "post")
  /\ cancel' = FALSE /\ phase' = "acting" /\ last' = Mine /\ snap' = Mine
  /\ Tell(Mine, "running")
  /\ UNCHANGED <<answer, busy, result, waiter>>

\* execute_planned (teach_chat.rs:1013): the hub takes the actions, or refuses.
Post ==
  /\ Runs /\ task = "post"
  /\ \/ /\ HubTakes(Plan(answer).actions)
        /\ task' = "wait" /\ waiter' = [waiter EXCEPT ![Mine] = "waits"]
        /\ UNCHANGED result
     \/ task' = "end" /\ result' = "error" /\ UNCHANGED waiter
  /\ UNCHANGED <<answer, busy, session, told, snap>>

\* It waits for an answer, for the flag, which it reads every 40 ms, or for
\* 45 seconds; then the waiter stays with the hub.
Answered ==
  /\ Runs /\ Step("wait", "end") /\ waiter[Mine] \in {"ok", "failed", "cancelled"}
  /\ result' = waiter[Mine]
  /\ UNCHANGED <<answer, busy, session, waiter, told, snap>>

SeesCancel ==
  /\ Runs /\ cancel /\ Step("wait", "end")
  /\ result' = "cancelled"
  /\ waiter' = [waiter EXCEPT ![Mine] = IF @ = "waits" THEN "cancelled" ELSE @]
  /\ UNCHANGED <<answer, busy, session, told, snap>>

TimesOut ==
  /\ Runs /\ ~cancel /\ Step("wait", "end") /\ waiter[Mine] = "waits"
  /\ result' = "error"
  /\ UNCHANGED <<answer, busy, session, waiter, told, snap>>

\* dispatch_planned ends (teach_events.rs:1336): a flag set by now turns any
\* answer into a cancellation.
MutantEnd ==
  /\ Runs /\ Step("end", "finished")
  /\ Tell(Mine, CASE result = "cancelled" -> "cancelled" [] result = "ok" -> "done" [] OTHER -> "failed")
  /\ phase' = IF result = "error" THEN "error" ELSE "chat"
  /\ result' = "none" /\ snap' = last
  /\ UNCHANGED <<answer, busy, cancel, last, waiter>>
End ==
  /\ Runs /\ Step("end", "finished")
  /\ Tell(Mine, CASE result = "error" -> "failed"
                  [] result # "error" /\ (result = "cancelled" \/ cancel) -> "cancelled"
                  [] result = "ok" /\ ~cancel -> "done"
                  [] OTHER -> "failed")
  /\ phase' = IF result = "error" THEN "error" ELSE "chat"
  /\ result' = "none" /\ snap' = last
  /\ UNCHANGED <<answer, busy, cancel, last, waiter>>

\* The worker answers a request.
WorkerAnswers(r) ==
  /\ waiter[r] = "waits" /\ loop # "closed"
  /\ \E a \in {"ok", "failed"} : waiter' = [waiter EXCEPT ![r] = a]
  /\ UNCHANGED <<loop, stop, task, answer, busy, session, result, told, target, snap, bound, asked>>

\* The process has ended, by stop or otherwise, and the desktop starts another
\* (run, teach_events.rs:331), which restores the session of the snapshot.
Restart ==
  /\ bound.starts < MaxStarts
  /\ bound' = [bound EXCEPT !.starts = @ + 1]
  /\ loop' = "run" /\ stop' = FALSE /\ task' = "none" /\ busy' = FALSE
  /\ cancel' = FALSE /\ phase' = "chat" /\ last' = snap /\ result' = "none"
  /\ waiter' = [r \in Requests |-> "none"] /\ target' = 0 /\ asked' = "no"
  /\ UNCHANGED <<answer, told, snap>>

Loop == Tick \/ CancelAtHub \/ ReportCancel \/ Joined
Task == \/ Begin \/ PlanCancelled \/ PlanFails \/ Planned \/ Apply \/ Dispatch \/ Post
        \/ Answered \/ SeesCancel \/ TimesOut \/ End

Next ==
  \/ \E a \in Answers : Send(a)
  \/ \E s \in BOOLEAN : CancelInflight(s)
  \/ Confirm \/ Restart \/ Loop \/ Task
  \/ \E r \in Requests : WorkerAnswers(r)

\* The loop and the task run: ticks come, the model's answer and the wait have
\* timeouts.  Nothing obliges the user or the worker.
Fairness == WF_vars(Loop) /\ WF_vars(Task)
Spec == Init /\ [][Next]_vars /\ Fairness

-----------------------------------------------------------------------------
(* Properties *)

\* A request the desktop was told is cancelled is never reported done
\* afterwards, however the task and the loop interleave (cancel_inflight,
\* dispatch_planned).
CancelledStaysCancelled ==
  [][\A r \in Requests : told[r] = "cancelled" => told'[r] # "done"]_vars

\* A cancel that comes while the model answers keeps the turn from sending
\* anything, and once closed after a stop no request that is shown as running
\* is left with the worker; only a cancel before the turn has reset the flag,
\* or after its last look at it, is lost ("Cancel is honored between chunks",
\* teach_events.rs:10).
CancelIsHonoured ==
  /\ task = "post" /\ asked = "inTime" => cancel
  /\ loop = "closed" /\ asked # "late" =>
       \A r \in Requests : ~(waiter[r] = "waits" /\ told[r] = "running")

\* The chat takes commands again after every turn.
Freed == ~busy \/ loop = "closed"
ChatIsFreed == busy ~> Freed
=============================================================================
