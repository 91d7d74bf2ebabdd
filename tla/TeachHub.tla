------------------------------ MODULE TeachHub ------------------------------
(***************************************************************************)
(* A teach session: the hub (src/src/teach_hub.rs), the chat that drives   *)
(* it (src/src/tui/chat.rs) and the Playwright worker that dials it        *)
(* (src/python/cloakcli_worker/teach_hub.py, teach.py).                    *)
(*                                                                         *)
(* The chat is one task and blocks while it waits; the hub serves every    *)
(* connection on a task of its own under one lock; the worker has a        *)
(* receive thread and a thread that owns the page.  The session starts     *)
(* paired on connection 1.  A connection may break at any time, and the    *)
(* worker dials again and is sent the stored events.                       *)
(*                                                                         *)
(* A batch that the model ends with "done" is as long as what it performs. *)
(* TeachMachine is only displayed and left out.  Definitions that start    *)
(* with Mutant are bugs, no part of the model.                             *)
(***************************************************************************)
EXTENDS Naturals, Sequences, FiniteSets

CONSTANTS MaxRequests, MaxTakeovers, MaxConns,
          MaxMoves,     \* sends, takeovers, keys and broken connections together
          NoRun, NoPending, NoReply

ASSUME TeachAssumption ==
  {MaxRequests, MaxTakeovers, MaxConns, MaxMoves} \subseteq Nat /\ MaxConns >= 1

Requests  == 1..MaxRequests
Takeovers == (MaxRequests + 1)..(MaxRequests + MaxTakeovers)
Ids       == Requests \cup Takeovers
Conns     == 1..MaxConns

\* A step of an agent's batch, or what the human did in a takeover: the
\* first has a stable selector, the second needs a confirmation.
Steps  == Ids \X {1, 2}
Batch(r)   == <<<<r, 1>>, <<r, 2>>>>
Stable(s)   == s[2] = 1
Unstable(s) == s[2] = 2

VARIABLES
  \* HubInner
  paused, takeover, tid, buffer, pending, waiters, normWaiters, exported,
  timeline,     \* the stored events that a worker acts on
  outbound,     \* the connection whose sender is registered, 0 for none
  conn,         \* connection |-> how far its handler is
  snap,         \* connection |-> length of the timeline when it was accepted
  \* the network
  down,         \* to the worker, on the connection it uses
  up,           \* connection |-> messages to the hub
  flight,       \* what the human did, on its way from the extension
  \* the worker
  cur,          \* its connection, 0 for none
  paired, wpaused, wactive, wcancel, queue,
  run,          \* the batch it executes
  \* the chat
  at,           \* what its task awaits
  nreq,         \* its last request
  recording,
  held,         \* phase = HumanTakeover
  confirm,      \* session.pending_normalize
  reply,        \* in the oneshot channel it awaits
  told,         \* request |-> outcome shown
  \* observation
  acted,        \* what the human did
  performed,    \* what the worker did
  \* bounds
  moves

hubVars    == <<paused, takeover, tid, buffer, pending, waiters, normWaiters,
                exported, timeline>>
linkVars   == <<outbound, conn, snap, cur, paired>>
workerVars == <<wpaused, wactive, wcancel, queue, run>>
chatVars   == <<at, nreq, recording, held, confirm, reply, told>>
vars == <<hubVars, linkVars, down, up, flight, workerVars, chatVars, acted, performed,
          moves>>

(* ------------------------------ envelopes ------------------------------ *)

Request(id, steps) == [type |-> "action_request", id |-> id, steps |-> steps]
Start(t)        == [type |-> "takeover_start", id |-> t]
Stop(t, events) == [type |-> "takeover_stop", id |-> t, steps |-> events]
Resume          == [type |-> "resume"]
Cancel          == [type |-> "cancel"]
PairingResult   == [type |-> "pairing_result"]
MutantResult(id, ok) == [type |-> "action_result", id |-> 0, ok |-> ok]
Result(id, ok)  == [type |-> "action_result", id |-> id, ok |-> ok]
Normalized(t, steps, needs) ==
  [type |-> "normalize_result", id |-> t, steps |-> steps, needs |-> needs]

IsRequest(e) == e.type = "action_request"
IsStop(e)    == e.type = "takeover_stop"

\* The elements of q at the places I, in their order: SelectSeq as a recursive
\* function, which the provers can unfold.
Kept(q, I) ==
  LET kept[n \in 0..Len(q)] ==
        IF n = 0 THEN <<>>
        ELSE IF n \in I THEN Append(kept[n - 1], q[n]) ELSE kept[n - 1]
  IN kept[Len(q)]

Events   == Seq(Steps)
ToWorker == {Resume, Cancel, PairingResult}
       \cup [type : {"takeover_start"}, id : Takeovers]
       \cup [type : {"takeover_stop"}, id : Takeovers, steps : Events]
       \cup [type : {"action_request"}, id : Ids, steps : Events]
ToHub == [type : {"action_result"}, id : Ids, ok : BOOLEAN]
    \cup [type : {"normalize_result"}, id : Takeovers, steps : Events, needs : Events]

TypeOK ==
  /\ {paused, takeover, recording, held, confirm} \subseteq BOOLEAN
  /\ {paired, wpaused, wactive, wcancel} \subseteq BOOLEAN
  /\ tid \in Takeovers \cup {0}
  /\ buffer \in Events /\ flight \in Events
  /\ pending \in [id : Takeovers, steps : Events, needs : Events] \cup {NoPending}
  /\ waiters \in SUBSET Requests /\ normWaiters \in SUBSET Takeovers
  /\ exported \in [Steps -> Nat]
  /\ timeline \in Seq(ToWorker)
  /\ outbound \in Conns \cup {0} /\ cur \in Conns \cup {0}
  /\ conn \in [Conns -> {"none", "dialled", "accepted", "registered", "open", "ended"}]
  /\ snap \in [Conns -> 0..Len(timeline)]
  /\ down \in Seq(ToWorker) /\ up \in [Conns -> Seq(ToHub)] /\ queue \in Seq(ToWorker)
  /\ run \in [id : Ids, steps : Events, i : Nat, skip : BOOLEAN, go : BOOLEAN] \cup {NoRun}
  /\ at \in {"idle", "action", "normalize"} /\ nreq \in Requests \cup {0}
  /\ reply \in [id : Ids, ok : BOOLEAN] \cup [id : Takeovers, needs : BOOLEAN] \cup {NoReply}
  /\ told \in [Requests -> {"none", "ok", "done", "failed", "cancelled"}]
  /\ moves \in 0..MaxMoves
  /\ acted \subseteq Steps /\ performed \subseteq Steps

Init ==
  /\ paused = FALSE /\ takeover = FALSE /\ tid = 0
  /\ buffer = <<>> /\ pending = NoPending /\ waiters = {} /\ normWaiters = {}
  /\ exported = [s \in Steps |-> 0] /\ timeline = <<>>
  /\ outbound = 1 /\ cur = 1 /\ paired = TRUE
  /\ conn = [c \in Conns |-> IF c = 1 THEN "open" ELSE "none"]
  /\ snap = [c \in Conns |-> 0]
  /\ down = <<>> /\ up = [c \in Conns |-> <<>>] /\ flight = <<>>
  /\ wpaused = FALSE /\ wactive = FALSE /\ wcancel = FALSE
  /\ queue = <<>> /\ run = NoRun
  /\ at = "idle" /\ nreq = 0 /\ recording = FALSE /\ held = FALSE /\ confirm = FALSE
  /\ reply = NoReply /\ told = [r \in Requests |-> "none"] /\ moves = MaxMoves
  /\ acted = {} /\ performed = {}

(* --------------------- the chat and the calls it makes ----------------- *)

Move == moves > 0 /\ moves' = moves - 1

\* A send to the registered connection: it arrives when the worker uses it.
Posted(envs) == IF outbound # 0 /\ outbound = cur THEN down \o envs ELSE down
Post(envs)   == down' = Posted(envs)
Log(envs)    == timeline' = timeline \o envs
ClosedEarly  == outbound # 0 /\ outbound # cur

Counted(steps) ==
  [s \in Steps |-> exported[s] + Cardinality({i \in DOMAIN steps : steps[i] = s})]

Refused(r) == told' = [told EXCEPT ![r] = "failed"] /\ at' = at

\* dispatch_action_request: the timeline and the export have the batch before
\* anybody knows whether there is a worker.
Send ==
  LET r == nreq + 1 IN
  /\ Move /\ at = "idle" /\ nreq < MaxRequests /\ ~recording /\ ~held /\ ~confirm
  /\ nreq' = r
  /\ \/ /\ paused
        /\ Refused(r)
        /\ UNCHANGED <<waiters, timeline, exported, down>>
     \/ /\ ~paused
        /\ Log(<<Request(r, Batch(r))>>)
        /\ exported' = Counted(Batch(r))
        /\ \/ outbound = 0 /\ Refused(r) /\ UNCHANGED <<waiters, down>>
           \/ ClosedEarly /\ Refused(r) /\ waiters' = waiters \cup {r} /\ UNCHANGED down
           \/ /\ outbound # 0
              /\ Post(<<Request(r, Batch(r))>>)
              /\ waiters' = waiters \cup {r} /\ at' = "action" /\ told' = told
  /\ UNCHANGED <<paused, takeover, tid, buffer, pending, normWaiters, linkVars, up, flight,
                 workerVars, recording, held, confirm, reply, acted, performed>>

Shown(how) == told' = [told EXCEPT ![nreq] = how] /\ at' = "idle" /\ reply' = NoReply

\* Any result shows as "done", an unfinished batch's too; "ok" stands for one
\* whose steps are all shown ok (the desktop calls only that one done).
Answered ==
  /\ at = "action" /\ reply # NoReply
  /\ Shown(IF reply.ok THEN "ok" ELSE "done")
  /\ UNCHANGED <<hubVars, linkVars, down, up, flight, workerVars, nreq, recording, held,
                 confirm, acted, performed, moves>>

\* The waiter stays registered when nobody waits any more.
Timeout ==
  /\ at = "action" /\ reply = NoReply
  /\ Shown("failed")
  /\ UNCHANGED <<hubVars, linkVars, down, up, flight, workerVars, nreq, recording, held,
                 confirm, acted, performed, moves>>

\* Ctrl-C while a batch is awaited: cancel_request.
Cancelled ==
  /\ at = "action"
  /\ Shown("cancelled")
  /\ Log(<<Cancel>>) /\ Post(<<Cancel>>)
  /\ waiters' = waiters \ {nreq}
  /\ UNCHANGED <<paused, takeover, tid, buffer, pending, normWaiters, exported, linkVars, up,
                 flight, workerVars, nreq, recording, held, confirm, acted, performed, moves>>

NextTakeover == IF tid = 0 THEN MaxRequests + 1 ELSE tid + 1

\* Ctrl-T, the first time; it is also open while a confirmation is asked for.
StartTakeover ==
  LET t == NextTakeover IN
  /\ Move /\ at = "idle" /\ ~recording /\ t \in Takeovers
  /\ recording' = TRUE /\ held' = TRUE
  /\ paused' = TRUE /\ takeover' = TRUE /\ tid' = t
  /\ buffer' = <<>> /\ pending' = NoPending /\ waiters' = {}
  /\ Log(<<Start(t)>>) /\ Post(<<Start(t)>>)
  /\ UNCHANGED <<normWaiters, exported, linkVars, up, flight, workerVars, at, nreq, confirm,
                 reply, told, acted, performed>>

\* Ctrl-T again: stop_takeover.  The stored copy has no events.
StopTakeover ==
  /\ at = "idle" /\ recording
  /\ takeover \/ buffer # <<>> \/ pending # NoPending
  /\ recording' = FALSE /\ takeover' = FALSE /\ paused' = TRUE
  /\ buffer' = <<>>
  /\ Log(<<Stop(tid, <<>>)>>)
  /\ \/ outbound = 0 /\ UNCHANGED <<normWaiters, at, down>>
     \/ ClosedEarly /\ normWaiters' = normWaiters \cup {tid} /\ UNCHANGED <<at, down>>
     \/ /\ outbound # 0
        /\ Post(<<Stop(tid, buffer)>>)
        /\ normWaiters' = normWaiters \cup {tid} /\ at' = "normalize"
  /\ UNCHANGED <<tid, pending, waiters, exported, linkVars, up, flight, workerVars, nreq, held,
                 confirm, reply, told, acted, performed, moves>>

NormalizeShown ==
  /\ at = "normalize" /\ reply # NoReply
  /\ at' = "idle" /\ reply' = NoReply
  /\ confirm' = reply.needs /\ held' = reply.needs
  /\ UNCHANGED <<hubVars, linkVars, down, up, flight, workerVars, nreq, recording, told,
                 acted, performed, moves>>

NormalizeTimeout ==
  /\ at = "normalize" /\ reply = NoReply
  /\ at' = "idle" /\ held' = FALSE
  /\ UNCHANGED <<hubVars, linkVars, down, up, flight, workerVars, nreq, recording, confirm,
                 reply, told, acted, performed, moves>>

\* resume_agent.
Unpause ==
  paused' = FALSE /\ takeover' = FALSE /\ pending' = NoPending

\* Ctrl-R.  apply_cmd_local refuses it during a recording, its caller does not.
ResumeAgent ==
  /\ at = "idle" /\ ~confirm /\ Move
  /\ Unpause /\ Log(<<Resume>>) /\ Post(<<Resume>>)
  /\ recording' = FALSE /\ held' = FALSE
  /\ UNCHANGED <<tid, buffer, waiters, normWaiters, exported, linkVars, up, flight, workerVars,
                 at, nreq, confirm, reply, told, acted, performed>>

\* Y or N: confirm_normalize.  Without a pending result it fails and the
\* question stays.
Confirm(accept) ==
  LET merged == IF accept THEN pending.steps \o pending.needs ELSE pending.steps IN
  /\ at = "idle" /\ confirm /\ pending # NoPending
  /\ timeline' = IF merged = <<>> THEN timeline
                 ELSE Append(timeline, Request(pending.id, merged))
  /\ exported' = Counted(merged)
  /\ pending' = NoPending /\ confirm' = FALSE /\ held' = FALSE
  /\ UNCHANGED <<paused, takeover, tid, buffer, waiters, normWaiters, linkVars, down, up, flight,
                 workerVars, at, nreq, recording, reply, told, acted, performed, moves>>

\* Ctrl-C while nothing is awaited: the recording or the question is dropped,
\* the last request is cancelled, and a takeover ends in a resume.
CancelKey ==
  LET cancels == IF nreq = 0 THEN <<>> ELSE <<Cancel>>
      resumes == IF takeover THEN <<Resume>> ELSE <<>> IN
  /\ at = "idle" /\ Move
  /\ IF recording \/ held
     THEN recording' = FALSE /\ held' = FALSE /\ confirm' = FALSE
     ELSE UNCHANGED <<recording, held, confirm>>
  /\ Log(cancels \o resumes) /\ Post(cancels \o resumes)
  /\ waiters' = waiters \ {nreq}
  /\ IF takeover THEN Unpause ELSE UNCHANGED <<paused, takeover, pending>>
  /\ UNCHANGED <<tid, buffer, normWaiters, exported, linkVars, up, flight, workerVars, at, nreq,
                 reply, told, acted, performed>>

(* ------------------------------- the human ----------------------------- *)

\* The extension records while a takeover is active; its events reach the hub
\* later, over a connection of their own.
HumanActs(kinds) ==
  LET events == [i \in DOMAIN kinds |-> <<tid, kinds[i]>>] IN
  /\ takeover /\ \A k \in {1, 2} : <<tid, k>> \notin acted
  /\ acted' = acted \cup {events[i] : i \in DOMAIN events}
  /\ flight' = flight \o events
  /\ UNCHANGED <<hubVars, linkVars, down, up, workerVars, chatVars, performed, moves>>

HubEvent ==
  /\ flight # <<>>
  /\ flight' = Tail(flight)
  /\ buffer' = IF takeover THEN Append(buffer, Head(flight)) ELSE buffer
  /\ UNCHANGED <<paused, takeover, tid, pending, waiters, normWaiters, exported, timeline,
                 linkVars, down, up, workerVars, chatVars, acted, performed, moves>>

(* ----------------------- what the hub does on a message ---------------- *)

\* A connection is read to its end, after the worker has left it too.
Hears(c, type) ==
  /\ conn[c] = "open" /\ up[c] # <<>> /\ Head(up[c]).type = type
  /\ up' = [up EXCEPT ![c] = Tail(@)]

MutantAnswersAny(id) == waiters # {} /\ at = "action"
\* The waiter of a result is the one the chat awaits, or a forgotten one.
Answers(id) == id \in waiters /\ at = "action" /\ id = nreq

HubResult(c) ==
  /\ Hears(c, "action_result")
  /\ LET m == Head(up[c]) IN
     /\ waiters' = waiters \ {m.id}
     /\ reply' = IF Answers(m.id) THEN [id |-> m.id, ok |-> m.ok] ELSE reply
  /\ UNCHANGED <<paused, takeover, tid, buffer, pending, normWaiters, exported, timeline,
                 linkVars, down, flight, workerVars, at, nreq, recording, held, confirm, told,
                 acted, performed, moves>>

MutantExportNow(steps, needs) == steps
ExportNow(steps, needs) == IF needs = <<>> THEN steps ELSE <<>>

MutantNormalizeWaiter(id) == {w \in normWaiters : \A v \in normWaiters : v <= w}
\* Its own, else that of the last takeover, else any: the last case meets only
\* waiters that nobody awaits any more, and drops them all.
NormalizeWaiter(id) ==
  IF id \in normWaiters THEN {id} ELSE IF tid \in normWaiters THEN {tid} ELSE normWaiters

HubNormalized(c) ==
  /\ Hears(c, "normalize_result")
  /\ LET m == Head(up[c])
         w == NormalizeWaiter(m.id) IN
     /\ timeline' = IF m.steps = <<>> THEN timeline
                    ELSE Append(timeline, Request(m.id, m.steps))
     /\ pending' = IF m.needs = <<>> THEN NoPending
                   ELSE [id |-> m.id, steps |-> m.steps, needs |-> m.needs]
     /\ exported' = Counted(ExportNow(m.steps, m.needs))
     /\ normWaiters' = normWaiters \ w
     /\ reply' = IF at = "normalize" /\ tid \in w
                 THEN [id |-> m.id, needs |-> m.needs # <<>>] ELSE reply
  /\ UNCHANGED <<paused, takeover, tid, buffer, waiters, linkVars, down, flight, workerVars, at,
                 nreq, recording, held, confirm, told, acted, performed, moves>>

(* ----------------------------- connections ----------------------------- *)

NotLink == <<hubVars, up, flight, workerVars, chatVars, acted, performed, moves>>

\* TeachHubClient.run dials and sends pairing_accept with resume_from 0.
Dial(c) ==
  /\ cur = 0 /\ conn[c] = "none" /\ \A d \in 1..(c - 1) : conn[d] # "none"
  /\ cur' = c /\ paired' = FALSE /\ conn' = [conn EXCEPT ![c] = "dialled"]
  /\ UNCHANGED <<outbound, snap, down, NotLink>>

\* handle_pairing_accept copies the stored events, register_outbound takes the
\* lock again, and only then are the copies sent.
Accept(c) ==
  /\ conn[c] = "dialled"
  /\ conn' = [conn EXCEPT ![c] = "accepted"]
  /\ snap' = [snap EXCEPT ![c] = Len(timeline)]
  /\ UNCHANGED <<outbound, cur, paired, down, NotLink>>

RegisterOutbound(c) ==
  /\ conn[c] = "accepted"
  /\ conn' = [conn EXCEPT ![c] = "registered"] /\ outbound' = c
  /\ UNCHANGED <<snap, cur, paired, down, NotLink>>

Replay(c) ==
  /\ conn[c] = "registered"
  /\ conn' = [conn EXCEPT ![c] = "open"]
  /\ down' = IF cur = c THEN down \o <<PairingResult>> \o SubSeq(timeline, 1, snap[c]) ELSE down
  /\ snap' = [snap EXCEPT ![c] = 0]
  /\ UNCHANGED <<outbound, cur, paired, NotLink>>

\* The session of the worker ends: what was on its way to it is lost.
Drop ==
  /\ Move /\ cur # 0
  /\ cur' = 0 /\ paired' = FALSE /\ down' = <<>>
  /\ UNCHANGED <<outbound, conn, snap, hubVars, up, flight, workerVars, chatVars, acted,
                 performed>>

HubEof(c) ==
  /\ conn[c] = "open" /\ cur # c /\ up[c] = <<>>
  /\ conn' = [conn EXCEPT ![c] = "ended"]
  /\ outbound' = IF outbound = c THEN 0 ELSE outbound
  /\ UNCHANGED <<snap, cur, paired, down, NotLink>>

\* A read error leaves handle_jsonl before mark_disconnected.
HubReset(c) ==
  /\ conn[c] = "open" /\ cur # c
  /\ conn' = [conn EXCEPT ![c] = "ended"] /\ up' = [up EXCEPT ![c] = <<>>]
  /\ UNCHANGED <<outbound, snap, cur, paired, down, hubVars, flight, workerVars, chatVars,
                 acted, performed, moves>>

(* ------------------------ the worker: receive thread ------------------- *)

\* _pair throws away what it reads before the pairing result, and what the
\* same chunk holds after it.
Pair ==
  /\ cur # 0 /\ ~paired /\ down # <<>>
  /\ IF Head(down) # PairingResult
     THEN down' = Tail(down) /\ paired' = FALSE
     ELSE /\ \E k \in 1..Len(down) : down' = SubSeq(down, k + 1, Len(down))
          /\ paired' = TRUE
  /\ UNCHANGED <<outbound, conn, snap, cur, NotLink>>

Receives(type) ==
  /\ cur # 0 /\ paired /\ down # <<>> /\ Head(down).type = type
  /\ down' = Tail(down)
  /\ UNCHANGED <<hubVars, linkVars, flight, chatVars, acted, performed, moves, run>>

Respond(msgs) == up' = IF cur = 0 THEN up ELSE [up EXCEPT ![cur] = @ \o msgs]

ReceiveRequest ==
  /\ Receives("action_request")
  /\ IF wpaused \/ wactive
     THEN Respond(<<Result(Head(down).id, FALSE)>>) /\ UNCHANGED <<wcancel, queue>>
     ELSE wcancel' = FALSE /\ queue' = Append(queue, Head(down)) /\ up' = up
  /\ UNCHANGED <<wpaused, wactive>>

ReceiveCancel ==
  Receives("cancel") /\ wcancel' = TRUE /\ UNCHANGED <<wpaused, wactive, queue, up>>

\* _reject_queued_actions.
RejectQueued ==
  LET requests == Kept(queue, {i \in DOMAIN queue : IsRequest(queue[i])}) IN
  Respond([i \in DOMAIN requests |-> Result(requests[i].id, FALSE)])
StopsQueued == Kept(queue, {i \in DOMAIN queue : IsStop(queue[i])})

MutantReceiveStart ==
  /\ Receives("takeover_start")
  /\ wpaused' = TRUE /\ wactive' = TRUE /\ wcancel' = wcancel
  /\ RejectQueued /\ queue' = StopsQueued
ReceiveStart ==
  /\ Receives("takeover_start")
  /\ wpaused' = TRUE /\ wactive' = TRUE /\ wcancel' = TRUE
  /\ RejectQueued /\ queue' = StopsQueued

ReceiveStop ==
  /\ Receives("takeover_stop")
  /\ wpaused' = TRUE /\ wactive' = FALSE /\ wcancel' = TRUE
  /\ RejectQueued /\ queue' = Append(StopsQueued, Head(down))

MutantReceiveResume ==
  /\ Receives("resume")
  /\ wpaused' = wpaused /\ wactive' = FALSE /\ wcancel' = FALSE /\ UNCHANGED <<queue, up>>
ReceiveResume ==
  /\ Receives("resume")
  /\ wpaused' = FALSE /\ wactive' = FALSE /\ wcancel' = FALSE /\ UNCHANGED <<queue, up>>

(* ---------------- the worker: the thread that owns the page ------------ *)

NotWork == <<hubVars, linkVars, down, flight, wpaused, wactive, wcancel, chatVars, acted,
             moves>>

Begin ==
  /\ run = NoRun /\ queue # <<>> /\ IsRequest(Head(queue))
  /\ run' = [id |-> Head(queue).id, steps |-> Head(queue).steps, i |-> 1,
             skip |-> wpaused, go |-> FALSE]
  /\ queue' = Tail(queue)
  /\ UNCHANGED <<NotWork, up, performed>>

MutantFinish(ok) == run' = NoRun /\ IF ok THEN Respond(<<Result(run.id, TRUE)>>) ELSE up' = up
Finish(ok) == run' = NoRun /\ Respond(<<Result(run.id, ok)>>)

\* The cancel flag is read before every action; executor_paused is the value
\* from before the first.
Check ==
  /\ run # NoRun /\ ~run.go
  /\ IF wcancel \/ run.skip THEN Finish(FALSE)
     ELSE run' = [run EXCEPT !.go = TRUE] /\ up' = up
  /\ UNCHANGED <<NotWork, queue, performed>>

Act ==
  /\ run # NoRun /\ run.go
  /\ performed' = performed \cup {run.steps[run.i]}
  /\ IF run.i < Len(run.steps)
     THEN run' = [run EXCEPT !.i = @ + 1, !.go = FALSE] /\ up' = up
     ELSE Finish(TRUE)
  /\ UNCHANGED <<NotWork, queue>>

\* The page refuses the action, or interrupt_playwright aborts it.
ActFails ==
  /\ run # NoRun /\ run.go
  /\ Finish(FALSE)
  /\ UNCHANGED <<NotWork, queue, performed>>

\* _handle_takeover_stop, and its failure.
Normalize ==
  /\ run = NoRun /\ queue # <<>> /\ IsStop(Head(queue))
  /\ LET e == Head(queue) IN
     \/ Respond(<<Normalized(e.id, Kept(e.steps, {i \in DOMAIN e.steps : Stable(e.steps[i])}),
                             Kept(e.steps, {i \in DOMAIN e.steps : Unstable(e.steps[i])}))>>)
     \/ Respond(<<Normalized(e.id, <<>>, <<>>)>>)
  /\ queue' = Tail(queue)
  /\ UNCHANGED <<NotWork, run, performed>>

(* ----------------------------------------------------------------------- *)

Chat == Send \/ Answered \/ Timeout \/ Cancelled \/ StartTakeover \/ StopTakeover
        \/ NormalizeShown \/ NormalizeTimeout \/ ResumeAgent \/ CancelKey
        \/ \E accept \in BOOLEAN : Confirm(accept)
Human == HubEvent \/ \E kinds \in {<<1>>, <<2>>, <<1, 2>>} : HumanActs(kinds)
Handle(c) == HubResult(c) \/ HubNormalized(c)
Link == Drop \/ Pair \/ \E c \in Conns : \/ Dial(c) \/ Accept(c) \/ RegisterOutbound(c)
                                       \/ Replay(c) \/ HubEof(c) \/ HubReset(c)
Receive == ReceiveRequest \/ ReceiveCancel \/ ReceiveStart \/ ReceiveStop \/ ReceiveResume
Work == Begin \/ Check \/ Act \/ ActFails \/ Normalize

Next == Chat \/ Human \/ Link \/ Receive \/ Work \/ \E c \in Conns : Handle(c)

Spec == Init /\ [][Next]_vars

\* The threads of the worker and the tasks of the hub run, and the chat reads
\* its answer: each of their steps uses a message or a batch up, so fairness
\* to all of them together is enough.  Keys, timeouts and broken connections
\* need not happen.
System == Receive \/ Work \/ Answered \/ NormalizeShown \/ \E c \in Conns : Handle(c)
FairSpec == Spec /\ WF_vars(System)

(* ------------------------------ properties ----------------------------- *)

\* While the first connection lasts.
Undisturbed == cur = 1

\* A batch whose steps the chat shows as ok, every one (the desktop: a batch that
\* is done), was performed to its last step: results that come late, after a
\* timeout or a takeover, are not taken for another's.
AnswerIsOwn ==
  \A r \in Requests : told[r] = "ok" => {<<r, 1>>, <<r, 2>>} \subseteq performed

\* What the human did in a takeover is exported once at most, however often the
\* takeover is stopped, replayed and normalized, and only when it was done.
HumanExportedOnce ==
  \A t \in Takeovers, k \in {1, 2} :
    exported[<<t, k>>] <= (IF <<t, k>> \in acted THEN 1 ELSE 0)

\* The worker begins no action while it knows of a takeover, whatever it was
\* doing and whatever has been replayed to it (teach_hub.rs:698).
NoActionStartsInTakeover ==
  [][(run # NoRun /\ run' # NoRun /\ ~run.go /\ run'.go) => ~wactive]_vars

\* As long as the connection holds and nothing is on its way, hub and worker
\* agree on whether the agent is paused and the human records.
PausedAgree ==
  (Undisturbed /\ down = <<>>) => (wpaused = paused /\ wactive = takeover)

\* As long as the connection holds, the chat that stopped a takeover is shown
\* the normalized steps of that takeover, not of an earlier one.
NormalizeAnswersItsStop ==
  (Undisturbed /\ at = "normalize" /\ reply # NoReply) => reply.id = tid

\* As long as the connection holds, what the chat awaits is answered without
\* the help of a timeout.
AnswersCome == (at # "idle") ~> (at = "idle" \/ ~Undisturbed)

\* What the human did is normalized, never executed (teach.py:209).
HumanStepsNeverExecuted == \A s \in performed : s[1] \in Requests

\* A batch whose cancel has reached the worker begins no further action
\* (actions.py:669).  The code does not keep it: the next action_request
\* clears the worker's one cancel flag (teach_hub.py:405).
BatchStopsOnCancel ==
  [][(/\ Undisturbed /\ run # NoRun /\ run' # NoRun /\ ~run.go /\ run'.go
      /\ \A i \in DOMAIN down : down[i] # Cancel)
     => told[run.id] # "cancelled"]_vars
=============================================================================
