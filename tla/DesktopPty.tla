----------------------------- MODULE DesktopPty -----------------------------
(***************************************************************************)
(* The terminal of the desktop (src/desktop/src-tauri/src/pty.rs): one     *)
(* `cloakcli tui' in a pseudo-terminal, whose process group, descendants   *)
(* and worker are taken down when it ends, however it ends.  The main      *)
(* thread starts and stops it; each start leaves a thread that looks every *)
(* 50 ms and ends when it finds no session.  A session is ended in two     *)
(* steps under the lock of the slot: the request (SIGTERM) to the group    *)
(* and to every pid ever seen, and two seconds later SIGKILL; processes go *)
(* on forking in between.                                                  *)
(*                                                                         *)
(* Abstracted: the terminal's bytes and size, and the reuse of a pid.      *)
(***************************************************************************)
EXTENDS Naturals, FiniteSets

CONSTANTS Pids, MaxSessions     \* bounds: processes and starts

VARIABLES
  proc,      \* pid |-> [at, of, grouped, child]: of which session, in its group, a descendant
  workerPid, \* data/worker.pid, NoPid when there is none
  slot,      \* [session, pid, baseline, seen]
  ending,    \* the session is being ended: [on, extra, by]
  watchers,  \* threads that look at the slot
  starts,    \* sessions started
  told,      \* observation: session |-> times its end was told
  unseen     \* observation: processes that left their session before a look

vars == <<proc, workerPid, slot, ending, watchers, starts, told, unseen>>

NoPid == "none"
Sessions == 1..MaxSessions
NoSession == [session |-> 0, pid |-> NoPid, baseline |-> NoPid, seen |-> {}]
NotEnding == [on |-> FALSE, extra |-> {}, by |-> "none"]
Unused == [at |-> "unused", of |-> 0, grouped |-> FALSE, child |-> FALSE]

TypeOK ==
  /\ proc \in [Pids -> [at : {"unused", "tui", "worker", "browser", "zombie", "dead"}, of : 0..MaxSessions,
                        grouped : BOOLEAN, child : BOOLEAN]]
  /\ workerPid \in Pids \cup {NoPid} /\ unseen \subseteq Pids
  /\ slot.session \in 0..MaxSessions /\ slot.pid \in Pids \cup {NoPid}
  /\ slot.baseline \in Pids \cup {NoPid} /\ slot.seen \subseteq Pids
  /\ ending.on \in BOOLEAN /\ ending.extra \subseteq Pids /\ ending.by \in {"none", "main", "watcher"}
  /\ watchers \in 0..MaxSessions /\ starts \in 0..MaxSessions /\ told \in [Sessions -> Nat]

Init ==
  /\ proc = [p \in Pids |-> Unused] /\ workerPid = NoPid /\ slot = NoSession /\ ending = NotEnding
  /\ watchers = 0 /\ starts = 0 /\ told = [s \in Sessions |-> 0] /\ unseen = {}

Alive(p)     == proc[p].at \in {"tui", "worker", "browser"}
Group(s)     == {p \in Pids : Alive(p) /\ proc[p].of = s /\ proc[p].grouped}
Descended(s) == {p \in Pids : Alive(p) /\ proc[p].of = s /\ proc[p].child}

\* session_worker_pids (pty.rs:478): the worker noted since the session started.
Noted == IF workerPid # NoPid /\ workerPid # slot.baseline /\ Alive(workerPid) THEN {workerPid} ELSE {}

\* refresh_seen_pids (pty.rs:454).
Seen == slot.seen \cup {slot.pid} \cup Group(slot.session) \cup Descended(slot.session) \cup Noted

-----------------------------------------------------------------------------
(* The processes *)

\* The terminal program starts the worker, and the worker the browser, in the
\* group of the one that starts it; a worker started outside has none.
Fork(p, kind, q) ==
  /\ proc[p].at = "unused" /\ Alive(q)
  /\ proc[q].at = (IF kind = "worker" THEN "tui" ELSE "worker") /\ proc[q].of # 0
  /\ proc' = [proc EXCEPT ![p] = [proc[q] EXCEPT !.at = kind]]
  /\ unseen' = IF proc[q].child THEN unseen ELSE unseen \cup {p}
  /\ UNCHANGED <<workerPid, slot, ending, watchers, starts, told>>
Outside(p) ==
  /\ proc[p].at = "unused" /\ proc' = [proc EXCEPT ![p].at = "worker"]
  /\ UNCHANGED <<workerPid, slot, ending, watchers, starts, told, unseen>>
\* daemon_serve notes its pid (worker.rs:377).
Note(p) ==
  /\ proc[p].at = "worker" /\ workerPid' = p
  /\ UNCHANGED <<proc, slot, ending, watchers, starts, told, unseen>>
\* It leaves the group, and its parent.
Leave(p) ==
  /\ Alive(p) /\ proc[p].at # "tui" /\ proc[p].child
  /\ proc' = [proc EXCEPT ![p].grouped = FALSE, ![p].child = FALSE]
  /\ unseen' = IF p \in slot.seen \cup ending.extra THEN unseen ELSE unseen \cup {p}
  /\ UNCHANGED <<workerPid, slot, ending, watchers, starts, told>>
\* The terminal program waits to be reaped.
Ended(at) == IF at = "tui" THEN "zombie" ELSE "dead"
Exit(p) ==
  /\ Alive(p) /\ proc' = [proc EXCEPT ![p].at = Ended(@)]
  /\ UNCHANGED <<workerPid, slot, ending, watchers, starts, told, unseen>>

-----------------------------------------------------------------------------
(* The sessions *)

Tell(s) == told' = [told EXCEPT ![s] = @ + 1]

\* start (pty.rs:48), once the slot is empty; the program that is alive in it
\* refuses another.
Start(p) ==
  /\ slot = NoSession /\ ~ending.on /\ starts < MaxSessions /\ proc[p].at = "unused"
  /\ starts' = starts + 1 /\ watchers' = watchers + 1
  /\ proc' = [proc EXCEPT ![p] = [at |-> "tui", of |-> starts + 1, grouped |-> TRUE, child |-> TRUE]]
  /\ slot' = [session |-> starts + 1, pid |-> p, baseline |-> workerPid, seen |-> {p}]
  /\ UNCHANGED <<workerPid, ending, told, unseen>>

\* terminate_session (pty.rs:285): what is to be signalled is fixed, and what
\* of it heeds SIGTERM ends.
Terminate(by) ==
  /\ slot # NoSession /\ ~ending.on
  /\ ending' = [on |-> TRUE, extra |-> Seen, by |-> by]
  /\ \E heeds \in SUBSET (Seen \cup Group(slot.session)) :
       proc' = [p \in Pids |-> IF p \in heeds /\ Alive(p) THEN [proc[p] EXCEPT !.at = Ended(@)] ELSE proc[p]]
  /\ UNCHANGED <<workerPid, slot, watchers, starts, told, unseen>>
\* reclaim_unix (pty.rs:334): SIGKILL, the program is reaped, the slot emptied,
\* and the end told (pty.rs:250, 187) unless a start came upon the session.
MutantSignalled == ending.extra
Signalled == ending.extra \cup Group(slot.session)
Kill ==
  /\ ending.on
  /\ proc' = [p \in Pids |-> IF p \in Signalled THEN [proc[p] EXCEPT !.at = "dead"] ELSE proc[p]]
  /\ slot' = NoSession /\ ending' = NotEnding
  /\ IF ending.by = "main" /\ proc[slot.pid].at = "zombie"
     THEN UNCHANGED told \/ Tell(slot.session)
     ELSE Tell(slot.session)
  /\ watchers' = IF ending.by = "watcher" THEN watchers - 1 ELSE watchers
  /\ UNCHANGED <<workerPid, starts, unseen>>

\* stop (pty.rs:241), the closing of the window, and a start that finds the
\* program gone (pty.rs:62).
Stop == Terminate("main")

\* The thread of a start (pty.rs:156).
MutantWatch ==
  /\ watchers > 0 /\ ~ending.on /\ slot # NoSession
  /\ \/ Alive(slot.pid) /\ slot.seen # Seen /\ slot' = [slot EXCEPT !.seen = Seen] /\ UNCHANGED <<proc, ending, told>>
     \/ ~Alive(slot.pid) /\ slot' = NoSession /\ Tell(slot.session) /\ UNCHANGED <<proc, ending>>
  /\ UNCHANGED <<workerPid, watchers, starts, unseen>>
Watch ==
  \/ /\ watchers > 0 /\ ~ending.on /\ slot # NoSession /\ Alive(slot.pid) /\ slot.seen # Seen
     /\ slot' = [slot EXCEPT !.seen = Seen]
     /\ UNCHANGED <<proc, workerPid, ending, watchers, starts, told, unseen>>
  \/ /\ watchers > 0 /\ slot # NoSession /\ ~Alive(slot.pid) /\ Terminate("watcher")
MutantWatchEnds ==
  /\ watchers > 0 /\ ~ending.on /\ slot = NoSession /\ watchers' = watchers - 1 /\ Tell(starts)
  /\ UNCHANGED <<proc, workerPid, slot, ending, starts, unseen>>
WatchEnds ==
  /\ watchers > 0 /\ ~ending.on /\ slot = NoSession /\ watchers' = watchers - 1
  /\ UNCHANGED <<proc, workerPid, slot, ending, starts, told, unseen>>

Next ==
  \/ \E p, q \in Pids, kind \in {"worker", "browser"} : Fork(p, kind, q)
  \/ \E p \in Pids : Outside(p) \/ Note(p) \/ Leave(p) \/ Exit(p) \/ Start(p)
  \/ Stop \/ Kill \/ Watch \/ WatchEnds

\* The threads run, and two seconds pass.
Fairness == WF_vars(Kill) /\ WF_vars(Watch) /\ WF_vars(WatchEnds)
Spec == Init /\ [][Next]_vars /\ Fairness

-----------------------------------------------------------------------------
(* Properties *)

\* What a session leaves behind once the slot is empty is only what left the
\* group before any look at it and is not the worker noted in worker.pid:
\* nothing that was in the group at the end, however it was started, and no
\* pid ever seen (pty.rs:1 "Cleanup is the same path for natural exit,
\* pty_stop, spawn/reader/writer failure, window close, and app exit").
SessionReclaimed ==
  \A p \in Pids : Alive(p) /\ proc[p].of # 0 /\ proc[p].of # slot.session => p \in unseen

\* The window is told of the end of a session once, by the stop or by one of
\* the threads, of which an earlier session may have left one at work.
ToldOnce == \A s \in Sessions : told[s] <= 1

\* A program that has ended is cleared away although nobody asks
\* (pty.rs:156).
Gone(s)    == slot.session = s /\ ~Alive(slot.pid)
Cleared(s) == slot.session # s
ExitIsSeen == \A s \in Sessions : Gone(s) ~> Cleared(s)
=============================================================================
