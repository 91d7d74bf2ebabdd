----------------------------- MODULE MCProgress -----------------------------
(***************************************************************************)
(* The parts in which somebody waits for somebody, on small instances: the *)
(* sync of a client, the process that runs a package, the turn of a teach  *)
(* chat, the worker daemon, the console, and the terminal of the desktop.  *)
(* They share no state, so a behaviour is one of one part, chosen at its   *)
(* start; the others stay as they begin.  The configuration names the      *)
(* instances.                                                              *)
(***************************************************************************)
EXTENDS Naturals, Sequences, FiniteSets

CONSTANT Nil     \* a model value: no digest, no answer, no heartbeat
VARIABLE part

-----------------------------------------------------------------------------
(* The sync of packages to a client *)

CONSTANTS Skills, Digests, SkillOf, Pushes, Wants,
          MaxLinks, MaxRevision, MaxQueue, MaxEvents
MCSkillOf == [d1 |-> "s1", d2 |-> "s1"]
MCWants   == [p1 |-> "d1", p2 |-> "d2"]

VARIABLES cur, sessions, ready, observed, beat, cache, index, tasks, upLink, downLink,
          conn, handle, hub, desired, push
syncVars == <<cur, sessions, ready, observed, beat, cache, index, tasks, upLink, downLink,
              conn, handle, hub, desired, push>>

Sync == INSTANCE SkillSync WITH
  MaxSessions <- MaxLinks, NoDigest <- Nil, NoAck <- Nil, NoBeat <- Nil,
  last <- sessions, up <- upLink, down <- downLink

-----------------------------------------------------------------------------
(* The process that runs a package *)

CONSTANTS Cap, Inputs, Outputs
VARIABLES kind, script, input, output, parent, sent, got, printed, taken, child, runCancel, late, runResult
pipeVars == <<kind, script, input, output, parent, sent, got, printed, taken, child, runCancel, late, runResult>>

Pipes == INSTANCE RunnerPipes WITH cancel <- runCancel, result <- runResult

-----------------------------------------------------------------------------
(* A turn of the teach chat *)

CONSTANTS MaxActions, MaxScroll, MaxWait, DefaultWait, Replies, MaxTurns, MaxCancels, MaxStarts
VARIABLES turnLoop, stop, turnTask, answer, turnBusy, cancel, phase, last, result,
          waiter, turnTold, target, snap, bound, turnAsked
turnVars == <<turnLoop, stop, turnTask, answer, turnBusy, cancel, phase, last, result,
              waiter, turnTold, target, snap, bound, turnAsked>>

Item(a) ==
  [action |-> a, source |-> "none", selector |-> "ok", text |-> "ok", value |-> "none", url |-> "none",
   dx |-> 0, dy |-> 0, ms |-> 0, point |-> FALSE, observed |-> FALSE, reason |-> "none"]
Click == [json |-> TRUE, version |-> 1, items |-> <<Item("click")>>]
MCReplies == {Click, [Click EXCEPT !.json = FALSE], [Click EXCEPT !.items = <<>>],
              [Click EXCEPT !.items = <<Item("click"), Item("eval")>>]}

Turn == INSTANCE TeachTurn WITH
  Answers <- Replies,
  loop <- turnLoop, task <- turnTask, busy <- turnBusy, told <- turnTold, asked <- turnAsked

-----------------------------------------------------------------------------
(* The worker daemon, the console, and the terminal of the desktop *)

CONSTANTS Callers, MaxPids, MaxDeaths
VARIABLES state, daemonBusy, sock, pidFile, pc, seen, overlap, deaths
daemonVars == <<state, daemonBusy, sock, pidFile, pc, seen, overlap, deaths>>

Daemon == INSTANCE WorkerDaemon WITH busy <- daemonBusy

CONSTANT Browsers
VARIABLES up, open, rows, sel, screen, loop, busy, task, hit
consoleVars == <<up, open, rows, sel, screen, loop, busy, task, hit>>

Console == INSTANCE TuiConsole WITH Sessions <- Browsers

CONSTANTS Processes, MaxSessions
VARIABLES proc, workerPid, slot, ending, watchers, starts, told, unseen
ptyVars == <<proc, workerPid, slot, ending, watchers, starts, told, unseen>>

Pty == INSTANCE DesktopPty WITH Pids <- Processes

-----------------------------------------------------------------------------
(* What the sizes of the instances may be *)

ASSUME ProgressAssumption ==
  /\ MaxLinks \in Nat /\ MaxRevision \in Nat \ {0} /\ Wants \in [Pushes -> Digests]
  /\ Cap \in Nat /\ Inputs \subseteq Nat /\ Outputs \subseteq Nat
  /\ MaxTurns \in Nat /\ MaxCancels \in Nat /\ MaxStarts \in Nat \ {0}
  /\ MaxPids \in Nat /\ MaxDeaths \in Nat
  /\ "all" \notin Browsers
  /\ MaxSessions \in Nat

vars == <<part, syncVars, pipeVars, turnVars, daemonVars, consoleVars, ptyVars>>

Init ==
  /\ part \in {"sync", "pipes", "turn", "daemon", "console", "pty"}
  /\ Sync!Init /\ Pipes!Init /\ Daemon!Init /\ Pty!Init
  /\ Turn!Init    /\ (part # "turn" => answer = CHOOSE a \in Replies : TRUE)
  /\ Console!Init /\ (part # "console" => up /\ open = <<>>)

Next ==
  /\ UNCHANGED part
  /\ IF part = "sync"    THEN Sync!Next    ELSE UNCHANGED syncVars
  /\ IF part = "pipes"   THEN Pipes!Next   ELSE UNCHANGED pipeVars
  /\ IF part = "turn"    THEN Turn!Next    ELSE UNCHANGED turnVars
  /\ IF part = "daemon"  THEN Daemon!Next  ELSE UNCHANGED daemonVars
  /\ IF part = "console" THEN Console!Next ELSE UNCHANGED consoleVars
  /\ IF part = "pty"     THEN Pty!Next     ELSE UNCHANGED ptyVars

\* What the modules ask for, of the part that moves.
Of(p, A) == part = p /\ A
Fairness ==
  /\ WF_syncVars(Of("sync", Sync!HelloOk)) /\ WF_syncVars(Of("sync", Sync!ConfigUpdate \/ Sync!SyncReceived))
  /\ SF_syncVars(Of("sync", Sync!HeartbeatRead)) /\ WF_syncVars(Of("sync", Sync!HeartbeatSend))
  /\ WF_syncVars(Of("sync", Sync!Install))
  /\ \A s \in Sync!Sessions : WF_syncVars(Of("sync", Sync!Reads(s)))
  /\ WF_pipeVars(Of("pipes", Pipes!Caller)) /\ WF_pipeVars(Of("pipes", Pipes!TimePasses))
  /\ WF_pipeVars(Of("pipes", Pipes!ChildReads))
  /\ WF_turnVars(Of("turn", Turn!Loop)) /\ WF_turnVars(Of("turn", Turn!Task))
  /\ \A c \in Callers : WF_daemonVars(Of("daemon", Daemon!Steps(c)))
  /\ \A p \in Daemon!Pids : WF_daemonVars(Of("daemon", Daemon!Bind(p)))
  /\ WF_consoleVars(Of("console", Console!TaskEnds))
  /\ WF_consoleVars(Of("console", Console!Draw \/ Console!Pending \/ Console!Refresh \/ Console!NoKey))
  /\ WF_ptyVars(Of("pty", Pty!Kill)) /\ WF_ptyVars(Of("pty", Pty!Watch))
  /\ WF_ptyVars(Of("pty", Pty!WatchEnds))

Spec == Init /\ [][Next]_vars /\ Fairness

-----------------------------------------------------------------------------
(* Properties: those of the part that moves, by what they are about *)

TypesOK ==
  CASE part = "sync"    -> Sync!TypeOK
    [] part = "pipes"   -> Pipes!TypeOK
    [] part = "turn"    -> Turn!TypeOK
    [] part = "daemon"  -> Daemon!TypeOK
    [] part = "console" -> Console!TypeOK
    [] part = "pty"     -> Pty!TypeOK

\* What is said to be installed is: what the hub lists of a client, and what a
\* push was answered about (master_hub.rs:1040).
InstalledAsSaid == part = "sync" => Sync!ClaimedIsInstalled /\ Sync!SyncedIsInstalled

\* A client that stays connected is shown online with what it has installed
\* (master_hub.rs:682).
LinkConverges == Sync!LinkConverges

\* Everything that holds up a run of a package, a command, a chat, a console or
\* a window comes to its end (skill_pkg.rs:1041, worker.rs:335,
\* teach_events.rs:1317, tui/mod.rs:334, pty.rs:156): RunIsAnswered,
\* CallerEnds, ChatIsFreed, KeysComeBack and ExitIsSeen of the modules.
Waits(i) ==
  CASE part = "daemon"               -> i \in Callers /\ Daemon!Waits(i)
    [] part = "pty"                  -> Pty!Gone(i)
    [] part = "turn"    /\ i = 1     -> turnBusy
    [] part = "console" /\ i = 1     -> busy # "none"
    [] part = "pipes"   /\ i = 1     -> Pipes!Begun
    [] OTHER                         -> FALSE
Served(i) ==
  CASE part = "daemon"  -> Daemon!Ended(i)
    [] part = "pty"     -> Pty!Cleared(i)
    [] part = "turn"    -> Turn!Freed
    [] part = "console" -> Console!Takes
    [] part = "pipes"   -> Pipes!Answered
    [] OTHER            -> FALSE
NothingHangs == \A i \in Callers \cup Pty!Sessions : Waits(i) ~> Served(i)

\* A cancel that comes in time is kept, and what was shown as cancelled stays
\* cancelled (teach_events.rs:462, 1317).
CancelIsKept ==
  [](part = "turn" => Turn!CancelIsHonoured) /\ Turn!CancelledStaysCancelled

\* There is one daemon, what ends leaves no process, and what is closed was
\* listed: runs with their reports, sessions in the terminal with their ends,
\* the sessions of the console (worker.rs:335, skill_pkg.rs:1041, pty.rs:285,
\* tui/mod.rs:786).
ProcessesAreOwned ==
  CASE part = "daemon"  -> Daemon!OneDaemon
    [] part = "pipes"   -> Pipes!AnsweredLeavesNoChild /\ Pipes!RunnerReportFits
    [] part = "pty"     -> Pty!SessionReclaimed /\ Pty!ToldOnce
    [] part = "console" -> Console!AllOnlyIfNone
    [] OTHER            -> TRUE

\* One daemon serves the commands (FIXES-FOR-ASTRA.md:18), which callers that
\* meet do not keep (worker.rs:335).
SameDaemon == part = "daemon" => Daemon!SameDaemon
=============================================================================
