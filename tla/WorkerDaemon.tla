---------------------------- MODULE WorkerDaemon ----------------------------
(***************************************************************************)
(* The persistent worker of one installation (src/src/worker.rs): the      *)
(* processes, the socket and pid files they are found by, and the command  *)
(* line processes that start, use and stop it.  Nothing orders two callers *)
(* of ensure_daemon.                                                       *)
(*                                                                         *)
(* A process id is never used again.  Definitions that start with Mutant   *)
(* are bugs, no part of the model.                                         *)
(***************************************************************************)
EXTENDS Naturals, FiniteSets

CONSTANTS Callers,    \* processes of the command line
          MaxPids, MaxDeaths   \* bounds

VARIABLES
  state,     \* pid |-> "none", "boot", "serves", "dead"
  busy,      \* pid |-> it is handling a command that takes its time
  sock,      \* pid that bound the socket file, 0 when there is none
  pidFile,   \* pid in worker.pid, 0 when there is none
  pc,        \* caller |-> where it is
  seen,      \* caller |-> the pid it read from the pid file
  overlap,   \* observation: two callers were under way, or one died
  deaths     \* bound: daemons and callers that have died

vars == <<state, busy, sock, pidFile, pc, seen, overlap, deaths>>

Pids  == 1..MaxPids
Alive == {p \in Pids : state[p] \in {"boot", "serves"}}

TypeOK ==
  /\ state \in [Pids -> {"none", "boot", "serves", "dead"}]
  /\ busy \in [Pids -> BOOLEAN]
  /\ sock \in 0..MaxPids /\ pidFile \in 0..MaxPids
  /\ pc \in [Callers -> {"idle", "status", "ping", "stop", "kill", "clean", "serve",
                         "note", "boot", "request", "done", "failed"}]
  /\ seen \in [Callers -> 0..MaxPids]
  /\ overlap \in BOOLEAN /\ deaths \in 0..MaxDeaths

Init ==
  /\ state = [p \in Pids |-> "none"] /\ busy = [p \in Pids |-> FALSE]
  /\ sock = 0 /\ pidFile = 0
  /\ pc = [c \in Callers |-> "idle"] /\ seen = [c \in Callers |-> 0]
  /\ overlap = FALSE /\ deaths = 0

\* daemon_status (worker.rs:290): running is a live process in the pid file,
\* whether or not the socket file is its own, or there at all.
Running(p) == p \in Alive

Goto(c, l) == pc' = [pc EXCEPT ![c] = l]
Under(l)   == \E c \in Callers : pc[c] = l
Files      == <<sock, pidFile>>
Procs      == <<state, busy>>

-----------------------------------------------------------------------------
(* Callers *)

\* A command that needs the daemon starts (daemon_request, worker.rs:540), or
\* one that stops it (daemon_stop, worker.rs:434).
Begin(c, how) ==
  /\ pc[c] \in {"idle", "done", "failed"}
  /\ \E p \in Pids : state[p] = "none"
  /\ Goto(c, how)
  /\ overlap' = (overlap \/ \E o \in Callers \ {c} : pc[o] \notin {"idle", "done", "failed"})
  /\ seen' = [seen EXCEPT ![c] = IF how = "stop" THEN pidFile ELSE 0]
  /\ UNCHANGED <<Procs, Files, deaths>>

\* ensure_daemon (worker.rs:498): a live process and a socket are asked for a
\* ping, a socket without a live process is removed.
Status(c) ==
  /\ pc[c] = "status"
  /\ IF Running(pidFile) /\ sock # 0
       THEN Goto(c, "ping") /\ UNCHANGED sock
       ELSE Goto(c, "serve") /\ sock' = 0
  /\ UNCHANGED <<Procs, pidFile, seen, overlap, deaths>>

\* The ping (worker.rs:501): the owner of the socket answers in turn, so a
\* busy one does not within three seconds, and is stopped.
PingAnswered(c) ==
  /\ pc[c] = "ping" /\ sock # 0 /\ state[sock] = "serves" /\ ~busy[sock]
  /\ Goto(c, "request")
  /\ UNCHANGED <<Procs, Files, seen, overlap, deaths>>

PingFails(c) ==
  /\ pc[c] = "ping"
  /\ sock # 0 => state[sock] # "serves" \/ busy[sock]
  /\ Goto(c, "stop")
  /\ seen' = [seen EXCEPT ![c] = pidFile]
  /\ UNCHANGED <<Procs, Files, overlap, deaths>>

\* daemon_stop (worker.rs:434): the shutdown request goes to the owner of the
\* socket, which obeys when it is not busy and removes the socket file.
StopAsks(c) ==
  /\ pc[c] = "stop"
  /\ Goto(c, "kill")
  /\ IF sock # 0 /\ state[sock] = "serves" /\ ~busy[sock]
       THEN state' = [state EXCEPT ![sock] = "dead"] /\ sock' = 0
       ELSE UNCHANGED <<state, sock>>
  /\ UNCHANGED <<busy, pidFile, seen, overlap, deaths>>

\* Then the process of the pid file read at the start is killed (worker.rs:466).
MutantKill(c) ==
  /\ pc[c] = "kill"
  /\ Goto(c, "clean")
  /\ UNCHANGED <<Procs, Files, seen, overlap, deaths>>
Kill(c) ==
  /\ pc[c] = "kill"
  /\ state' = IF seen[c] \in Alive THEN [state EXCEPT ![seen[c]] = "dead"] ELSE state
  /\ Goto(c, "clean")
  /\ UNCHANGED <<busy, Files, seen, overlap, deaths>>

\* Both files are removed, whosever they are by now (worker.rs:488).  A caller
\* whose ping failed goes on to start a daemon, one that was to stop it ends.
Clean(c) ==
  /\ pc[c] = "clean"
  /\ sock' = 0 /\ pidFile' = 0
  /\ \/ Goto(c, "serve")
     \/ Goto(c, "done")
  /\ UNCHANGED <<Procs, seen, overlap, deaths>>

\* daemon_serve (worker.rs:334): a live process of the pid file is enough;
\* otherwise the socket file is removed and a process spawned.
Serve(c) ==
  /\ pc[c] = "serve"
  /\ IF Running(pidFile)
       THEN Goto(c, "request") /\ UNCHANGED <<state, sock, seen>>
       ELSE \/ Goto(c, "failed") /\ UNCHANGED <<state, sock, seen>>   \* no process
            \/ \E p \in Pids :
                 /\ state[p] = "none" /\ \A q \in Pids : state[q] = "none" => p <= q
                 /\ state' = [state EXCEPT ![p] = "boot"]
                 /\ seen' = [seen EXCEPT ![c] = p]
                 /\ sock' = 0
                 /\ Goto(c, "note")
  /\ UNCHANGED <<busy, pidFile, overlap, deaths>>

\* The pid file is written (worker.rs:380).
NotePid(c) ==
  /\ pc[c] = "note"
  /\ pidFile' = seen[c]
  /\ Goto(c, "boot")
  /\ UNCHANGED <<Procs, sock, seen, overlap, deaths>>

\* The caller waits for any daemon to answer on the socket (worker.rs:384).
Booted(c) ==
  /\ pc[c] = "boot" /\ sock # 0 /\ state[sock] = "serves" /\ ~busy[sock]
  /\ Goto(c, "request")
  /\ UNCHANGED <<Procs, Files, seen, overlap, deaths>>

MutantBootTimesOut(c) ==
  /\ pc[c] = "boot" /\ pidFile = 0
  /\ Goto(c, "failed")
  /\ UNCHANGED <<Procs, Files, seen, overlap, deaths>>
BootTimesOut(c) ==
  /\ pc[c] = "boot"
  /\ Goto(c, "failed")
  /\ UNCHANGED <<Procs, Files, seen, overlap, deaths>>

\* daemon_request_raw (worker.rs:545): a command that keeps the daemon busy
\* until it is done, one that does not, or no daemon to be reached.
Request(c) ==
  /\ pc[c] = "request"
  /\ \/ /\ sock # 0 /\ state[sock] = "serves" /\ ~busy[sock]
        /\ Goto(c, "done")
        /\ busy' \in {busy, [busy EXCEPT ![sock] = TRUE]}
     \/ /\ Goto(c, "failed") /\ busy' = busy
  /\ UNCHANGED <<state, Files, seen, overlap, deaths>>

\* A caller's process ends on the way.
CallerDies(c) ==
  /\ pc[c] \notin {"idle", "done", "failed"} /\ deaths < MaxDeaths
  /\ Goto(c, "failed")
  /\ overlap' = TRUE /\ deaths' = deaths + 1
  /\ UNCHANGED <<Procs, Files, seen>>

-----------------------------------------------------------------------------
(* The daemon, python/cloakcli_worker/__main__.py:321 *)

\* main_serve: whatever socket file there is gives way to its own.
Bind(p) ==
  /\ state[p] = "boot"
  /\ state' = [state EXCEPT ![p] = "serves"]
  /\ sock' = p
  /\ UNCHANGED <<busy, pidFile, pc, seen, overlap, deaths>>

CommandDone(p) ==
  /\ state[p] = "serves" /\ busy[p]
  /\ busy' = [busy EXCEPT ![p] = FALSE]
  /\ UNCHANGED <<state, Files, pc, seen, overlap, deaths>>

\* It is killed from outside: the files stay.
DaemonDies(p) ==
  /\ p \in Alive /\ deaths < MaxDeaths
  /\ state' = [state EXCEPT ![p] = "dead"]
  /\ deaths' = deaths + 1
  /\ UNCHANGED <<busy, Files, pc, seen, overlap>>

Steps(c) == \/ Status(c) \/ PingAnswered(c) \/ PingFails(c)
            \/ StopAsks(c) \/ Kill(c) \/ Clean(c)
            \/ Serve(c) \/ NotePid(c) \/ Booted(c) \/ BootTimesOut(c) \/ Request(c)

Next ==
  \/ \E c \in Callers : \/ Begin(c, "status") \/ Begin(c, "stop")
                        \/ Steps(c) \/ CallerDies(c)
  \/ \E p \in Pids : Bind(p) \/ CommandDone(p) \/ DaemonDies(p)

Fairness == /\ \A c \in Callers : WF_vars(Steps(c))
            /\ \A p \in Pids : WF_vars(Bind(p))
Spec == Init /\ [][Next]_vars /\ Fairness

-----------------------------------------------------------------------------
(* Properties *)

\* As long as callers come one after the other and none dies on the way, there
\* is one daemon, and the two files lead to it: "browser open/list/close talk
\* to the same daemon across CLI processes" (FIXES-FOR-ASTRA.md:18).
OneDaemon ==
  ~overlap => /\ Cardinality(Alive) <= 1
              /\ \A p \in Alive : /\ ~Under("note") => pidFile = p
                                  /\ state[p] = "serves" => sock = p

\* A caller always comes to an end, whatever the others do to the files.
Waits(c)   == pc[c] = "status"
Ended(c)   == pc[c] \in {"done", "failed"}
CallerEnds == \A c \in Callers : Waits(c) ~> Ended(c)

\* "browser open/list/close talk to the same daemon across CLI processes"
\* (FIXES-FOR-ASTRA.md:18).  Two callers that both find none start one each:
\* the later takes the socket, and the earlier goes on with its browsers.
SameDaemon == \A p, q \in Alive : state[p] = "serves" /\ state[q] = "serves" => p = q
=============================================================================
