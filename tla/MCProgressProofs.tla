-------------------------- MODULE MCProgressProofs --------------------------
(***************************************************************************)
(* The parts in which somebody waits, for any number of callers, sessions, *)
(* processes and messages: what is said to be installed is, what ends      *)
(* leaves no process, a cancel is kept, and the variables keep their       *)
(* types.  Each part has an invariant of its own, kept by its steps; a     *)
(* behaviour of the composition moves one part and leaves the others as    *)
(* they begin, so all the invariants hold together.                        *)
(***************************************************************************)
EXTENDS MCProgress, FiniteSetTheorems, SequenceTheorems, TLAPS

-----------------------------------------------------------------------------
(* The worker daemon *)

\* A caller that is under way; while none has met another, or died, there is
\* one of them at a time,
Active(c) == pc[c] \notin {"idle", "done", "failed"}

\* at most one process, which the socket file and the pid file lead to, or
\* which the caller that spawned it is about to note; what a caller that stops
\* the daemon has read is still what the file says, and after the kill nothing
\* is left to be found.
OneAtATime ==
  /\ \A c, d \in Callers : Active(c) /\ Active(d) => c = d
  /\ \A p, q \in Daemon!Alive : p = q
  /\ \A p \in Daemon!Alive :
       /\ state[p] = "serves" => sock = p
       /\ pidFile = p \/ \E c \in Callers : pc[c] = "note" /\ seen[c] = p
  /\ \A c \in Callers :
       /\ pc[c] = "note" => \A p \in Daemon!Alive : p = seen[c]
       /\ pc[c] \in {"stop", "kill"} => seen[c] = pidFile
       /\ pc[c] = "clean" => Daemon!Alive = {}

DaemonInv == Daemon!TypeOK /\ (overlap \/ OneAtATime)

LEMMA DaemonInit == Daemon!Init => DaemonInv
<1> SUFFICES ASSUME Daemon!Init PROVE DaemonInv
  OBVIOUS
<1> USE DEF Daemon!Init
<1>1. 0 \in 0..MaxPids /\ 0 \in 0..MaxDeaths
  BY ProgressAssumption
<1>2. Daemon!TypeOK
  BY <1>1, Zenon DEF Daemon!TypeOK
<1>3. OneAtATime
  BY DEF OneAtATime, Active, Daemon!Alive
<1> QED
  BY <1>2, <1>3 DEF DaemonInv

\* The types, step by step.
LEMMA DaemonTyped ==
  ASSUME Daemon!TypeOK, Daemon!Next
  PROVE  Daemon!TypeOK'
<1> USE DEF Daemon!TypeOK, Daemon!Procs, Daemon!Files, Daemon!Goto
<1>0. /\ MaxPids \in Nat /\ MaxDeaths \in Nat
      /\ 0 \in 0..MaxPids /\ \A p \in Daemon!Pids : p \in 0..MaxPids
  BY ProgressAssumption DEF Daemon!Pids
<1>1. ASSUME NEW c \in Callers, Daemon!Begin(c, "status") \/ Daemon!Begin(c, "stop")
      PROVE  Daemon!TypeOK'
  BY <1>0, <1>1 DEF Daemon!Begin
<1>2. ASSUME NEW c \in Callers, Daemon!CallerDies(c)
      PROVE  Daemon!TypeOK'
  BY <1>0, <1>2 DEF Daemon!CallerDies
<1>3. ASSUME NEW c \in Callers, Daemon!Steps(c)
      PROVE  Daemon!TypeOK'
  <2>1. CASE Daemon!Status(c)
    BY <1>0, <2>1 DEF Daemon!Status
  <2>2. CASE Daemon!PingAnswered(c) \/ Daemon!Booted(c) \/ Daemon!BootTimesOut(c)
    BY <2>2 DEF Daemon!PingAnswered, Daemon!Booted, Daemon!BootTimesOut
  <2>3. CASE Daemon!PingFails(c)
    BY <2>3 DEF Daemon!PingFails
  <2>4. CASE Daemon!StopAsks(c)
    BY <1>0, <2>4 DEF Daemon!StopAsks
  <2>5. CASE Daemon!Kill(c)
    BY <2>5 DEF Daemon!Kill
  <2>6. CASE Daemon!Clean(c)
    BY <1>0, <2>6 DEF Daemon!Clean
  <2>7. CASE Daemon!Serve(c)
    BY <1>0, <2>7 DEF Daemon!Serve
  <2>8. CASE Daemon!NotePid(c)
    BY <2>8 DEF Daemon!NotePid
  <2>9. CASE Daemon!Request(c)
    BY <2>9 DEF Daemon!Request
  <2> QED
    BY <1>3, <2>1, <2>2, <2>3, <2>4, <2>5, <2>6, <2>7, <2>8, <2>9 DEF Daemon!Steps
<1>4. ASSUME NEW p \in Daemon!Pids, Daemon!Bind(p) \/ Daemon!CommandDone(p) \/ Daemon!DaemonDies(p)
      PROVE  Daemon!TypeOK'
  <2>1. CASE Daemon!Bind(p)
    BY <1>0, <2>1 DEF Daemon!Bind
  <2>2. CASE Daemon!CommandDone(p)
    BY <2>2 DEF Daemon!CommandDone
  <2>3. CASE Daemon!DaemonDies(p)
    BY <1>0, <2>3 DEF Daemon!DaemonDies
  <2> QED
    BY <1>4, <2>1, <2>2, <2>3
<1> QED
  BY <1>1, <1>2, <1>3, <1>4 DEF Daemon!Next

\* As long as nobody meets anybody, the files and the caller under way keep
\* track of the one process.
LEMMA DaemonStep ==
  ASSUME DaemonInv, Daemon!Next
  PROVE  DaemonInv'
<1>1. Daemon!TypeOK /\ Daemon!TypeOK'
  BY DaemonTyped DEF DaemonInv
<1>2. CASE overlap'
  BY <1>1, <1>2 DEF DaemonInv
<1>3. CASE ~overlap'
  <2> SUFFICES OneAtATime'
    BY <1>1 DEF DaemonInv
  <2>1. overlap \in BOOLEAN /\ (overlap => overlap')
    BY <1>1 DEF Daemon!TypeOK, Daemon!Next, Daemon!Begin, Daemon!Steps, Daemon!Status, Daemon!PingAnswered,
         Daemon!PingFails, Daemon!StopAsks, Daemon!Kill, Daemon!Clean, Daemon!Serve, Daemon!NotePid,
         Daemon!Booted, Daemon!BootTimesOut, Daemon!Request, Daemon!CallerDies, Daemon!Bind,
         Daemon!CommandDone, Daemon!DaemonDies
  <2>2. OneAtATime
    BY <1>3, <2>1 DEF DaemonInv
  <2> USE <1>3, <2>2 DEF OneAtATime, Daemon!Alive, Active, Daemon!TypeOK, Daemon!Procs, Daemon!Files, Daemon!Goto
  <2>3. ASSUME NEW c \in Callers, Daemon!Begin(c, "status") \/ Daemon!Begin(c, "stop")
        PROVE  OneAtATime'
    BY <1>1, <2>3 DEF Daemon!Begin
  <2>4. ASSUME NEW c \in Callers, Daemon!CallerDies(c)
        PROVE  OneAtATime'
    BY <2>4 DEF Daemon!CallerDies
  <2>5. ASSUME NEW c \in Callers, Daemon!Steps(c)
        PROVE  OneAtATime'
    <3>1. CASE Daemon!Status(c)
      BY <1>1, <3>1 DEF Daemon!Status, Daemon!Running
    <3>2. CASE Daemon!PingAnswered(c) \/ Daemon!Booted(c) \/ Daemon!BootTimesOut(c)
      BY <1>1, <3>2 DEF Daemon!PingAnswered, Daemon!Booted, Daemon!BootTimesOut
    <3>3. CASE Daemon!PingFails(c)
      BY <1>1, <3>3 DEF Daemon!PingFails
    <3>4. CASE Daemon!StopAsks(c)
      BY <1>1, <3>4 DEF Daemon!StopAsks
    <3>5. CASE Daemon!Kill(c)
      BY <1>1, <3>5 DEF Daemon!Kill
    <3>6. CASE Daemon!Clean(c)
      BY <1>1, <3>6 DEF Daemon!Clean
    <3>7. CASE Daemon!Serve(c)
      BY <1>1, <3>7 DEF Daemon!Serve, Daemon!Running
    <3>8. CASE Daemon!NotePid(c)
      BY <1>1, <3>8 DEF Daemon!NotePid
    <3>9. CASE Daemon!Request(c)
      BY <1>1, <3>9 DEF Daemon!Request
    <3> QED
      BY <2>5, <3>1, <3>2, <3>3, <3>4, <3>5, <3>6, <3>7, <3>8, <3>9 DEF Daemon!Steps
  <2>6. ASSUME NEW p \in Daemon!Pids, Daemon!Bind(p)
        PROVE  OneAtATime'
    BY <1>1, <2>6 DEF Daemon!Bind
  <2>7. ASSUME NEW p \in Daemon!Pids, Daemon!CommandDone(p) \/ Daemon!DaemonDies(p)
        PROVE  OneAtATime'
    BY <1>1, <2>7 DEF Daemon!CommandDone, Daemon!DaemonDies
  <2> QED
    BY <2>3, <2>4, <2>5, <2>6, <2>7 DEF Daemon!Next
<1> QED
  BY <1>2, <1>3

\* A set in which all are equal has at most one element.
LEMMA AtMostOne ==
  ASSUME NEW S, \A p, q \in S : p = q
  PROVE  Cardinality(S) <= 1
<1>1. CASE S = {}
  BY <1>1, FS_EmptySet
<1>2. CASE S # {}
  <2>1. PICK p \in S : TRUE
    BY <1>2
  <2>2. S = {p}
    BY <2>1
  <2>3. Cardinality({p}) = 1
    BY FS_Singleton, Zenon
  <2> QED
    BY <2>2, <2>3
<1> QED
  BY <1>1, <1>2

LEMMA DaemonMeans == DaemonInv => Daemon!OneDaemon
<1> SUFFICES ASSUME DaemonInv, ~overlap PROVE Daemon!OneDaemon
  BY DEF Daemon!OneDaemon
<1>1. OneAtATime
  BY DEF DaemonInv
<1>2. Daemon!Cardinality(Daemon!Alive) <= 1
  <2>1. Cardinality(Daemon!Alive) <= 1
    BY <1>1, AtMostOne DEF OneAtATime
  <2> QED
    BY <2>1 DEF Cardinality, Daemon!Cardinality
<1> QED
  BY <1>1, <1>2 DEF OneAtATime, Daemon!OneDaemon, Daemon!Under

-----------------------------------------------------------------------------
(* The process that runs a package *)

\* What a runner's caller has not answered it has not read; its process, once
\* ended by itself, has printed everything, and no caller that has answered
\* leaves one.
PipesInv ==
  /\ Pipes!TypeOK /\ input \in Nat /\ output \in Nat
  /\ parent = "answered" => child # "runs"
  /\ parent = "idle" => taken = 0 /\ printed = 0 /\ sent = 0 /\ got = 0 /\ child = "none" /\ runResult = "none"
  /\ child = "exited" => printed = output
  /\ kind = "runner" =>
       /\ parent \notin {"read", "close"}
       /\ parent # "answered" => taken = 0 /\ runResult = "none"
       /\ runResult = "ok" => output <= Cap /\ taken = output

LEMMA PipesInit == Pipes!Init => PipesInv
<1> SUFFICES ASSUME Pipes!Init PROVE PipesInv
  OBVIOUS
<1>1. 0 \in 0..0 /\ 0 - 0 <= Cap
  BY ProgressAssumption
<1>2. Pipes!TypeOK
  <2>1. input \in Inputs \cup {0} /\ output \in Outputs \cup {0}
    BY DEF Pipes!Init
  <2> QED
    BY <1>1, <2>1, Zenon DEF Pipes!Init, Pipes!TypeOK, Pipes!Kinds, Pipes!Scripts
<1> QED
  BY <1>2 DEF Pipes!Init, PipesInv

LEMMA PipesStep ==
  ASSUME PipesInv, Pipes!Next
  PROVE  PipesInv'
<1> USE DEF PipesInv, Pipes!TypeOK, Pipes!fixed
<1>1. Cap \in Nat /\ Inputs \subseteq Nat /\ Outputs \subseteq Nat
  BY ProgressAssumption
<1>2. ASSUME NEW k \in Pipes!Kinds, NEW s \in Pipes!Scripts, NEW i \in Inputs, NEW o \in Outputs, Pipes!Start(k, s, i, o)
      PROVE  PipesInv'
  <2>1. i \in Nat /\ o \in Nat /\ 0 \in 0..i /\ 0 \in 0..o /\ 0 \in 0..0 /\ 0 - 0 <= Cap
    BY <1>1
  <2>2. /\ sent = 0 /\ got = 0 /\ printed = 0 /\ taken = 0
        /\ UNCHANGED <<sent, got, printed, taken, runCancel, late, runResult>>
        /\ parent' = "write" /\ child' = "runs" /\ parent = "idle"
        /\ kind' = k /\ script' = s /\ input' = i /\ output' = o
    BY <1>2 DEF Pipes!Start
  <2>3. Pipes!TypeOK'
    BY <2>1, <2>2, Zenon
  <2> QED
    BY <2>1, <2>2, <2>3
<1>3. CASE Pipes!ChildReads \/ Pipes!ChildPrints \/ Pipes!ChildExits
  BY <1>1, <1>3 DEF Pipes!Child, Pipes!ChildReads, Pipes!ChildPrints, Pipes!ChildExits
<1>4. CASE Pipes!Cancel \/ Pipes!TimePasses
  BY <1>4 DEF Pipes!Cancel, Pipes!TimePasses
<1>5. CASE Pipes!Write \/ Pipes!Written \/ Pipes!WriteFails
  BY <1>1, <1>5 DEF Pipes!Write, Pipes!Written, Pipes!WriteFails, Pipes!Answer
<1>6. CASE Pipes!RunnerCancelled \/ Pipes!RunnerExited \/ Pipes!RunnerLate
  BY <1>1, <1>6 DEF Pipes!RunnerCancelled, Pipes!RunnerExited, Pipes!RunnerLate, Pipes!Answer
<1>7. CASE Pipes!OneshotReads \/ Pipes!OneshotFails \/ Pipes!Killer \/ Pipes!Shutdown
  BY <1>1, <1>7 DEF Pipes!OneshotReads, Pipes!OneshotFails, Pipes!Killer, Pipes!Shutdown
<1> QED
  BY <1>2, <1>3, <1>4, <1>5, <1>6, <1>7 DEF Pipes!Next, Pipes!Caller

LEMMA PipesMeans == PipesInv => Pipes!TypeOK /\ Pipes!AnsweredLeavesNoChild /\ Pipes!RunnerReportFits
BY DEF PipesInv, Pipes!AnsweredLeavesNoChild, Pipes!RunnerReportFits

-----------------------------------------------------------------------------
(* The terminal of the desktop *)

Slots   == [session : 0..MaxSessions, pid : Processes \cup {"none"}, baseline : Processes \cup {"none"},
            seen : SUBSET Processes]
Endings == [on : BOOLEAN, extra : SUBSET Processes, by : {"none", "main", "watcher"}]
Process == [at : {"unused", "tui", "worker", "browser", "zombie", "dead"}, of : 0..MaxSessions,
            grouped : BOOLEAN, child : BOOLEAN]

\* The slot holds the last session or none; a session is ended where it is, by
\* somebody, with all that was seen of it among what is to be signalled.
SlotInv ==
  /\ slot \in Slots /\ ending \in Endings
  /\ starts \in 0..MaxSessions /\ watchers \in 0..starts
  /\ slot = Pty!NoSession \/ (slot.session = starts /\ starts # 0 /\ slot.pid \in Processes)
  /\ ~ending.on => ending = Pty!NotEnding
  /\ ending.on => /\ slot # Pty!NoSession /\ slot.seen \subseteq ending.extra
                  /\ ending.by = "watcher" => watchers # 0

\* A process of the session in the slot is in the group, or was seen, or had
\* left before any look; what is alive of an earlier one had left, so that what
\* it starts is not in a group either.
ProcInv ==
  /\ proc \in [Processes -> Process] /\ workerPid \in Processes \cup {"none"} /\ unseen \subseteq Processes
  /\ \A p \in Processes :
       /\ proc[p].child = proc[p].grouped /\ proc[p].of \in 0..starts
       /\ proc[p].at = "unused" => proc[p].of = 0
       /\ Pty!Alive(p) /\ proc[p].of # 0 =>
            IF proc[p].of = slot.session
            THEN proc[p].grouped \/ p \in unseen \cup slot.seen \cup ending.extra
            ELSE ~proc[p].grouped /\ p \in unseen

\* No end has been told of the session in the slot, nor of one to come.
ToldInv ==
  /\ told \in [Pty!Sessions -> 0..1]
  /\ \A s \in Pty!Sessions : s = slot.session \/ s > starts => told[s] = 0

PtyInv == SlotInv /\ ProcInv /\ ToldInv

LEMMA PtyInit == Pty!Init => PtyInv
<1> SUFFICES ASSUME Pty!Init PROVE PtyInv
  OBVIOUS
<1> USE DEF Pty!Init, Pty!NoPid
<1>1. 0 \in 0..MaxSessions /\ 0 \in 0..0
  BY ProgressAssumption
<1>2. SlotInv
  BY <1>1 DEF SlotInv, Slots, Endings, Pty!NoSession, Pty!NotEnding
<1>3. ProcInv
  BY <1>1 DEF ProcInv, Process, Pty!Unused, Pty!Alive
<1>4. ToldInv
  BY DEF ToldInv
<1> QED
  BY <1>2, <1>3, <1>4 DEF PtyInv

\* What is seen of a session are processes.
LEMMA SeenAreProcesses ==
  ASSUME PtyInv, slot # Pty!NoSession
  PROVE  Pty!Seen \subseteq Processes /\ slot.seen \subseteq Pty!Seen
BY DEF PtyInv, SlotInv, Slots, ProcInv, Pty!Seen, Pty!Group, Pty!Descended, Pty!Noted, Pty!NoPid

LEMMA PtyStep ==
  ASSUME PtyInv, Pty!Next
  PROVE  PtyInv'
<1> USE DEF PtyInv
<1>0. MaxSessions \in Nat
  BY ProgressAssumption
<1>1. ASSUME NEW p \in Processes, NEW q \in Processes, NEW k \in {"worker", "browser"}, Pty!Fork(p, k, q)
      PROVE  PtyInv'
  <2> USE <1>1 DEF Pty!Fork
  <2>1. SlotInv' /\ ToldInv'
    BY DEF SlotInv, ToldInv
  <2>2. ProcInv'
    BY DEF ProcInv, Process, Pty!Alive
  <2> QED
    BY <2>1, <2>2
<1>2. ASSUME NEW p \in Processes, Pty!Outside(p) \/ Pty!Note(p) \/ Pty!Leave(p) \/ Pty!Exit(p)
      PROVE  PtyInv'
  <2>1. SlotInv' /\ ToldInv'
    BY <1>2 DEF SlotInv, ToldInv, Pty!Outside, Pty!Note, Pty!Leave, Pty!Exit
  <2>2. CASE Pty!Outside(p)
    BY <2>1, <2>2 DEF ProcInv, Process, Pty!Alive, Pty!Outside
  <2>3. CASE Pty!Note(p)
    BY <2>1, <2>3 DEF ProcInv, Process, Pty!Alive, Pty!Note
  <2>4. CASE Pty!Leave(p)
    BY <2>1, <2>4 DEF ProcInv, Process, Pty!Alive, Pty!Leave
  <2>5. CASE Pty!Exit(p)
    BY <2>1, <2>5 DEF ProcInv, Process, Pty!Alive, Pty!Exit, Pty!Ended
  <2> QED
    BY <1>2, <2>2, <2>3, <2>4, <2>5
<1>3. ASSUME NEW p \in Processes, Pty!Start(p)
      PROVE  PtyInv'
  <2> USE <1>3 DEF Pty!Start
  <2>1. SlotInv'
    BY <1>0 DEF SlotInv, Slots, ProcInv
  <2>2. ProcInv'
    <3>1. /\ starts + 1 \in 0..MaxSessions /\ starts + 1 \in 0..(starts + 1) /\ starts + 1 \notin 0..starts
          /\ 0..starts \subseteq 0..(starts + 1)
      BY <1>0 DEF SlotInv
    <3>2. proc' \in [Processes -> Process]
      BY <3>1 DEF ProcInv, Process
    <3>3. \A q \in Processes \ {p} : proc'[q] = proc[q]
      BY DEF ProcInv
    <3>4. proc'[p] = [at |-> "tui", of |-> starts + 1, grouped |-> TRUE, child |-> TRUE]
      BY DEF ProcInv
    <3>5. slot.session = 0 /\ ending.extra = {} /\ slot.seen = {}
      BY DEF SlotInv, Pty!NoSession, Pty!NotEnding
    <3>6. slot'.session = starts + 1 /\ starts' = starts + 1 /\ UNCHANGED <<workerPid, unseen>>
      OBVIOUS
    <3>7. ASSUME NEW q \in Processes
          PROVE  /\ proc'[q].child = proc'[q].grouped /\ proc'[q].of \in 0..starts'
                 /\ proc'[q].at = "unused" => proc'[q].of = 0
                 /\ proc'[q].at \in {"tui", "worker", "browser"} /\ proc'[q].of # 0 =>
                      IF proc'[q].of = slot'.session THEN proc'[q].grouped
                                                     ELSE ~proc'[q].grouped /\ q \in unseen
      <4>1. CASE q = p
        <5>1. /\ proc'[q].at = "tui" /\ proc'[q].of = starts + 1
              /\ proc'[q].grouped = TRUE /\ proc'[q].child = TRUE
          BY <3>4, <4>1
        <5> QED
          BY <3>1, <3>6, <5>1
      <4>2. CASE q # p
        <5>1. proc'[q] = proc[q]
          BY <3>3, <4>2
        <5>2. proc[q].of # starts + 1
          BY <3>1 DEF ProcInv
        <5> QED
          BY <3>1, <3>5, <3>6, <5>1, <5>2 DEF ProcInv, Pty!Alive
      <4> QED
        BY <4>1, <4>2
    <3> HIDE <1>3 DEF Pty!Start
    <3> QED
      BY <3>2, <3>6, <3>7 DEF ProcInv, Pty!Alive
  <2>3. ToldInv'
    BY <1>0 DEF ToldInv, SlotInv, Pty!Sessions
  <2> QED
    BY <2>1, <2>2, <2>3
<1>4. ASSUME NEW by \in {"main", "watcher"}, Pty!Terminate(by), by = "watcher" => watchers # 0
      PROVE  PtyInv'
  <2> USE <1>4 DEF Pty!Terminate
  <2>1. SlotInv'
    BY SeenAreProcesses DEF SlotInv, Endings
  <2>2. ProcInv'
    <3>1. \A p \in Processes :
            proc'[p] = proc[p] \/ \E at \in {"zombie", "dead"} : proc'[p] = [proc[p] EXCEPT !.at = at]
      BY DEF ProcInv, Pty!Ended
    <3>2. proc' \in [Processes -> Process]
      BY DEF ProcInv, Process, Pty!Ended
    <3>3. \A p \in Processes :
            /\ proc'[p].child = proc[p].child /\ proc'[p].grouped = proc[p].grouped /\ proc'[p].of = proc[p].of
            /\ proc'[p].at = "unused" => proc[p].at = "unused"
            /\ Pty!Alive(p)' => Pty!Alive(p)
      BY <3>1 DEF ProcInv, Process, Pty!Alive
    <3>4. ending.extra \subseteq ending'.extra /\ UNCHANGED <<workerPid, unseen, slot, starts>>
      BY DEF SlotInv, Pty!NotEnding
    <3> QED
      BY <3>2, <3>3, <3>4 DEF ProcInv
  <2>3. ToldInv'
    BY DEF ToldInv
  <2> QED
    BY <2>1, <2>2, <2>3
<1>5. CASE Pty!Kill
  <2> USE <1>5 DEF Pty!Kill
  <2>1. SlotInv'
    BY <1>0 DEF SlotInv, Slots, Endings, Pty!NoSession, Pty!NotEnding, Pty!NoPid
  <2>2. ProcInv'
    BY DEF ProcInv, Process, SlotInv, Pty!Alive, Pty!Signalled, Pty!Group, Pty!NoSession
  <2>3. ToldInv'
    BY <1>0 DEF ToldInv, SlotInv, Pty!Sessions, Pty!Tell, Pty!NoSession
  <2> QED
    BY <2>1, <2>2, <2>3
<1>6. CASE Pty!Watch
  <2>1. CASE Pty!Terminate("watcher")
    BY <1>4, <1>6, <2>1 DEF Pty!Watch, SlotInv
  <2>2. CASE /\ slot # Pty!NoSession /\ slot' = [slot EXCEPT !.seen = Pty!Seen] /\ ~ending.on
             /\ UNCHANGED <<proc, workerPid, ending, watchers, starts, told, unseen>>
    <3>1. SlotInv'
      BY <2>2, SeenAreProcesses DEF SlotInv, Slots, Pty!NoSession
    <3>2. ProcInv' /\ ToldInv'
      BY <2>2, SeenAreProcesses DEF ProcInv, ToldInv, SlotInv, Slots, Pty!Alive
    <3> QED
      BY <3>1, <3>2
  <2> QED
    BY <1>6, <2>1, <2>2 DEF Pty!Watch
<1>7. CASE Pty!WatchEnds
  BY <1>7 DEF Pty!WatchEnds, SlotInv, ProcInv, ToldInv, Pty!Alive
<1> QED
  BY <1>1, <1>2, <1>3, <1>4, <1>5, <1>6, <1>7 DEF Pty!Next, Pty!Stop

LEMMA PtyMeans == PtyInv => Pty!TypeOK /\ Pty!SessionReclaimed /\ Pty!ToldOnce
<1> SUFFICES ASSUME PtyInv PROVE Pty!TypeOK /\ Pty!SessionReclaimed /\ Pty!ToldOnce
  OBVIOUS
<1> USE DEF PtyInv
<1>1. Pty!TypeOK
  BY ProgressAssumption DEF SlotInv, ProcInv, ToldInv, Slots, Endings, Process, Pty!TypeOK, Pty!NoPid
<1>2. Pty!SessionReclaimed
  BY DEF ProcInv, Pty!SessionReclaimed
<1>3. Pty!ToldOnce
  BY DEF ToldInv, Pty!ToldOnce
<1> QED
  BY <1>1, <1>2, <1>3

-----------------------------------------------------------------------------
(* The console *)

\* A session leaves a list, and one that is not in it joins it.
LEMMA ListLoses ==
  ASSUME NEW l \in Console!Lists, NEW s
  PROVE  Console!Without(l, s) \in Console!Lists
<1>1. CASE s \notin Console!ToSet(l)
  BY <1>1 DEF Console!Without
<1>2. CASE s \in Console!ToSet(l)
  <2> DEFINE i == CHOOSE i \in DOMAIN l : l[i] = s
             u == SubSeq(l, 1, i - 1)
             v == SubSeq(l, i + 1, Len(l))
             r == u \o v
  <2>1. l \in Seq(Browsers) /\ DOMAIN l = 1..Len(l) /\ Len(l) \in Nat
        /\ \A a, b \in 1..Len(l) : l[a] = l[b] => a = b
    BY DEF Console!Lists, Console!IsInjective
  <2>2. i \in 1..Len(l)
    BY <1>2, <2>1 DEF Console!ToSet
  <2>3. Console!Without(l, s) = r
    BY <1>2 DEF Console!Without, Console!RemoveAt
  <2> HIDE DEF i
  <2>4. /\ r \in Seq(Browsers) /\ Len(r) = Len(l) - 1
        /\ \A j \in 1..Len(r) : r[j] = IF j < i THEN l[j] ELSE l[j + 1]
    <3>1. /\ u \in Seq(Browsers) /\ Len(u) = i - 1
          /\ \A j \in 1..(i - 1) : u[j] = l[j]
      BY <2>1, <2>2, SubSeqProperties
    <3>2. /\ v \in Seq(Browsers) /\ Len(v) = Len(l) - i
          /\ \A j \in 1..(Len(l) - i) : v[j] = l[i + j]
      <4>1. i + 1 \in Int /\ Len(l) \in Int /\ \A j \in (i + 1)..Len(l) : l[j] \in Browsers
        BY <2>1, <2>2
      <4>2. /\ v \in Seq(Browsers) /\ Len(v) = (IF i + 1 <= Len(l) THEN Len(l) - (i + 1) + 1 ELSE 0)
            /\ \A j \in 1..(Len(l) - (i + 1) + 1) : v[j] = l[(i + 1) + j - 1]
        BY <4>1, SubSeqProperties
      <4>3. Len(l) - (i + 1) + 1 = Len(l) - i /\ \A j \in Nat : (i + 1) + j - 1 = i + j
        BY <2>1, <2>2
      <4>4. (IF i + 1 <= Len(l) THEN Len(l) - (i + 1) + 1 ELSE 0) = Len(l) - i
        <5>1. \A n \in Nat : \A k \in 1..n : (IF k + 1 <= n THEN n - (k + 1) + 1 ELSE 0) = n - k
          OBVIOUS
        <5> QED
          BY <2>1, <2>2, <5>1
      <4>5. \A j \in 1..(Len(l) - i) : j \in Nat
        BY <2>1, <2>2
      <4> HIDE DEF v
      <4> QED
        BY <4>2, <4>3, <4>4, <4>5
    <3> HIDE DEF u, v
    <3>3. /\ r \in Seq(Browsers) /\ Len(r) = Len(u) + Len(v)
          /\ \A j \in 1..(Len(u) + Len(v)) : r[j] = IF j <= Len(u) THEN u[j] ELSE v[j - Len(u)]
      BY <3>1, <3>2, ConcatProperties
    <3> HIDE DEF r
    <3> QED
      BY <2>1, <2>2, <3>1, <3>2, <3>3
  <2> HIDE DEF r
  <2>5. \A a, b \in 1..Len(r) : r[a] = r[b] => a = b
    BY <2>1, <2>2, <2>4
  <2> QED
    BY <2>3, <2>4, <2>5 DEF Console!Lists, Console!IsInjective
<1> QED
  BY <1>1, <1>2

LEMMA ListGains ==
  ASSUME NEW l \in Console!Lists, NEW s \in Browsers \ Console!ToSet(l)
  PROVE  Append(l, s) \in Console!Lists
<1>1. l \in Seq(Browsers) /\ \A a, b \in 1..Len(l) : l[a] = l[b] => a = b
  BY DEF Console!Lists, Console!IsInjective
<1>2. \A a \in 1..Len(l) : l[a] # s
  BY <1>1 DEF Console!ToSet
<1>3. /\ Append(l, s) \in Seq(Browsers) /\ Len(Append(l, s)) = Len(l) + 1
      /\ DOMAIN Append(l, s) = 1..(Len(l) + 1)
  BY <1>1
<1>4. \A a, b \in 1..(Len(l) + 1) : Append(l, s)[a] = Append(l, s)[b] => a = b
  BY <1>1, <1>2
<1> QED
  BY <1>3, <1>4 DEF Console!Lists, Console!IsInjective

\* A row is selected as soon as there are rows, and of a list without a
\* selected row all sessions may be closed: there are none in it.
ConsoleInv ==
  /\ Console!TypeOK
  /\ sel = 0 => rows = <<>>
  /\ hit.target = "all" => hit.rows = <<>>

LEMMA NoRows == <<>> \in Console!Lists /\ Len(<<>>) = 0
BY DEF Console!Lists, Console!IsInjective

LEMMA ConsoleInit == Console!Init => ConsoleInv
<1> SUFFICES ASSUME Console!Init PROVE ConsoleInv
  OBVIOUS
<1>1. open \in Console!Lists
  <2>1. CASE open = <<>>
    BY <2>1, NoRows
  <2>2. CASE \E s \in Browsers : open = << s >>
    BY <2>2 DEF Console!Lists, Console!IsInjective
  <2> QED
    BY <2>1, <2>2 DEF Console!Init
<1> QED
  BY <1>1, NoRows DEF Console!Init, ConsoleInv, Console!TypeOK, Console!Kinds, Console!NoHit

\* A list that is shown has a selected row, if it has any.
LEMMA ShowSound ==
  ASSUME NEW l \in Console!Lists, sel \in Nat, Console!Show(l)
  PROVE  /\ rows' \in Console!Lists /\ sel' \in 0..Len(rows')
         /\ sel' = 0 => rows' = <<>>
<1>1. l \in Seq(Browsers) /\ Len(l) \in Nat /\ (l # <<>> => Len(l) # 0)
  BY DEF Console!Lists
<1> QED
  BY <1>1 DEF Console!Show, Console!Ensured

LEMMA ConsoleStep ==
  ASSUME ConsoleInv, Console!Next
  PROVE  ConsoleInv'
<1> USE DEF ConsoleInv, Console!TypeOK
<1>1. Len(rows) \in Nat /\ sel \in Nat /\ Console!Found \in Console!Lists
  BY NoRows DEF Console!Lists, Console!Found
<1>2. CASE Console!Other
  <2>1. open' \in Console!Lists /\ up' \in BOOLEAN
    BY <1>2, ListLoses, ListGains, NoRows DEF Console!Other
  <2> QED
    BY <1>2, <2>1 DEF Console!Other
<1>3. CASE Console!TaskEnds
  BY <1>1, <1>3, NoRows DEF Console!TaskEnds
<1>4. CASE Console!Draw
  BY <1>4, NoRows DEF Console!Draw, Console!NoHit
<1>5. CASE Console!Pending
  <2>1. CASE task.at = "ended"
    <3>1. /\ rows' \in Console!Lists /\ sel' \in 0..Len(rows') /\ (sel' = 0 => rows' = <<>>)
          /\ busy' \in Console!Kinds \cup {"none"} /\ task'.at \in {"none", "runs"} /\ task'.rows = <<>>
      BY <1>1, <1>5, <2>1, ShowSound
         DEF Console!Pending, Console!Apply, Console!Begins, Console!Quiets, Console!Kinds
    <3> QED
      BY <1>5, <3>1, NoRows DEF Console!Pending
  <2>2. CASE task.at # "ended"
    BY <1>5, <2>2 DEF Console!Pending
  <2> QED
    BY <2>1, <2>2
<1>6. CASE Console!Refresh
  <2>1. rows' \in Console!Lists /\ sel' \in 0..Len(rows') /\ (sel' = 0 => rows' = <<>>)
    BY <1>1, <1>6, ShowSound DEF Console!Refresh
  <2> QED
    BY <1>6, <2>1 DEF Console!Refresh
<1>7. CASE Console!NoKey \/ Console!Quit
  BY <1>7 DEF Console!NoKey, Console!Quit, Console!Pressed
<1>8. CASE Console!Start
  BY <1>8, NoRows DEF Console!Start, Console!Free, Console!Pressed, Console!Begins, Console!Kinds
<1>9. CASE Console!Move
  <2>1. \A n \in Nat \ {0} : \A m \in Nat : m % n \in 0..(n - 1)
    OBVIOUS
  <2>2. rows # <<>> /\ rows \in Seq(Browsers) /\ Len(rows) \in Nat \ {0}
    BY <1>1, <1>9 DEF Console!Move, Console!Lists
  <2>3. sel % Len(rows) \in 0..(Len(rows) - 1)
    BY <1>1, <2>1, <2>2
  <2>4. sel + Len(rows) - 2 \in Nat
    BY <1>1, <2>2
  <2>5. (sel + Len(rows) - 2) % Len(rows) \in 0..(Len(rows) - 1)
    BY <2>1, <2>2, <2>4
  <2>6. sel' \in 1..Len(rows) /\ UNCHANGED rows
    BY <1>9, <2>2, <2>3, <2>5 DEF Console!Move
  <2> QED
    BY <1>9, <2>2, <2>6 DEF Console!Move, Console!Free, Console!Pressed
<1>10. CASE Console!OpenBrowser
  <2>1. /\ open' \in Console!Lists /\ rows' \in Console!Lists /\ sel' \in 0..Len(rows')
        /\ sel' = 0 => rows' = <<>>
    BY <1>1, <1>10, ListGains, ShowSound DEF Console!OpenBrowser
  <2> QED
    BY <1>10, <2>1 DEF Console!OpenBrowser, Console!Free, Console!Pressed
<1>11. CASE Console!Close
  <2>1. open' \in Console!Lists
    BY <1>11, ListLoses, NoRows DEF Console!Close
  <2>2. rows' \in Console!Lists /\ sel' \in 0..Len(rows') /\ (sel' = 0 => rows' = <<>>)
    BY <1>1, <1>11, <2>1, ShowSound DEF Console!Close
  <2>3. /\ hit'.target \in Browsers \cup {"all"} /\ hit'.rows = rows
        /\ hit'.target = "all" => sel = 0
    BY <1>1, <1>11, ProgressAssumption DEF Console!Close, Console!Target, Console!Lists
  <2> QED
    BY <1>11, <2>1, <2>2, <2>3 DEF Console!Close, Console!Free, Console!Pressed
<1> QED
  BY <1>2, <1>3, <1>4, <1>5, <1>6, <1>7, <1>8, <1>9, <1>10, <1>11 DEF Console!Next

LEMMA ConsoleMeans == ConsoleInv => Console!TypeOK /\ Console!AllOnlyIfNone
BY DEF ConsoleInv, Console!AllOnlyIfNone

-----------------------------------------------------------------------------
(* A turn of the teach chat *)

Bounds == [turns : 0..MaxTurns, cancels : 0..MaxCancels, starts : 0..MaxStarts]

\* The requests that are named are those of turns that have begun: a turn that
\* has not sent its own is not the last request, nor what a cancel is after.
NamedInv ==
  /\ Turn!TypeOK /\ bound \in Bounds
  /\ last <= bound.turns /\ target <= bound.turns /\ snap <= bound.turns
  /\ turnTask \in Turn!Working => bound.turns # 0
  /\ turnTask \in {"begin", "plan", "apply", "dispatch"} => last # bound.turns /\ target # bound.turns

\* A cancel that came in time holds as long as the turn may look at it; while
\* the loop handles one, it holds or came too late.
HeldInv ==
  /\ turnAsked = "inTime" =>
       /\ turnTask \in {"plan", "post", "wait", "end"} => cancel
       /\ turnTask \notin {"begin", "apply", "dispatch"}
  /\ turnLoop \in {"cancel", "report", "join"} =>
       /\ turnTask \in {"plan", "post", "wait", "end"} => cancel \/ turnAsked = "late"
       /\ turnTask \in {"begin", "apply", "dispatch"} => turnAsked = "late"

\* A request that is told cancelled, or is about to be, while its turn goes on
\* was cancelled after it was sent.
ToldSoInv ==
  turnTask \in {"post", "wait", "end"} /\ (turnTold[bound.turns] = "cancelled" \/ target = bound.turns) => cancel

\* The hub knows the requests of turns that have sent them.  One that is shown
\* as running and that the worker may still answer is that of the turn, which
\* waits for it; none is left when the chat is closed.
OpenInv ==
  \A r \in Turn!Requests :
    /\ waiter[r] # "none" =>
         /\ r <= bound.turns
         /\ turnTask \in {"begin", "plan", "apply", "dispatch"} => r # bound.turns
    /\ waiter[r] = "waits" /\ turnTold[r] = "running" =>
         /\ r = bound.turns /\ turnTask \in {"wait", "end"}
         /\ turnLoop = "closed" => turnAsked = "late"

TurnInv == NamedInv /\ HeldInv /\ ToldSoInv /\ OpenInv

LEMMA TurnInit == Turn!Init => TurnInv
<1> SUFFICES ASSUME Turn!Init PROVE TurnInv
  OBVIOUS
<1> USE DEF Turn!Init
<1>1. /\ 0 \in 0..MaxTurns /\ 0 \in 0..MaxCancels /\ 1 \in 0..MaxStarts /\ 0 \in 0..0
      /\ bound \in Bounds /\ bound.turns = 0 /\ 0 <= 0
  BY ProgressAssumption DEF Bounds
<1>2. Turn!TypeOK
  BY <1>1 DEF Turn!TypeOK, Turn!Working, Turn!Requests, Bounds
<1>3. NamedInv
  BY <1>1, <1>2 DEF NamedInv, Turn!Working
<1> QED
  BY <1>3 DEF TurnInv, HeldInv, ToldSoInv, OpenInv, Turn!Requests

LEMMA TurnStep ==
  ASSUME TurnInv, Turn!Next
  PROVE  TurnInv'
<1> USE DEF TurnInv, Turn!session, Turn!Mine
<1>0. /\ MaxTurns \in Nat /\ MaxCancels \in Nat /\ MaxStarts \in Nat
      /\ Turn!Requests = 1..MaxTurns
      /\ last \in 0..MaxTurns /\ target \in 0..MaxTurns /\ snap \in 0..MaxTurns
      /\ bound = [turns |-> bound.turns, cancels |-> bound.cancels, starts |-> bound.starts]
      /\ bound.turns \in 0..MaxTurns /\ bound.cancels \in 0..MaxCancels /\ bound.starts \in 0..MaxStarts
  BY ProgressAssumption DEF Turn!Requests, NamedInv, Turn!TypeOK, Bounds
<1>1. ASSUME NEW a \in Replies, Turn!Send(a)
      PROVE  TurnInv'
  <2>1. NamedInv'
    <3>1. /\ bound.turns < MaxTurns /\ bound' = [bound EXCEPT !.turns = @ + 1] /\ turnTask' = "begin"
          /\ answer' = a /\ turnBusy' = TRUE /\ turnAsked' = "no"
          /\ UNCHANGED <<turnLoop, stop, cancel, phase, last, result, waiter, turnTold, target, snap>>
      BY <1>1 DEF Turn!Send
    <3>2. bound' \in Bounds /\ bound'.turns = bound.turns + 1
      BY <1>0, <3>1 DEF NamedInv, Bounds
    <3>3. Turn!TypeOK'
      BY <1>0, <3>1, <3>2 DEF NamedInv, Turn!TypeOK, Bounds, Turn!Working
    <3>4. /\ last' <= bound'.turns /\ target' <= bound'.turns /\ snap' <= bound'.turns
          /\ bound'.turns # 0 /\ last' # bound'.turns /\ target' # bound'.turns
      BY <1>0, <3>1, <3>2 DEF NamedInv
    <3> QED
      BY <3>2, <3>3, <3>4 DEF NamedInv
  <2>2. HeldInv' /\ ToldSoInv'
    BY <1>0, <1>1 DEF HeldInv, ToldSoInv, NamedInv, Turn!TypeOK, Bounds, Turn!Working, Turn!Send
  <2>3. OpenInv'
    BY <1>0, <1>1 DEF OpenInv, HeldInv, NamedInv, Turn!TypeOK, Bounds, Turn!Working, Turn!Send
  <2> QED
    BY <2>1, <2>2, <2>3
<1>2. ASSUME NEW s \in BOOLEAN, Turn!CancelInflight(s)
      PROVE  TurnInv'
  <2>1. NamedInv'
    BY <1>0, <1>2 DEF NamedInv, Turn!TypeOK, Bounds, Turn!Working, Turn!CancelInflight
  <2>2. HeldInv' /\ ToldSoInv'
    BY <1>0, <1>2 DEF HeldInv, ToldSoInv, NamedInv, Turn!TypeOK, Bounds, Turn!Working, Turn!CancelInflight
  <2>3. OpenInv'
    BY <1>0, <1>2 DEF OpenInv, HeldInv, NamedInv, Turn!TypeOK, Bounds, Turn!Working, Turn!CancelInflight
  <2> QED
    BY <2>1, <2>2, <2>3
<1>3. ASSUME NEW r \in Turn!Requests, Turn!WorkerAnswers(r)
      PROVE  TurnInv'
  <2>1. NamedInv'
    BY <1>0, <1>3 DEF NamedInv, Turn!TypeOK, Bounds, Turn!Working, Turn!WorkerAnswers
  <2>2. HeldInv' /\ ToldSoInv'
    BY <1>0, <1>3 DEF HeldInv, ToldSoInv, NamedInv, Turn!TypeOK, Bounds, Turn!Working, Turn!WorkerAnswers
  <2>3. OpenInv'
    BY <1>0, <1>3 DEF OpenInv, HeldInv, NamedInv, Turn!TypeOK, Bounds, Turn!Working, Turn!WorkerAnswers
  <2> QED
    BY <2>1, <2>2, <2>3
<1>4. CASE Turn!Confirm
  <2>1. NamedInv'
    BY <1>0, <1>4 DEF NamedInv, Turn!TypeOK, Bounds, Turn!Working, Turn!Confirm
  <2>2. HeldInv' /\ ToldSoInv'
    BY <1>0, <1>4 DEF HeldInv, ToldSoInv, NamedInv, Turn!TypeOK, Bounds, Turn!Working, Turn!Confirm
  <2>3. OpenInv'
    BY <1>0, <1>4 DEF OpenInv, HeldInv, NamedInv, Turn!TypeOK, Bounds, Turn!Working, Turn!Confirm
  <2> QED
    BY <2>1, <2>2, <2>3
<1>5. CASE Turn!Restart
  <2>1. NamedInv'
    <3>1. /\ bound'.turns = bound.turns /\ bound'.cancels = bound.cancels
          /\ bound' = [turns |-> bound.turns, cancels |-> bound.cancels, starts |-> bound.starts + 1]
          /\ bound.starts + 1 \in 0..MaxStarts
      BY <1>0, <1>5 DEF Turn!Restart
    <3>2. Turn!TypeOK'
      <4>1. /\ turnLoop' = "run" /\ stop' = FALSE /\ turnTask' = "none" /\ turnBusy' = FALSE
            /\ cancel' = FALSE /\ phase' = "chat" /\ last' = snap /\ result' = "none" /\ target' = 0 /\ turnAsked' = "no"
            /\ UNCHANGED <<answer, turnTold, snap>>
            /\ waiter' \in [Turn!Requests -> {"none", "waits", "ok", "failed", "cancelled"}]
        BY <1>5 DEF Turn!Restart
      <4>2. 0 \in 0..MaxTurns
        BY <1>0
      <4> QED
        BY <1>0, <3>1, <4>1, <4>2 DEF NamedInv, Turn!TypeOK, Turn!Working
    <3>3. 0 <= bound.turns /\ snap <= bound.turns /\ bound' \in Bounds
      BY <1>0, <3>1 DEF NamedInv, Bounds
    <3> QED
      BY <1>5, <3>1, <3>2, <3>3 DEF NamedInv, Turn!Working, Turn!Restart
  <2>2. HeldInv' /\ ToldSoInv'
    BY <1>0, <1>5 DEF HeldInv, ToldSoInv, NamedInv, Turn!TypeOK, Bounds, Turn!Working, Turn!Restart
  <2>3. OpenInv'
    BY <1>0, <1>5 DEF OpenInv, HeldInv, NamedInv, Turn!TypeOK, Bounds, Turn!Working, Turn!Restart
  <2> QED
    BY <2>1, <2>2, <2>3
<1>6. CASE Turn!Tick
  <2>1. NamedInv'
    BY <1>0, <1>6 DEF NamedInv, Turn!TypeOK, Bounds, Turn!Working, Turn!Tick
  <2>2. HeldInv' /\ ToldSoInv'
    BY <1>0, <1>6 DEF HeldInv, ToldSoInv, NamedInv, Turn!TypeOK, Bounds, Turn!Working, Turn!Tick
  <2>3. OpenInv'
    BY <1>0, <1>6 DEF OpenInv, HeldInv, NamedInv, Turn!TypeOK, Bounds, Turn!Working, Turn!Tick
  <2> QED
    BY <2>1, <2>2, <2>3
<1>7. CASE Turn!CancelAtHub
  <2>1. NamedInv'
    BY <1>0, <1>7 DEF NamedInv, Turn!TypeOK, Bounds, Turn!Working, Turn!CancelAtHub
  <2>2. HeldInv' /\ ToldSoInv'
    BY <1>0, <1>7 DEF HeldInv, ToldSoInv, NamedInv, Turn!TypeOK, Bounds, Turn!Working, Turn!CancelAtHub
  <2>3. OpenInv'
    BY <1>0, <1>7 DEF OpenInv, HeldInv, NamedInv, Turn!TypeOK, Bounds, Turn!Working, Turn!CancelAtHub
  <2> QED
    BY <2>1, <2>2, <2>3
<1>8. CASE Turn!ReportCancel
  <2>1. NamedInv'
    BY <1>0, <1>8 DEF NamedInv, Turn!TypeOK, Bounds, Turn!Working, Turn!Tell, Turn!ReportCancel
  <2>2. HeldInv' /\ ToldSoInv'
    BY <1>0, <1>8 DEF HeldInv, ToldSoInv, NamedInv, Turn!TypeOK, Bounds, Turn!Working, Turn!Tell, Turn!ReportCancel
  <2>3. OpenInv'
    BY <1>0, <1>8 DEF OpenInv, HeldInv, NamedInv, Turn!TypeOK, Bounds, Turn!Working, Turn!Tell, Turn!ReportCancel
  <2> QED
    BY <2>1, <2>2, <2>3
<1>9. CASE Turn!Joined
  <2>1. NamedInv'
    BY <1>0, <1>9 DEF NamedInv, Turn!TypeOK, Bounds, Turn!Working, Turn!Joined
  <2>2. HeldInv' /\ ToldSoInv'
    BY <1>0, <1>9 DEF HeldInv, ToldSoInv, NamedInv, Turn!TypeOK, Bounds, Turn!Working, Turn!Joined
  <2>3. OpenInv'
    BY <1>0, <1>9 DEF OpenInv, HeldInv, NamedInv, Turn!TypeOK, Bounds, Turn!Working, Turn!Joined
  <2> QED
    BY <2>1, <2>2, <2>3
<1>10. CASE Turn!Begin
  <2>1. NamedInv'
    BY <1>0, <1>10 DEF NamedInv, Turn!TypeOK, Bounds, Turn!Working, Turn!Runs, Turn!Step, Turn!Begin
  <2>2. HeldInv' /\ ToldSoInv'
    BY <1>0, <1>10 DEF HeldInv, ToldSoInv, NamedInv, Turn!TypeOK, Bounds, Turn!Working, Turn!Runs, Turn!Step, Turn!Begin
  <2>3. OpenInv'
    BY <1>0, <1>10 DEF OpenInv, HeldInv, NamedInv, Turn!TypeOK, Bounds, Turn!Working, Turn!Runs, Turn!Step, Turn!Begin
  <2> QED
    BY <2>1, <2>2, <2>3
<1>11. CASE Turn!PlanCancelled
  <2>1. NamedInv'
    BY <1>0, <1>11 DEF NamedInv, Turn!TypeOK, Bounds, Turn!Working, Turn!Runs, Turn!Step, Turn!PlanCancelled
  <2>2. HeldInv' /\ ToldSoInv'
    BY <1>0, <1>11 DEF HeldInv, ToldSoInv, NamedInv, Turn!TypeOK, Bounds, Turn!Working, Turn!Runs, Turn!Step, Turn!PlanCancelled
  <2>3. OpenInv'
    BY <1>0, <1>11 DEF OpenInv, HeldInv, NamedInv, Turn!TypeOK, Bounds, Turn!Working, Turn!Runs, Turn!Step, Turn!PlanCancelled
  <2> QED
    BY <2>1, <2>2, <2>3
<1>12. CASE Turn!PlanFails
  <2>1. NamedInv'
    BY <1>0, <1>12 DEF NamedInv, Turn!TypeOK, Bounds, Turn!Working, Turn!Runs, Turn!Step, Turn!PlanFails
  <2>2. HeldInv' /\ ToldSoInv'
    BY <1>0, <1>12 DEF HeldInv, ToldSoInv, NamedInv, Turn!TypeOK, Bounds, Turn!Working, Turn!Runs, Turn!Step, Turn!PlanFails
  <2>3. OpenInv'
    BY <1>0, <1>12 DEF OpenInv, HeldInv, NamedInv, Turn!TypeOK, Bounds, Turn!Working, Turn!Runs, Turn!Step, Turn!PlanFails
  <2> QED
    BY <2>1, <2>2, <2>3
<1>13. CASE Turn!Planned
  <2>1. NamedInv'
    BY <1>0, <1>13 DEF NamedInv, Turn!TypeOK, Bounds, Turn!Working, Turn!Runs, Turn!Step, Turn!Planned
  <2>2. HeldInv' /\ ToldSoInv'
    BY <1>0, <1>13 DEF HeldInv, ToldSoInv, NamedInv, Turn!TypeOK, Bounds, Turn!Working, Turn!Runs, Turn!Step, Turn!Planned
  <2>3. OpenInv'
    BY <1>0, <1>13 DEF OpenInv, HeldInv, NamedInv, Turn!TypeOK, Bounds, Turn!Working, Turn!Runs, Turn!Step, Turn!Planned
  <2> QED
    BY <2>1, <2>2, <2>3
<1>14. CASE Turn!Apply
  <2>1. NamedInv'
    BY <1>0, <1>14 DEF NamedInv, Turn!TypeOK, Bounds, Turn!Working, Turn!Runs, Turn!Step, Turn!Apply
  <2>2. HeldInv' /\ ToldSoInv'
    BY <1>0, <1>14 DEF HeldInv, ToldSoInv, NamedInv, Turn!TypeOK, Bounds, Turn!Working, Turn!Runs, Turn!Step, Turn!Apply
  <2>3. OpenInv'
    BY <1>0, <1>14 DEF OpenInv, HeldInv, NamedInv, Turn!TypeOK, Bounds, Turn!Working, Turn!Runs, Turn!Step, Turn!Apply
  <2> QED
    BY <2>1, <2>2, <2>3
<1>15. CASE Turn!Dispatch
  <2>0. /\ turnTask = "dispatch" /\ turnTask' = "post" /\ bound' = bound /\ bound.turns \in Turn!Requests
        /\ turnTold' = [turnTold EXCEPT ![bound.turns] = "running"]
        /\ UNCHANGED <<turnLoop, stop, target, turnAsked, answer, turnBusy, result, waiter>>
        /\ last' = bound.turns /\ snap' = bound.turns /\ phase' = "acting" /\ cancel' = FALSE
    BY <1>0, <1>15 DEF NamedInv, Turn!Working, Turn!Runs, Turn!Step, Turn!Tell, Turn!Dispatch
  <2>1. NamedInv'
    <3>1. Turn!TypeOK'
      BY <1>0, <2>0 DEF NamedInv, Turn!TypeOK, Turn!Working
    <3> QED
      BY <1>0, <2>0, <3>1 DEF NamedInv, Turn!Working
  <2>2. HeldInv' /\ ToldSoInv'
    BY <1>0, <1>15 DEF HeldInv, ToldSoInv, NamedInv, Turn!TypeOK, Bounds, Turn!Working, Turn!Runs, Turn!Step, Turn!Tell, Turn!Dispatch
  <2>3. OpenInv'
    BY <1>0, <2>0 DEF OpenInv, NamedInv, Turn!TypeOK
  <2> QED
    BY <2>1, <2>2, <2>3
<1>16. CASE Turn!Post
  <2>1. NamedInv'
    BY <1>0, <1>16 DEF NamedInv, Turn!TypeOK, Bounds, Turn!Working, Turn!Runs, Turn!Step, Turn!Post
  <2>2. HeldInv' /\ ToldSoInv'
    BY <1>0, <1>16 DEF HeldInv, ToldSoInv, NamedInv, Turn!TypeOK, Bounds, Turn!Working, Turn!Runs, Turn!Step, Turn!Post
  <2>3. OpenInv'
    BY <1>0, <1>16 DEF OpenInv, HeldInv, NamedInv, Turn!TypeOK, Bounds, Turn!Working, Turn!Runs, Turn!Step, Turn!Post
  <2> QED
    BY <2>1, <2>2, <2>3
<1>17. CASE Turn!Answered
  <2>1. NamedInv'
    BY <1>0, <1>17 DEF NamedInv, Turn!TypeOK, Bounds, Turn!Working, Turn!Runs, Turn!Step, Turn!Answered
  <2>2. HeldInv' /\ ToldSoInv'
    BY <1>0, <1>17 DEF HeldInv, ToldSoInv, NamedInv, Turn!TypeOK, Bounds, Turn!Working, Turn!Runs, Turn!Step, Turn!Answered
  <2>3. OpenInv'
    BY <1>0, <1>17 DEF OpenInv, HeldInv, NamedInv, Turn!TypeOK, Bounds, Turn!Working, Turn!Runs, Turn!Step, Turn!Answered
  <2> QED
    BY <2>1, <2>2, <2>3
<1>18. CASE Turn!SeesCancel
  <2>1. NamedInv'
    BY <1>0, <1>18 DEF NamedInv, Turn!TypeOK, Bounds, Turn!Working, Turn!Runs, Turn!Step, Turn!SeesCancel
  <2>2. HeldInv' /\ ToldSoInv'
    BY <1>0, <1>18 DEF HeldInv, ToldSoInv, NamedInv, Turn!TypeOK, Bounds, Turn!Working, Turn!Runs, Turn!Step, Turn!SeesCancel
  <2>3. OpenInv'
    BY <1>0, <1>18 DEF OpenInv, HeldInv, NamedInv, Turn!TypeOK, Bounds, Turn!Working, Turn!Runs, Turn!Step, Turn!SeesCancel
  <2> QED
    BY <2>1, <2>2, <2>3
<1>19. CASE Turn!TimesOut
  <2>1. NamedInv'
    BY <1>0, <1>19 DEF NamedInv, Turn!TypeOK, Bounds, Turn!Working, Turn!Runs, Turn!Step, Turn!TimesOut
  <2>2. HeldInv' /\ ToldSoInv'
    BY <1>0, <1>19 DEF HeldInv, ToldSoInv, NamedInv, Turn!TypeOK, Bounds, Turn!Working, Turn!Runs, Turn!Step, Turn!TimesOut
  <2>3. OpenInv'
    BY <1>0, <1>19 DEF OpenInv, HeldInv, NamedInv, Turn!TypeOK, Bounds, Turn!Working, Turn!Runs, Turn!Step, Turn!TimesOut
  <2> QED
    BY <2>1, <2>2, <2>3
<1>20. CASE Turn!End
  <2>1. NamedInv'
    BY <1>0, <1>20 DEF NamedInv, Turn!TypeOK, Bounds, Turn!Working, Turn!Runs, Turn!Step, Turn!Tell, Turn!End
  <2>2. HeldInv' /\ ToldSoInv'
    BY <1>0, <1>20 DEF HeldInv, ToldSoInv, NamedInv, Turn!TypeOK, Bounds, Turn!Working, Turn!Runs, Turn!Step, Turn!Tell, Turn!End
  <2>3. OpenInv'
    BY <1>0, <1>20 DEF OpenInv, HeldInv, NamedInv, Turn!TypeOK, Bounds, Turn!Working, Turn!Runs, Turn!Step, Turn!Tell, Turn!End
  <2> QED
    BY <2>1, <2>2, <2>3
<1> QED
  BY <1>1, <1>2, <1>3, <1>4, <1>5, <1>6, <1>7, <1>8, <1>9, <1>10, <1>11, <1>12, <1>13, <1>14, <1>15, <1>16, <1>17, <1>18, <1>19, <1>20 DEF Turn!Next, Turn!Loop, Turn!Task

LEMMA TurnMeans == TurnInv => Turn!TypeOK /\ Turn!CancelIsHonoured
BY DEF TurnInv, NamedInv, HeldInv, OpenInv, Turn!CancelIsHonoured

\* Only the end of a turn reports a request done, and not when it was cancelled.
LEMMA CancelledStays ==
  ASSUME TurnInv, Turn!Next, NEW r \in Turn!Requests, turnTold[r] = "cancelled"
  PROVE  turnTold'[r] # "done"
<1> USE DEF TurnInv, Turn!Mine, Turn!session
<1>0. turnTold \in [Turn!Requests -> {"none", "running", "done", "failed", "cancelled"}]
  BY DEF NamedInv, Turn!TypeOK
<1>1. CASE Turn!End
  <2>1. turnTask = "end" /\ (r = bound.turns => cancel)
    BY <1>1 DEF ToldSoInv, Turn!End, Turn!Step
  <2> QED
    BY <1>0, <1>1, <2>1 DEF Turn!End, Turn!Tell
<1>2. CASE Turn!Dispatch \/ Turn!ReportCancel
  BY <1>0, <1>2 DEF Turn!Dispatch, Turn!ReportCancel, Turn!Tell
<1>3. CASE UNCHANGED turnTold
  BY <1>3
<1> QED
  BY <1>1, <1>2, <1>3 DEF Turn!Next, Turn!Send, Turn!CancelInflight, Turn!Confirm, Turn!Restart, Turn!Loop, Turn!Tick,
       Turn!CancelAtHub, Turn!Joined, Turn!Task, Turn!Runs, Turn!Begin, Turn!PlanCancelled, Turn!PlanFails,
       Turn!Planned, Turn!Apply, Turn!Post, Turn!Answered, Turn!SeesCancel, Turn!TimesOut, Turn!WorkerAnswers

-----------------------------------------------------------------------------
(* The sync of packages: installs run side by side and overwrite each      *)
(* other's index, and an answer may come late, on an old session, or be    *)
(* taken by another push                                                   *)

\* A push resolves to a published package.
LEMMA SyncSizes == MaxLinks \in Nat /\ MaxRevision \in Nat \ {0} /\ Wants \in [Pushes -> Digests]
BY ProgressAssumption

Revisions == 0..MaxRevision

\* A list of what is installed, an acknowledgement, and what travels on a
\* session: all of it speaks of packages that are in the client's cache.
Claims == [Skills -> cache \cup {Nil}]
Wanted == {Wants[p] : p \in Pushes}
Acks   == {a \in [rid : Pushes, digest : Wanted, ok : BOOLEAN] :
             a.digest = Wants[a.rid] /\ (a.ok => a.digest \in cache)}

UpMessages == [type : {"hello"}, list : Claims]
         \cup [type : {"heartbeat"}, rev : Revisions, list : Claims]
         \cup [type : {"config_ack"}, rev : Revisions]
         \cup [type : {"ack"}, ack : Acks]
DownMessages == [type : {"hello_ok", "config_update"}, rev : Revisions]
           \cup {m \in [type : {"skill_sync"}, rid : Pushes, digest : Wanted] : m.digest = Wants[m.rid]}

Stage == [rid : Pushes, digest : Wanted, sess : Sync!Sessions, ok : BOOLEAN,
          pc : {"check", "rename", "load", "save", "ack"}, idx : Claims]

\* A task past the rename, and one that will answer with a success, has its
\* package in the cache; the index it has read names cached packages only.
TaskOK(t) ==
  /\ t \in Stage /\ t.digest = Wants[t.rid]
  /\ t.pc \in {"load", "save"} => t.digest \in cache
  /\ t.pc = "ack" /\ t.ok => t.digest \in cache

ClientHasIt ==
  /\ cur \in Sync!Sessions \cup {0} /\ sessions \in 0..MaxLinks /\ cur \in {0, sessions}
  /\ ready \in BOOLEAN /\ observed \in Revisions
  /\ cache \subseteq Digests /\ index \in Claims
  /\ beat # Nil => beat \in [observed : Revisions, list : Claims]
  /\ \A t \in tasks : TaskOK(t)

LinksCarryIt ==
  /\ upLink \in [Sync!Sessions -> Seq(UpMessages)]
  /\ downLink \in [Sync!Sessions -> Seq(DownMessages)]

HubSaysSo ==
  /\ conn \subseteq Sync!Sessions /\ handle \in Sync!Sessions \cup {0}
  /\ hub \in [online : BOOLEAN, observed : Revisions, installed : Claims, slot : Acks \cup {Nil}]
  /\ desired \in 1..MaxRevision
  /\ push \in [Pushes -> {"idle", "waits", "ok", "failed"}]
  /\ \A p \in Pushes : push[p] = "ok" => Wants[p] \in cache

SyncInv == ClientHasIt /\ LinksCarryIt /\ HubSaysSo

\* Nothing is said before the first connection.
LEMMA SyncInit == Sync!Init => SyncInv
<1> SUFFICES ASSUME Sync!Init PROVE SyncInv
  OBVIOUS
<1> USE SyncSizes DEF Sync!Init, Revisions
<1>1. Sync!Nothing \in Claims
  BY DEF Sync!Nothing, Claims
<1>2. ClientHasIt
  <2>1. 0 \in 0..MaxLinks /\ 0 \in Revisions
    OBVIOUS
  <2> QED
    BY <1>1, <2>1, Zenon DEF ClientHasIt
<1>3. LinksCarryIt
  BY DEF LinksCarryIt
<1>4. HubSaysSo
  BY <1>1 DEF HubSaysSo
<1> QED
  BY <1>2, <1>3, <1>4 DEF SyncInv

\* What is true of a cache stays true of a larger one.
LEMMA LargerCache ==
  ASSUME cache \subseteq cache'
  PROVE  Claims \subseteq Claims' /\ Acks \subseteq Acks' /\ UpMessages \subseteq UpMessages'
<1>1. Claims \subseteq Claims'
  BY DEF Claims
<1>2. Acks \subseteq Acks'
  BY DEF Acks
<1> QED
  BY <1>1, <1>2 DEF UpMessages

\* While the cache stays as it is, so do the sets that depend on it.
LEMMA SameCache ==
  ASSUME UNCHANGED cache
  PROVE  /\ UNCHANGED <<Claims, Acks, UpMessages>>
         /\ \A t : TaskOK(t) => TaskOK(t)'
BY DEF Claims, Acks, UpMessages, TaskOK, Stage

\* The first message of a queue, and one more message at its end.
LEMMA Queues ==
  ASSUME NEW S, NEW q \in Seq(S)
  PROVE  /\ q # << >> => Head(q) \in S /\ Tail(q) \in Seq(S)
         /\ \A m \in S : Append(q, m) \in Seq(S)
OBVIOUS

\* What the client says keeps its link well typed,
LEMMA SaySound ==
  ASSUME LinksCarryIt, NEW s, NEW m \in UpMessages, Sync!Say(s, m)
  PROVE  upLink' \in [Sync!Sessions -> Seq(UpMessages)]
<1>1. \A t \in Sync!Sessions : Append(upLink[t], m) \in Seq(UpMessages)
  BY Queues DEF LinksCarryIt
<1> QED
  BY <1>1 DEF LinksCarryIt, Sync!Say

\* and so does what the hub sends.
LEMMA SendsSound ==
  ASSUME LinksCarryIt, NEW s, NEW m \in DownMessages, Sync!Sends(s, m)
  PROVE  downLink' \in [Sync!Sessions -> Seq(DownMessages)]
<1>1. \A t \in Sync!Sessions : Append(downLink[t], m) \in Seq(DownMessages)
  BY Queues DEF LinksCarryIt
<1> QED
  BY <1>1 DEF LinksCarryIt, Sync!Sends

\* A message the client takes is one of the hub's.
LEMMA HeardSound ==
  ASSUME ClientHasIt, LinksCarryIt, NEW type, Sync!Heard(type), Sync!Taken
  PROVE  /\ cur \in Sync!Sessions /\ Head(downLink[cur]) \in DownMessages /\ Head(downLink[cur]).type = type
         /\ downLink' \in [Sync!Sessions -> Seq(DownMessages)]
<1>1. cur \in Sync!Sessions /\ downLink[cur] \in Seq(DownMessages) /\ downLink[cur] # << >>
  BY DEF ClientHasIt, LinksCarryIt, Sync!Heard
<1>2. Head(downLink[cur]) \in DownMessages /\ Tail(downLink[cur]) \in Seq(DownMessages)
  BY <1>1, Queues
<1> QED
  BY <1>1, <1>2 DEF LinksCarryIt, Sync!Heard, Sync!Taken

\* The client's loop.
LEMMA ClientSound ==
  ASSUME SyncInv, Sync!Connect \/ Sync!Client \/ Sync!Break
  PROVE  SyncInv'
<1> USE DEF SyncInv, Sync!hubVars
<1>1. UNCHANGED cache
  BY DEF Sync!Connect, Sync!Client, Sync!HelloOk, Sync!HeartbeatRead, Sync!HeartbeatSend, Sync!ConfigUpdate, Sync!SyncReceived, Sync!Break
<1>2. /\ UNCHANGED <<Claims, Acks, UpMessages>>
      /\ \A t : TaskOK(t) => TaskOK(t)'
  BY <1>1, SameCache
<1>3. CASE Sync!Connect
  <2> USE <1>3 DEF Sync!Connect
  <2>1. sessions + 1 \in Sync!Sessions /\ sessions + 1 \in 0..MaxLinks /\ 0 \in Revisions
    BY SyncSizes DEF ClientHasIt, Sync!Sessions, Revisions
  <2>2. [type |-> "hello", list |-> index] \in UpMessages
    BY DEF UpMessages, ClientHasIt
  <2>3. LinksCarryIt'
    BY <1>2, <2>2, SaySound DEF LinksCarryIt
  <2>4. ClientHasIt'
    BY <1>2, <2>1 DEF ClientHasIt
  <2>5. HubSaysSo'
    BY <1>1, <1>2, <2>1 DEF HubSaysSo
  <2> QED
    BY <2>3, <2>4, <2>5
<1>4. CASE Sync!HelloOk \/ Sync!ConfigUpdate
  <2> DEFINE m == Head(downLink[cur])
  <2>1. Sync!Taken /\ (Sync!Heard("hello_ok") \/ Sync!Heard("config_update"))
    BY <1>4 DEF Sync!HelloOk, Sync!ConfigUpdate
  <2>2. m \in DownMessages /\ m.type \in {"hello_ok", "config_update"} /\ downLink' \in [Sync!Sessions -> Seq(DownMessages)]
    BY <2>1, HeardSound
  <2>3. m.rev \in Revisions
    BY <2>2 DEF DownMessages
  <2>4. /\ UNCHANGED <<cur, sessions, beat, index, tasks, conn, handle, hub, desired, push>>
        /\ ready' \in {ready, TRUE}
        /\ observed' = m.rev /\ Sync!Say(cur, Sync!Msg("config_ack", m.rev))
    BY <1>4 DEF Sync!HelloOk, Sync!ConfigUpdate
  <2>5. Sync!Msg("config_ack", m.rev) \in UpMessages
    BY <2>3 DEF UpMessages, Sync!Msg
  <2> HIDE DEF m
  <2>6. LinksCarryIt'
    BY <1>2, <2>2, <2>4, <2>5, SaySound DEF LinksCarryIt
  <2>7. ClientHasIt'
    BY <1>1, <1>2, <2>3, <2>4 DEF ClientHasIt
  <2>8. HubSaysSo'
    BY <1>1, <1>2, <2>4 DEF HubSaysSo
  <2> QED
    BY <2>6, <2>7, <2>8
<1>5. CASE Sync!HeartbeatRead
  <2> USE <1>5 DEF Sync!HeartbeatRead
  <2>1. ClientHasIt'
    BY <1>2 DEF ClientHasIt
  <2>2. LinksCarryIt' /\ HubSaysSo'
    BY <1>1, <1>2 DEF LinksCarryIt, HubSaysSo
  <2> QED
    BY <2>1, <2>2
<1>6. CASE Sync!HeartbeatSend
  <2> DEFINE m == [type |-> "heartbeat", rev |-> beat.observed, list |-> beat.list]
  <2>1. m \in UpMessages /\ Sync!Say(cur, m)
    BY <1>6 DEF Sync!HeartbeatSend, UpMessages, ClientHasIt
  <2>2. /\ UNCHANGED <<cur, sessions, ready, observed, index, tasks, downLink, conn, handle, hub, desired, push>>
        /\ beat' = Nil
    BY <1>6 DEF Sync!HeartbeatSend
  <2>3. LinksCarryIt'
    BY <1>2, <2>1, <2>2, SaySound DEF LinksCarryIt
  <2>4. ClientHasIt'
    BY <1>1, <1>2, <2>2 DEF ClientHasIt
  <2>5. HubSaysSo'
    BY <1>1, <1>2, <2>2 DEF HubSaysSo
  <2> QED
    BY <2>3, <2>4, <2>5
<1>7. CASE Sync!SyncReceived
  <2> DEFINE m == Head(downLink[cur])
             t == [rid |-> m.rid, digest |-> m.digest, sess |-> cur, ok |-> TRUE, pc |-> "check", idx |-> Sync!Nothing]
  <2>1. cur \in Sync!Sessions /\ m \in DownMessages /\ m.type = "skill_sync" /\ downLink' \in [Sync!Sessions -> Seq(DownMessages)]
    BY <1>7, HeardSound DEF Sync!SyncReceived
  <2>2. m.rid \in Pushes /\ m.digest \in Wanted /\ m.digest = Wants[m.rid]
    BY <2>1 DEF DownMessages
  <2>3. Sync!Nothing \in Claims
    BY DEF Sync!Nothing, Claims
  <2>4. TaskOK(t)
    BY <2>1, <2>2, <2>3 DEF TaskOK, Stage
  <2>5. /\ UNCHANGED <<cur, sessions, ready, beat, observed, index, upLink, conn, handle, hub, desired, push>>
        /\ tasks' = tasks \cup {t}
    BY <1>7 DEF Sync!SyncReceived
  <2> HIDE DEF m, t
  <2>6. ClientHasIt'
    BY <1>1, <1>2, <2>4, <2>5 DEF ClientHasIt
  <2>7. LinksCarryIt' /\ HubSaysSo'
    BY <1>1, <1>2, <2>1, <2>5 DEF LinksCarryIt, HubSaysSo
  <2> QED
    BY <2>6, <2>7
<1>8. CASE Sync!Break
  <2> USE <1>8 DEF Sync!Break
  <2>1. ClientHasIt'
    BY <1>2 DEF ClientHasIt
  <2>2. << >> \in Seq(UpMessages) /\ << >> \in Seq(DownMessages)
    OBVIOUS
  <2>3. upLink' \in [Sync!Sessions -> Seq(UpMessages)] /\ downLink' \in [Sync!Sessions -> Seq(DownMessages)]
    BY <2>2 DEF LinksCarryIt
  <2>4. LinksCarryIt'
    BY <1>2, <2>3 DEF LinksCarryIt
  <2>5. HubSaysSo'
    BY <1>1, <1>2 DEF HubSaysSo
  <2> QED
    BY <2>1, <2>4, <2>5
<1> QED
  BY <1>3, <1>4, <1>5, <1>6, <1>7, <1>8 DEF Sync!Client

\* The installs: only a rename changes the cache, and it adds the package that
\* its task goes on to register.
LEMMA InstallSound ==
  ASSUME SyncInv, NEW t \in tasks, Sync!Check(t) \/ Sync!Rename(t) \/ Sync!LoadIndex(t) \/ Sync!SaveIndex(t) \/ Sync!SendAck(t)
  PROVE  SyncInv'
<1> USE DEF SyncInv
<1>1. TaskOK(t)
  BY DEF ClientHasIt
<1>2. cache \subseteq cache'
  BY DEF Sync!Check, Sync!Rename, Sync!LoadIndex, Sync!SaveIndex, Sync!SendAck
<1>3. /\ Claims \subseteq Claims' /\ Acks \subseteq Acks' /\ UpMessages \subseteq UpMessages'
      /\ \A u : TaskOK(u) => TaskOK(u)'
  BY <1>2, LargerCache DEF TaskOK, Stage
<1>4. /\ UNCHANGED <<cur, sessions, ready, observed, beat, downLink, conn, handle, hub, desired, push>>
      /\ cache' \subseteq Digests
  BY <1>1, SyncSizes DEF ClientHasIt, TaskOK, Stage, Wanted, Sync!Check, Sync!Rename, Sync!LoadIndex, Sync!SaveIndex, Sync!SendAck, Sync!hubVars
<1>5. HubSaysSo'
  <2>1. hub.slot \in Acks' \cup {Nil} /\ hub.installed \in Claims'
    BY <1>3 DEF HubSaysSo
  <2> QED
    BY <1>2, <1>4, <2>1 DEF HubSaysSo
<1>6. upLink' \in [Sync!Sessions -> Seq(UpMessages')]
  <2>1. \A s \in Sync!Sessions : upLink[s] \in Seq(UpMessages')
    BY <1>3 DEF LinksCarryIt
  <2>2. CASE UNCHANGED upLink
    BY <2>1, <2>2 DEF LinksCarryIt
  <2>3. CASE Sync!SendAck(t) /\ t.sess = cur
    <3> DEFINE a == [rid |-> t.rid, digest |-> t.digest, ok |-> t.ok]
    <3>1. a \in Acks
      BY <1>1, <2>3 DEF Sync!SendAck, TaskOK, Stage, Acks
    <3>2. [type |-> "ack", ack |-> a] \in UpMessages /\ Sync!Say(cur, [type |-> "ack", ack |-> a])
      BY <2>3, <3>1 DEF Sync!SendAck, UpMessages
    <3>3. upLink' \in [Sync!Sessions -> Seq(UpMessages)] /\ UNCHANGED cache
      BY <2>3, <3>2, SaySound DEF Sync!SendAck
    <3> QED
      BY <3>3, SameCache
  <2> QED
    BY <2>2, <2>3 DEF Sync!Check, Sync!Rename, Sync!LoadIndex, Sync!SaveIndex, Sync!SendAck
<1>7. LinksCarryIt'
  BY <1>4, <1>6 DEF LinksCarryIt
<1> DEFINE Goal == index' \in Claims' /\ \A u \in tasks' : TaskOK(u)'
<1>8. SUFFICES Goal
  <2>1. beat # Nil => beat \in [observed : Revisions, list : Claims']
    BY <1>3 DEF ClientHasIt
  <2> QED
    BY <1>4, <1>5, <1>7, <2>1 DEF ClientHasIt
<1>9. index \in Claims' /\ \A u \in tasks : TaskOK(u)'
  BY <1>3 DEF ClientHasIt
<1>10. Sync!Nothing \in Claims'
  BY DEF Sync!Nothing, Claims
<1>11. ASSUME NEW u, TaskOK(u)', Sync!Becomes(t, u), UNCHANGED index PROVE Goal
  BY <1>9, <1>11 DEF Sync!Becomes
<1>12. CASE Sync!Check(t)
  <2>1. /\ t.pc = "check" /\ UNCHANGED <<index, cache>>
        /\ \/ t.digest \in cache /\ Sync!Becomes(t, [t EXCEPT !.pc = "load"])
           \/ Sync!Becomes(t, [t EXCEPT !.pc = "rename"])
           \/ Sync!Becomes(t, [t EXCEPT !.pc = "ack", !.ok = FALSE])
    BY <1>12 DEF Sync!Check
  <2>2. /\ t.digest \in cache => TaskOK([t EXCEPT !.pc = "load"])
        /\ TaskOK([t EXCEPT !.pc = "rename"])
        /\ TaskOK([t EXCEPT !.pc = "ack", !.ok = FALSE])
    BY <1>1, <2>1 DEF TaskOK, Stage
  <2> QED
    BY <1>3, <1>11, <2>1, <2>2
<1>13. CASE Sync!Rename(t)
  <2>1. /\ t.pc = "rename" /\ UNCHANGED index /\ t.digest \in cache'
        /\ \/ Sync!Becomes(t, [t EXCEPT !.pc = "ack", !.ok = FALSE])
           \/ Sync!Becomes(t, [t EXCEPT !.pc = "load"])
    BY <1>13 DEF Sync!Rename
  <2>2. TaskOK(t)'
    BY <1>1, <1>3
  <2>3. TaskOK([t EXCEPT !.pc = "load"])' /\ TaskOK([t EXCEPT !.pc = "ack", !.ok = FALSE])'
    BY <2>1, <2>2 DEF TaskOK, Stage
  <2> QED
    BY <1>11, <2>1, <2>3
<1>14. CASE Sync!LoadIndex(t)
  <2>1. t.pc = "load" /\ UNCHANGED <<index, cache>> /\ Sync!Becomes(t, [t EXCEPT !.pc = "save", !.idx = index])
    BY <1>14 DEF Sync!LoadIndex
  <2>2. TaskOK([t EXCEPT !.pc = "save", !.idx = index])
    BY <1>1, <2>1 DEF TaskOK, Stage, ClientHasIt
  <2> QED
    BY <1>3, <1>11, <2>1, <2>2
<1>15. CASE Sync!SaveIndex(t)
  <2> DEFINE u == [t EXCEPT !.pc = "ack", !.idx = Sync!Nothing]
  <2>1. t.pc = "save" /\ UNCHANGED cache /\ Sync!Becomes(t, u) /\ index' = [t.idx EXCEPT ![SkillOf[t.digest]] = t.digest]
    BY <1>15 DEF Sync!SaveIndex
  <2>2. t.idx \in Claims /\ t.digest \in cache
    BY <1>1, <2>1 DEF TaskOK, Stage
  <2>3. index' \in Claims
    BY <2>1, <2>2 DEF Claims
  <2>4. TaskOK(u)
    BY <1>1, <2>1, <2>2, <1>10, SameCache DEF TaskOK, Stage
  <2> HIDE DEF u
  <2> QED
    BY <1>3, <1>9, <2>1, <2>3, <2>4 DEF Sync!Becomes
<1>16. CASE Sync!SendAck(t)
  BY <1>9, <1>16 DEF Sync!SendAck
<1> QED
  BY <1>12, <1>13, <1>14, <1>15, <1>16

\* What a session's reader takes from its connection leaves the client alone.
LEMMA HearsSound ==
  ASSUME SyncInv, NEW s \in Sync!Sessions, NEW type, Sync!Hears(s, type)
  PROVE  /\ Head(upLink[s]) \in UpMessages /\ Head(upLink[s]).type = type
         /\ upLink' \in [Sync!Sessions -> Seq(UpMessages)]
         /\ ClientHasIt' /\ UNCHANGED <<cache, Claims, Acks, UpMessages, desired, push>>
<1>1. upLink[s] \in Seq(UpMessages) /\ upLink[s] # << >> /\ Head(upLink[s]).type = type
  BY DEF SyncInv, LinksCarryIt, Sync!Hears
<1>2. Head(upLink[s]) \in UpMessages /\ Tail(upLink[s]) \in Seq(UpMessages)
  BY <1>1, Queues
<1>3. upLink' \in [Sync!Sessions -> Seq(UpMessages)]
  BY <1>2 DEF SyncInv, LinksCarryIt, Sync!Hears
<1>4. UNCHANGED <<Sync!clientVars, desired, push>>
  BY DEF Sync!Hears
<1>5. UNCHANGED cache
  BY <1>4 DEF Sync!clientVars
<1>6. UNCHANGED <<Claims, Acks, UpMessages>> /\ \A t : TaskOK(t) => TaskOK(t)'
  BY <1>5, SameCache
<1>7. ClientHasIt'
  BY <1>4, <1>6 DEF SyncInv, ClientHasIt, Sync!clientVars
<1> QED
  BY <1>1, <1>2, <1>3, <1>4, <1>5, <1>6, <1>7

\* The hub's readers: a message speaks of cached packages, and so does the
\* record after it.
LEMMA ReadsSound ==
  ASSUME SyncInv, NEW s \in Sync!Sessions, Sync!Reads(s)
  PROVE  SyncInv'
<1> DEFINE m == Head(upLink[s])
<1>0. /\ hub \in [online : BOOLEAN, observed : Revisions, installed : Claims, slot : Acks \cup {Nil}]
      /\ desired \in 1..MaxRevision /\ desired \in Revisions /\ downLink \in [Sync!Sessions -> Seq(DownMessages)]
      /\ conn \subseteq Sync!Sessions /\ handle \in Sync!Sessions \cup {0} /\ 0 \in Revisions
  BY SyncSizes DEF SyncInv, HubSaysSo, LinksCarryIt, Revisions
<1> DEFINE Read == /\ upLink' \in [Sync!Sessions -> Seq(UpMessages)] /\ ClientHasIt'
                   /\ conn' \subseteq Sync!Sessions /\ handle' \in Sync!Sessions \cup {0}
                   /\ UNCHANGED <<cache, Claims, Acks, UpMessages, desired, push>>
           Hub  == [online : BOOLEAN, observed : Revisions, installed : Claims, slot : Acks \cup {Nil}]
<1>1. ASSUME Read, hub' \in Hub, downLink' \in [Sync!Sessions -> Seq(DownMessages)]
      PROVE  SyncInv'
  BY <1>1 DEF SyncInv, HubSaysSo, LinksCarryIt
<1>2. CASE Sync!Hello(s)
  <2>1. Read /\ m \in UpMessages /\ m.type = "hello"
    BY <1>0, <1>2, HearsSound DEF Sync!Hello, Sync!Hears
  <2>2. m.list \in Claims
    BY <2>1 DEF UpMessages
  <2>3. hub' \in Hub
    BY <1>0, <1>2, <2>2 DEF Sync!Hello
  <2>4. Sync!Msg("hello_ok", desired) \in DownMessages
    BY <1>0 DEF Sync!Msg, DownMessages
  <2>5. downLink' \in [Sync!Sessions -> Seq(DownMessages)]
    BY <1>2, <2>4, SendsSound DEF Sync!Hello, SyncInv
  <2> QED
    BY <1>1, <2>1, <2>3, <2>5
<1>3. CASE Sync!Heartbeat(s)
  <2>1. Read /\ m \in UpMessages /\ m.type = "heartbeat"
    BY <1>0, <1>3, HearsSound DEF Sync!Heartbeat, Sync!Hears
  <2>2. m.list \in Claims /\ m.rev \in Revisions
    BY <2>1 DEF UpMessages
  <2>3. hub' = [hub EXCEPT !.online = TRUE, !.observed = m.rev, !.installed = m.list] /\ UNCHANGED downLink
    BY <1>3 DEF Sync!Heartbeat
  <2> HIDE DEF m
  <2>4. hub' \in Hub
    BY <1>0, <2>2, <2>3
  <2> QED
    BY <1>0, <1>1, <2>1, <2>3, <2>4
<1>4. CASE Sync!SyncAck(s)
  <2> DEFINE a == m.ack
             i == IF a.ok THEN [hub.installed EXCEPT ![SkillOf[a.digest]] = a.digest] ELSE hub.installed
  <2>1. Read /\ m \in UpMessages /\ m.type = "ack"
    BY <1>0, <1>4, HearsSound DEF Sync!SyncAck, Sync!Hears
  <2>2. a \in Acks
    BY <2>1 DEF UpMessages
  <2>3. hub.installed \in Claims /\ (a.ok => a.digest \in cache)
    BY <1>0, <2>2 DEF Acks
  <2>4. i \in Claims
    BY <2>3 DEF Claims
  <2>5. hub' = [hub EXCEPT !.slot = a, !.installed = i] /\ UNCHANGED downLink
    BY <1>4 DEF Sync!SyncAck
  <2> HIDE DEF a, i
  <2>6. hub' \in Hub
    BY <1>0, <2>2, <2>4, <2>5
  <2> QED
    BY <1>0, <1>1, <2>1, <2>5, <2>6
<1>5. CASE Sync!ConfigAck(s)
  <2>1. Read /\ m \in UpMessages /\ m.type = "config_ack"
    BY <1>0, <1>5, HearsSound DEF Sync!ConfigAck, Sync!Hears
  <2>2. m.rev \in Revisions
    BY <2>1 DEF UpMessages
  <2>3. hub' = [hub EXCEPT !.observed = m.rev] /\ UNCHANGED downLink
    BY <1>5 DEF Sync!ConfigAck
  <2> HIDE DEF m
  <2>4. hub' \in Hub
    BY <1>0, <2>2, <2>3
  <2> QED
    BY <1>0, <1>1, <2>1, <2>3, <2>4
<1>6. CASE Sync!End(s)
  <2>1. /\ hub' = [hub EXCEPT !.online = FALSE] /\ conn' = conn \ {s}
        /\ UNCHANGED <<Sync!clientVars, upLink, downLink, handle, desired, push>>
    BY <1>6 DEF Sync!End
  <2>2. UNCHANGED <<cache, Claims, Acks, UpMessages>> /\ \A t : TaskOK(t) => TaskOK(t)'
    BY <2>1, SameCache DEF Sync!clientVars
  <2>3. Read
    BY <1>0, <2>1, <2>2 DEF SyncInv, LinksCarryIt, ClientHasIt, Sync!clientVars
  <2>4. hub' \in Hub
    BY <1>0, <2>1
  <2> QED
    BY <1>0, <1>1, <2>1, <2>3, <2>4
<1> QED
  BY <1>2, <1>3, <1>4, <1>5, <1>6 DEF Sync!Reads

\* The hub's own steps.  A push that ends well took an answer that names its
\* request, hence its package, or names the package itself.
LEMMA HubSound ==
  ASSUME SyncInv,
         \/ Sync!Reap \/ Sync!PushConfig
         \/ \E p \in Pushes : Sync!PushSkill(p) \/ Sync!PushAnswered(p) \/ Sync!PushTimesOut(p)
  PROVE  SyncInv'
<1> DEFINE Hub == [online : BOOLEAN, observed : Revisions, installed : Claims, slot : Acks \cup {Nil}]
<1>0. /\ hub \in Hub /\ desired \in 1..MaxRevision
      /\ push \in [Pushes -> {"idle", "waits", "ok", "failed"}]
      /\ \A p \in Pushes : push[p] = "ok" => Wants[p] \in cache
      /\ upLink \in [Sync!Sessions -> Seq(UpMessages)] /\ downLink \in [Sync!Sessions -> Seq(DownMessages)]
      /\ conn \subseteq Sync!Sessions /\ handle \in Sync!Sessions \cup {0}
  BY DEF SyncInv, HubSaysSo, LinksCarryIt
<1>1. UNCHANGED <<Sync!clientVars, upLink, conn, handle>>
  BY DEF Sync!Reap, Sync!PushConfig, Sync!PushSkill, Sync!PushAnswered, Sync!PushTimesOut
<1>2. UNCHANGED <<cache, Claims, Acks, UpMessages>> /\ \A t : TaskOK(t) => TaskOK(t)'
  BY <1>1, SameCache DEF Sync!clientVars
<1>3. ClientHasIt' /\ upLink' \in [Sync!Sessions -> Seq(UpMessages')]
  BY <1>0, <1>1, <1>2 DEF SyncInv, ClientHasIt, Sync!clientVars
<1> DEFINE Goal == /\ hub' \in Hub /\ desired' \in 1..MaxRevision
                   /\ push' \in [Pushes -> {"idle", "waits", "ok", "failed"}]
                   /\ \A p \in Pushes : push'[p] = "ok" => Wants[p] \in cache
                   /\ downLink' \in [Sync!Sessions -> Seq(DownMessages)]
<1>4. SUFFICES Goal
  BY <1>0, <1>1, <1>2, <1>3 DEF SyncInv, HubSaysSo, LinksCarryIt
<1>5. CASE Sync!Reap
  BY <1>0, <1>5 DEF Sync!Reap
<1>6. CASE Sync!PushConfig
  <2>1. desired + 1 \in 1..MaxRevision /\ desired + 1 \in Revisions
    BY <1>0, <1>6, SyncSizes DEF Sync!PushConfig, Revisions
  <2>2. Sync!Msg("config_update", desired + 1) \in DownMessages
    BY <2>1 DEF Sync!Msg, DownMessages
  <2>3. downLink' \in [Sync!Sessions -> Seq(DownMessages)]
    BY <1>0, <1>6, <2>2, SendsSound DEF Sync!PushConfig, SyncInv
  <2> QED
    BY <1>0, <1>6, <2>1, <2>3 DEF Sync!PushConfig
<1>7. ASSUME NEW p \in Pushes, Sync!PushSkill(p) PROVE Goal
  <2>1. [type |-> "skill_sync", rid |-> p, digest |-> Wants[p]] \in DownMessages
    BY DEF DownMessages, Wanted
  <2>2. downLink' \in [Sync!Sessions -> Seq(DownMessages)]
    BY <1>0, <1>7, <2>1, SendsSound DEF Sync!PushSkill, SyncInv
  <2>3. /\ hub' = [hub EXCEPT !.slot = Nil] /\ UNCHANGED desired
        /\ \E r \in {"waits", "failed"} : push' = [push EXCEPT ![p] = r]
    BY <1>7 DEF Sync!PushSkill
  <2> QED
    BY <1>0, <2>2, <2>3
<1>8. ASSUME NEW p \in Pushes, Sync!PushAnswered(p) PROVE Goal
  <2>1. /\ hub.slot # Nil /\ (hub.slot.rid = p \/ hub.slot.digest = Wants[p])
        /\ push' = [push EXCEPT ![p] = IF hub.slot.ok THEN "ok" ELSE "failed"]
        /\ UNCHANGED <<hub, desired, downLink>>
    BY <1>8 DEF Sync!PushAnswered, Sync!Answers
  <2>2. hub.slot \in Acks
    BY <1>0, <2>1
  <2>3. hub.slot.ok => Wants[p] \in cache
    BY <2>1, <2>2 DEF Acks
  <2> QED
    BY <1>0, <2>1, <2>3
<1>9. ASSUME NEW p \in Pushes, Sync!PushTimesOut(p) PROVE Goal
  BY <1>0, <1>9 DEF Sync!PushTimesOut
<1> QED
  BY <1>5, <1>6, <1>7, <1>8, <1>9

\* Whatever steps are taken, or none, all that is said stays true.
LEMMA SyncStep ==
  ASSUME SyncInv, Sync!Next
  PROVE  SyncInv'
BY ClientSound, InstallSound, ReadsSound, HubSound DEF Sync!Next, Sync!Install

LEMMA SyncStill ==
  ASSUME SyncInv, UNCHANGED syncVars
  PROVE  SyncInv'
<1>1. /\ UNCHANGED <<cur, sessions, ready, observed, beat, cache, index, tasks>>
      /\ UNCHANGED <<upLink, downLink, conn, handle, hub, desired, push>>
  BY DEF syncVars
<1>2. UNCHANGED <<Claims, Acks, UpMessages>> /\ \A t : TaskOK(t) => TaskOK(t)'
  BY <1>1, SameCache
<1>3. ClientHasIt'
  BY <1>1, <1>2 DEF SyncInv, ClientHasIt
<1>4. LinksCarryIt'
  BY <1>1, <1>2 DEF SyncInv, LinksCarryIt
<1>5. HubSaysSo'
  BY <1>1, <1>2 DEF SyncInv, HubSaysSo
<1> QED
  BY <1>3, <1>4, <1>5 DEF SyncInv

\* What the invariant says of the types, and of what is installed.
LEMMA SyncTyped ==
  ASSUME SyncInv
  PROVE  Sync!TypeOK
<1>1. Claims \subseteq Sync!Index /\ Acks \subseteq Sync!Ack
  BY SyncSizes DEF SyncInv, ClientHasIt, Claims, Sync!Index, Acks, Sync!Ack, Wanted
<1>2. tasks \subseteq Sync!Task
  BY <1>1, SyncSizes DEF SyncInv, ClientHasIt, TaskOK, Stage, Sync!Task, Wanted
<1>3. beat # Nil => beat.observed \in 0..MaxRevision /\ beat.list \in Sync!Index
  BY <1>1 DEF SyncInv, ClientHasIt, Revisions
<1>4. /\ hub.online \in BOOLEAN /\ hub.observed \in 0..MaxRevision
      /\ hub.installed \in Sync!Index /\ hub.slot \in Sync!Ack \cup {Nil}
  BY <1>1 DEF SyncInv, HubSaysSo, Revisions
<1> QED
  BY <1>1, <1>2, <1>3, <1>4 DEF Sync!TypeOK, SyncInv, ClientHasIt, HubSaysSo, Revisions

LEMMA SyncMeans ==
  ASSUME SyncInv
  PROVE  Sync!TypeOK /\ Sync!ClaimedIsInstalled /\ Sync!SyncedIsInstalled
BY SyncTyped DEF SyncInv, ClientHasIt, HubSaysSo, Claims, Sync!ClaimedIsInstalled, Sync!SyncedIsInstalled

-----------------------------------------------------------------------------
(* All of them together *)

ProgressInv ==
  /\ part \in {"sync", "pipes", "turn", "daemon", "console", "pty"}
  /\ SyncInv /\ PipesInv /\ TurnInv
  /\ DaemonInv /\ ConsoleInv /\ PtyInv

LEMMA ProgressInit == Init => ProgressInv
<1> SUFFICES ASSUME Init PROVE ProgressInv
  OBVIOUS
<1> USE DEF Init
<1>1. SyncInv
  BY SyncInit
<1>2. PipesInv /\ TurnInv /\ DaemonInv /\ ConsoleInv /\ PtyInv
  BY PipesInit, TurnInit, DaemonInit, ConsoleInit, PtyInit
<1> QED
  BY <1>1, <1>2 DEF ProgressInv

\* A part that stands still keeps its invariant.
LEMMA Still ==
  ASSUME ProgressInv
  PROVE  /\ UNCHANGED syncVars => SyncInv'
         /\ UNCHANGED pipeVars => PipesInv'
         /\ UNCHANGED turnVars => TurnInv'
         /\ UNCHANGED daemonVars => DaemonInv'
         /\ UNCHANGED consoleVars => ConsoleInv'
         /\ UNCHANGED ptyVars => PtyInv'
<1> USE DEF ProgressInv
<1>1. UNCHANGED syncVars => SyncInv'
  BY SyncStill
<1>2. UNCHANGED pipeVars => PipesInv'
  BY DEF pipeVars, PipesInv, Pipes!TypeOK
<1>3. UNCHANGED turnVars => TurnInv'
  BY DEF turnVars, TurnInv, NamedInv, HeldInv, ToldSoInv, OpenInv, Turn!TypeOK
<1>4. UNCHANGED daemonVars => DaemonInv'
  BY DEF daemonVars, DaemonInv, OneAtATime, Active, Daemon!TypeOK, Daemon!Alive
<1>5. UNCHANGED consoleVars => ConsoleInv'
  BY DEF consoleVars, ConsoleInv, Console!TypeOK
<1>6. UNCHANGED ptyVars => PtyInv'
  BY DEF ptyVars, PtyInv, SlotInv, ProcInv, ToldInv, Pty!Alive
<1> QED
  BY <1>1, <1>2, <1>3, <1>4, <1>5, <1>6

LEMMA ProgressStep ==
  ASSUME ProgressInv, [Next]_vars
  PROVE  ProgressInv'
<1>1. CASE UNCHANGED vars
  BY <1>1, Still DEF vars, ProgressInv
<1>2. CASE Next
  <2> USE <1>2, Still DEF Next, ProgressInv
  <2>1. part' = part
    OBVIOUS
  <2>2. SyncInv'
    <3>1. UNCHANGED syncVars \/ Sync!Next
      OBVIOUS
    <3> QED
      BY <3>1, SyncStep, SyncStill
  <2>3. PipesInv' /\ TurnInv'
    BY PipesStep, TurnStep
  <2>4. DaemonInv' /\ ConsoleInv' /\ PtyInv'
    BY DaemonStep, ConsoleStep, PtyStep
  <2> QED
    BY <2>1, <2>2, <2>3, <2>4
<1> QED
  BY <1>1, <1>2

\* The variables of every part keep their types.
THEOREM TypesCorrect == Spec => []TypesOK
<1>1. ProgressInv => TypesOK
  BY SyncMeans, PipesMeans, TurnMeans, ConsoleMeans, PtyMeans DEF ProgressInv, DaemonInv, TypesOK
<1> QED
  BY <1>1, ProgressInit, ProgressStep, PTL DEF Spec

\* What the hub lists as installed on a client, and what a push was answered
\* about, is in the client's cache (master_hub.rs:558, 1040).
THEOREM SaidIsInstalled == Spec => []InstalledAsSaid
<1>1. ProgressInv => InstalledAsSaid
  BY SyncMeans DEF ProgressInv, InstalledAsSaid
<1> QED
  BY <1>1, ProgressInit, ProgressStep, PTL DEF Spec

\* There is one daemon as long as callers do not meet, a run that is answered
\* leaves no process, nothing of a session of the terminal outlives it unseen
\* and its end is told once, and the console closes all sessions only when it
\* lists none (worker.rs:335, skill_pkg.rs:1041, pty.rs:285, tui/mod.rs:786).
THEOREM NothingIsLeft == Spec => []ProcessesAreOwned
<1>1. ProgressInv => ProcessesAreOwned
  BY DaemonMeans, PipesMeans, PtyMeans, ConsoleMeans DEF ProgressInv, ProcessesAreOwned
<1> QED
  BY <1>1, ProgressInit, ProgressStep, PTL DEF Spec

\* A cancel of a chat that comes in time is kept until the turn has ended, and
\* a request that was told cancelled is never told done (teach_events.rs:462,
\* 1317, 1336).
THEOREM CancelStands == Spec => CancelIsKept
<1>1. ProgressInv => (part = "turn" => Turn!CancelIsHonoured)
  BY TurnMeans DEF ProgressInv
<1>2. ProgressInv /\ [Next]_vars =>
        [\A r \in Turn!Requests : turnTold[r] = "cancelled" => turnTold'[r] # "done"]_(Turn!vars)
  <2> SUFFICES ASSUME ProgressInv, [Next]_vars, ~ UNCHANGED Turn!vars, NEW r \in Turn!Requests, turnTold[r] = "cancelled"
               PROVE  turnTold'[r] # "done"
    OBVIOUS
  <2>1. Turn!Next
    BY DEF Next, vars, turnVars, Turn!vars, Turn!session
  <2> QED
    BY <2>1, CancelledStays DEF ProgressInv
<1> QED
  BY <1>1, <1>2, ProgressInit, ProgressStep, PTL DEF Spec, CancelIsKept, Turn!CancelledStaysCancelled
=============================================================================
