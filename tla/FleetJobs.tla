------------------------------ MODULE FleetJobs ------------------------------
(***************************************************************************)
(* One job's way through the fleet: the master's hub (master_hub.rs), the  *)
(* client daemons (client_daemon.rs) and the TCP connection between them,  *)
(* which the client dials and which may break at any time.                 *)
(*                                                                         *)
(* The hub's record is one variable: what a crash, a torn file or a failing *)
(* ledger does to it is the subject of ResultStore.  The profile lock is   *)
(* taken as exclusive: how it is reached is the subject of ProfileLock.    *)
(* hello and hello_ok are one step, packages do not change while jobs run. *)
(* Definitions that start with Mutant are bugs, no part of the model.      *)
(***************************************************************************)
EXTENDS SkillStatus, Naturals, Sequences, FiniteSets

CONSTANTS Requests,     \* calls of submit_job, each on a task of its own
          Specs,        \* what they ask for
          Installed,    \* client |-> the digests it has acknowledged
          Kind,         \* digest |-> python_runner or skill_steps
          Reports,      \* the final reports that runs end with
          MaxSessions, MaxCancels, MaxRestarts, MaxDeaths,  \* bounds
          NoRecord, NoSpec, NoTask

Spec0 == [job : Jobs, client : Clients, profile : Profiles, digest : Digests]

ASSUME FleetAssumption ==
  /\ Specs \subseteq Spec0 /\ Reports \subseteq Report
  /\ Installed \in [Clients -> SUBSET Digests]
  /\ Kind \in [Digests -> {"python_runner", "skill_steps"}]
  /\ {MaxSessions, MaxCancels, MaxRestarts, MaxDeaths} \subseteq Nat
  /\ NoRecord \notin JobRecord /\ NoSpec \notin Spec0 /\ NoTask \notin Requests

Sessions == 1..MaxSessions

VARIABLES
  \* the hub
  jobs,      \* job index and data/jobs
  handle,    \* client |-> the session whose sender is registered, 0 for none
  online,    \* client |-> ClientInfo::online
  conn,      \* client |-> the sessions whose connection handler still reads
  phase,     \* request |-> how far its submit_job is
  spec,      \* request |-> what it asks for
  \* the network
  down,      \* client |-> messages to its current session
  wire,      \* client |-> session |-> messages to the hub
  \* the client daemons
  cur,       \* client |-> its current session, 0 while it is disconnected
  last,      \* client |-> sessions begun so far
  local,     \* client |-> job |-> state and data of its own job file
  cancels,   \* client |-> job |-> the task whose flag job_cancel sets
  pc,        \* request |-> where the handle_job task it caused is
  sess,      \* request |-> the session that task writes to
  flag,      \* request |-> the task's cancel flag
  out,       \* request |-> how its run ended
  \* bounds
  budget

hubVars    == <<jobs, handle, online, conn, phase, spec>>
clientVars == <<cur, last, local, cancels, pc, sess, flag, out>>
vars       == <<hubVars, down, wire, clientVars, budget>>

Outcomes == [kind : {"report"}, report : {r \in Reports : ~r.paused}]
       \cup [kind : {"pause"}, report : {r \in Reports : r.paused}]
       \cup [kind : {"error", "ask_human", "protocol", "killed", "none"}, report : {NoData}]
Out(kind) == [kind |-> kind, report |-> NoData]

Phases == {"new", "checked", "recorded", "sent", "refused"}
Before == {"received", "loaded", "announce", "start", "lock", "spawn"}
After  == {"unregister", "store", "send"}
Pcs    == {"none", "run", "done", "dead"} \cup Before \cup After

LocalRecord == [state : JobStates, data : Data]
Submits == [type : {"job_submit"}, req : Requests]
CancelMsgs == [type : {"job_cancel"}, job : Jobs]

TypeOK ==
  /\ jobs \in [Jobs -> JobRecord \cup {NoRecord}]
  /\ handle \in [Clients -> 0..MaxSessions] /\ online \in [Clients -> BOOLEAN]
  /\ conn \in [Clients -> SUBSET Sessions]
  /\ phase \in [Requests -> Phases] /\ spec \in [Requests -> Specs \cup {NoSpec}]
  /\ \A c \in Clients : \A i \in DOMAIN down[c] : down[c][i] \in Submits \cup CancelMsgs
  /\ \A c \in Clients : \A s \in Sessions : \A i \in DOMAIN wire[c][s] : wire[c][s][i] \in Update
  /\ cur \in [Clients -> 0..MaxSessions] /\ last \in [Clients -> 0..MaxSessions]
  /\ local \in [Clients -> [Jobs -> LocalRecord \cup {NoRecord}]]
  /\ cancels \in [Clients -> [Jobs -> Requests \cup {NoTask}]]
  /\ pc \in [Requests -> Pcs] /\ sess \in [Requests -> 0..MaxSessions]
  /\ flag \in [Requests -> BOOLEAN] /\ out \in [Requests -> Outcomes]
  /\ budget \in [cancels : 0..MaxCancels, restarts : 0..MaxRestarts, deaths : 0..MaxDeaths]

Init ==
  /\ jobs = [j \in Jobs |-> NoRecord]
  /\ handle = [c \in Clients |-> 0] /\ online = [c \in Clients |-> FALSE]
  /\ conn = [c \in Clients |-> {}]
  /\ phase = [r \in Requests |-> "new"] /\ spec = [r \in Requests |-> NoSpec]
  /\ down = [c \in Clients |-> <<>>] /\ wire = [c \in Clients |-> [s \in Sessions |-> <<>>]]
  /\ cur = handle /\ last = handle
  /\ local = [c \in Clients |-> [j \in Jobs |-> NoRecord]]
  /\ cancels = [c \in Clients |-> [j \in Jobs |-> NoTask]]
  /\ pc = [r \in Requests |-> "none"] /\ sess = [r \in Requests |-> 0]
  /\ flag = [r \in Requests |-> FALSE] /\ out = [r \in Requests |-> Out("none")]
  /\ budget = [cancels |-> MaxCancels, restarts |-> MaxRestarts, deaths |-> MaxDeaths]

-----------------------------------------------------------------------------
(* The hub *)

Asked(r) == spec[r] # NoSpec
Cl(r)    == spec[r].client
Job(r)   == spec[r].job

Finished(j) == jobs[j] # NoRecord /\ jobs[j].state \in Terminal
Active(j)   == jobs[j] # NoRecord /\ jobs[j].state \notin Terminal
OccupiedBy(p) == {j \in Jobs : Active(j) /\ jobs[j].profile = p}

\* The read phases of submit_job; what they found is used after further awaits.
SubmitCheck(r, s) ==
  /\ phase[r] = "new"
  /\ ~Finished(s.job)
  /\ handle[s.client] # 0 /\ online[s.client]
  /\ s.digest \in Installed[s.client]
  /\ OccupiedBy(s.profile) = {}
  /\ phase' = [phase EXCEPT ![r] = "checked"]
  /\ spec' = [spec EXCEPT ![r] = s]
  /\ UNCHANGED <<jobs, handle, online, conn, down, wire, clientVars, budget>>

\* two arguments of upsert_state in each other's place
MutantSwapArguments(s) ==
  LET r == IF jobs[s.job] = NoRecord THEN NewRecord(s.profile, SkillOf[s.digest], s.client)
                                     ELSE jobs[s.job]
  IN  [r EXCEPT !.digest = s.digest, !.state = "queued"]

\* The write phase: upsert_state and set_binding under one write lock.
Queued(s) ==
  LET r == IF jobs[s.job] = NoRecord THEN NewRecord(s.client, SkillOf[s.digest], s.profile)
                                     ELSE jobs[s.job]
  IN  [r EXCEPT !.client = s.client, !.skill = SkillOf[s.digest], !.profile = s.profile,
                !.digest = s.digest, !.state = "queued"]

\* no second look at the profile
MutantRecordUnchecked(s) == ~Finished(s.job)

MayRecord(s) ==
  /\ ~Finished(s.job)
  /\ OccupiedBy(s.profile) = {} \/ s.job \in OccupiedBy(s.profile)

SubmitRecord(r) ==
  /\ phase[r] = "checked"
  /\ IF MayRecord(spec[r])
       THEN /\ jobs' = [jobs EXCEPT ![spec[r].job] = Queued(spec[r])]
            /\ phase' = [phase EXCEPT ![r] = "recorded"]
       ELSE /\ phase' = [phase EXCEPT ![r] = "refused"]
            /\ UNCHANGED jobs
  /\ UNCHANGED <<handle, online, conn, spec, down, wire, clientVars, budget>>

\* h.tx.send: fails when nobody is registered or the handler of the registered
\* connection has ended; is lost when the client has left that connection.
Reachable(c) == handle[c] \in conn[c]
Send(c, m) == down' = IF Reachable(c) /\ handle[c] = cur[c]
                        THEN [down EXCEPT ![c] = Append(@, m)] ELSE down

SubmitDispatch(r) ==
  /\ phase[r] = "recorded"
  /\ Send(spec[r].client, [type |-> "job_submit", req |-> r])
  /\ phase' = [phase EXCEPT ![r] = IF Reachable(spec[r].client) THEN "sent" ELSE "refused"]
  /\ UNCHANGED <<jobs, handle, online, conn, spec, wire, clientVars, budget>>

\* cancel_job, asked for at the client the job was dispatched to.
HubCancel(j) ==
  /\ budget.cancels > 0
  /\ Active(j) /\ jobs[j].result = NoResult
  /\ jobs' = [jobs EXCEPT ![j].state = "cancelling"]
  /\ Send(jobs[j].client, [type |-> "job_cancel", job |-> j])
  /\ budget' = [budget EXCEPT !.cancels = @ - 1]
  /\ UNCHANGED <<handle, online, conn, phase, spec, wire, clientVars>>

\* The connection handler: job_state messages, in the order of the connection.
HubIngest(c, s) ==
  /\ s \in conn[c] /\ wire[c][s] # <<>>
  /\ LET u == Head(wire[c][s])
         r == IF jobs[u.job] = NoRecord THEN NewRecord(c, NoSkill, NoProfile) ELSE jobs[u.job]
     IN  jobs' = [jobs EXCEPT ![u.job] = ApplyUpdate(r, u, Digests).rec]
  /\ wire' = [wire EXCEPT ![c][s] = Tail(@)]
  /\ UNCHANGED <<handle, online, conn, phase, spec, down, clientVars, budget>>

\* The end of a connection marks the client offline by its id, also when the
\* client has registered a newer connection meanwhile.
HubEof(c, s) ==
  /\ s \in conn[c] /\ s # cur[c] /\ wire[c][s] = <<>>
  /\ conn' = [conn EXCEPT ![c] = @ \ {s}]
  /\ online' = [online EXCEPT ![c] = FALSE]
  /\ UNCHANGED <<jobs, handle, phase, spec, down, wire, clientVars, budget>>

\* A heartbeat, or the reaper 60 s after the last one.
Heartbeat(c) ==
  /\ cur[c] # 0 /\ cur[c] \in conn[c] /\ ~online[c]
  /\ online' = [online EXCEPT ![c] = TRUE]
  /\ UNCHANGED <<jobs, handle, conn, phase, spec, down, wire, clientVars, budget>>

\* The hub process dies and starts again: records survive, connections and the
\* submits that were under way do not.
HubRestart ==
  /\ budget.restarts > 0
  /\ budget' = [budget EXCEPT !.restarts = @ - 1]
  /\ handle' = [c \in Clients |-> 0] /\ online' = [c \in Clients |-> FALSE]
  /\ conn' = [c \in Clients |-> {}]
  /\ phase' = [r \in Requests |-> IF phase[r] \in {"checked", "recorded"} THEN "refused" ELSE phase[r]]
  /\ cur' = handle'
  /\ down' = [c \in Clients |-> <<>>]
  /\ wire' = [c \in Clients |-> [s \in Sessions |-> <<>>]]
  /\ UNCHANGED <<jobs, spec, last, local, cancels, pc, sess, flag, out>>

-----------------------------------------------------------------------------
(* The connection *)

\* connect_session: a new session has a cancel map of its own.
Connect(c) ==
  /\ cur[c] = 0 /\ last[c] < MaxSessions
  /\ last' = [last EXCEPT ![c] = @ + 1]
  /\ cur' = [cur EXCEPT ![c] = last'[c]]
  /\ cancels' = [cancels EXCEPT ![c] = [j \in Jobs |-> NoTask]]
  /\ conn' = [conn EXCEPT ![c] = @ \cup {last'[c]}]
  /\ handle' = [handle EXCEPT ![c] = last'[c]]
  /\ online' = [online EXCEPT ![c] = TRUE]
  /\ UNCHANGED <<jobs, phase, spec, down, wire, local, pc, sess, flag, out, budget>>

\* The connection breaks: what was on its way to the client is lost, and an
\* arbitrary tail of what was on its way to the hub.
Lost(c, n) ==
  /\ down' = [down EXCEPT ![c] = <<>>]
  /\ wire' = [wire EXCEPT ![c][cur[c]] = SubSeq(@, 1, n)]
  /\ cur' = [cur EXCEPT ![c] = 0]

Cut(c) ==
  /\ cur[c] # 0
  /\ \E n \in 0..Len(wire[c][cur[c]]) : Lost(c, n)
  /\ UNCHANGED <<hubVars, last, local, cancels, pc, sess, flag, out, budget>>

\* The client daemon dies with its tasks; its job files survive.
Tasks(c) == {r \in Requests : pc[r] # "none" /\ spec[r].client = c}

ClientDies(c) ==
  /\ budget.deaths > 0
  /\ budget' = [budget EXCEPT !.deaths = @ - 1]
  /\ IF cur[c] = 0 THEN UNCHANGED <<down, wire, cur>>
                   ELSE \E n \in 0..Len(wire[c][cur[c]]) : Lost(c, n)
  /\ pc' = [r \in Requests |-> IF r \in Tasks(c) /\ pc[r] # "done" THEN "dead" ELSE pc[r]]
  /\ UNCHANGED <<hubVars, last, local, cancels, sess, flag, out>>

-----------------------------------------------------------------------------
(* The client daemon *)

Goto(r, l) == pc' = [pc EXCEPT ![r] = l]

State(c, j, state, perr, data) ==
  [job |-> j, client |-> c, state |-> state, protocol_error |-> perr, data |-> data]

\* send_line: on the connection of the session, if it is still there.
Write(c, s, m) == wire' = IF s # 0 /\ s = cur[c] THEN [wire EXCEPT ![c][s] = Append(@, m)] ELSE wire

\* jobs::upsert_state on the client: data only grows.
Local(c, j, state, data) ==
  local' = [local EXCEPT ![c][j] =
              [state |-> state,
               data |-> IF data # NoData \/ @ = NoRecord THEN data ELSE @.data]]

\* job_submit spawns handle_job.
ReceiveSubmit(c) ==
  /\ down[c] # <<>> /\ Head(down[c]).type = "job_submit"
  /\ LET r == Head(down[c]).req
     IN  /\ Goto(r, "received")
         /\ sess' = [sess EXCEPT ![r] = cur[c]]
  /\ down' = [down EXCEPT ![c] = Tail(@)]
  /\ UNCHANGED <<hubVars, wire, cur, last, local, cancels, flag, out, budget>>

\* job_cancel: set the flag of the registered task, or mark the job cancelled;
\* either way report "cancelled" at once.
ReceiveCancel(c) ==
  /\ down[c] # <<>> /\ Head(down[c]).type = "job_cancel"
  /\ LET j == Head(down[c]).job
         t == cancels[c][j]
     IN  /\ IF t # NoTask
              THEN flag' = [flag EXCEPT ![t] = TRUE] /\ UNCHANGED local
              ELSE Local(c, j, "cancelled", NoData) /\ UNCHANGED flag
         /\ Write(c, cur[c], State(c, j, "cancelled", FALSE, NoData))
  /\ down' = [down EXCEPT ![c] = Tail(@)]
  /\ UNCHANGED <<hubVars, cur, last, cancels, pc, sess, out, budget>>

LocalTerminal(c, j) == local[c][j] # NoRecord /\ local[c][j].state \in Terminal

\* Idempotent recovery: a job that is terminal here is reported, not run.
SkipFinished(r) ==
  /\ pc[r] = "received" /\ LocalTerminal(Cl(r), Job(r))
  /\ LET l == local[Cl(r)][Job(r)]
     IN  Write(Cl(r), sess[r], State(Cl(r), Job(r), l.state, FALSE,
                                     IF l.data = NoData THEN NullData ELSE l.data))
  /\ Goto(r, "done")
  /\ UNCHANGED <<hubVars, down, cur, last, local, cancels, sess, flag, out, budget>>

Load(r) ==
  /\ pc[r] = "received" /\ ~LocalTerminal(Cl(r), Job(r))
  /\ Goto(r, "loaded")
  /\ UNCHANGED <<hubVars, down, wire, cur, last, local, cancels, sess, flag, out, budget>>

\* Insert the cancel flag (in this session's map) and save "running".
Register(r) ==
  /\ pc[r] = "loaded"
  /\ cancels' = IF sess[r] = cur[Cl(r)] THEN [cancels EXCEPT ![Cl(r)][Job(r)] = r] ELSE cancels
  /\ Local(Cl(r), Job(r), "running", NoData)
  /\ Goto(r, "announce")
  /\ UNCHANGED <<hubVars, down, wire, cur, last, sess, flag, out, budget>>

\* the write waits for a connection that never comes back
MutantAnnounceBlocks(r) ==
  /\ pc[r] = "announce" /\ sess[r] = cur[Cl(r)]
  /\ Write(Cl(r), sess[r], State(Cl(r), Job(r), "running", FALSE, NoData))
  /\ Goto(r, "start")
  /\ UNCHANGED <<hubVars, down, cur, last, local, cancels, sess, flag, out, budget>>

\* Report "running".  On a broken connection the write fails, which ends the
\* task without a run, or is buffered and lost.
Announce(r) ==
  /\ pc[r] = "announce"
  /\ Write(Cl(r), sess[r], State(Cl(r), Job(r), "running", FALSE, NoData))
  /\ \/ Goto(r, "start")
     \/ sess[r] # cur[Cl(r)] /\ Goto(r, "dead")
  /\ UNCHANGED <<hubVars, down, cur, last, local, cancels, sess, flag, out, budget>>

EndRun(r, o) ==
  /\ Goto(r, "unregister")
  /\ out' = [out EXCEPT ![r] = o]
  /\ UNCHANGED <<hubVars, down, wire, cur, last, local, cancels, sess, flag, budget>>

\* "cancelled before start" is looked for once, before the profile lock.
Start(r) ==
  /\ pc[r] = "start"
  /\ IF flag[r] THEN EndRun(r, Out("killed"))
                ELSE /\ Goto(r, "lock")
                     /\ UNCHANGED <<hubVars, down, wire, cur, last, local, cancels, sess, flag, out, budget>>

LockFree(r) == ~ \E q \in Requests :
  pc[q] \in {"spawn", "run"} /\ Cl(q) = Cl(r) /\ spec[q].profile = spec[r].profile

TakeLock(r) ==
  /\ pc[r] = "lock" /\ LockFree(r)
  /\ Goto(r, "spawn")
  /\ UNCHANGED <<hubVars, down, wire, cur, last, local, cancels, sess, flag, out, budget>>

LockTimeout(r) == pc[r] = "lock" /\ ~LockFree(r) /\ EndRun(r, Out("error"))

\* the runner is started without a look at the flag
MutantSpawnBlind(r) ==
  /\ pc[r] = "spawn"
  /\ Goto(r, "run")
  /\ UNCHANGED <<hubVars, down, wire, cur, last, local, cancels, sess, flag, out, budget>>

\* Both runners look at the flag when the child has just been started.
Spawn(r) ==
  /\ pc[r] = "spawn"
  /\ IF flag[r] THEN EndRun(r, Out("killed"))
                ELSE /\ Goto(r, "run")
                     /\ UNCHANGED <<hubVars, down, wire, cur, last, local, cancels, sess, flag, out, budget>>

\* The run ends by itself: a python_runner may end in the 100 ms before its flag
\* is looked at, the skill_steps worker's answer is dropped once the flag is up.
\* An error text with "cancelled" in it counts as a cancel ("killed").
RunEnds(r) ==
  /\ pc[r] = "run"
  /\ \E o \in Outcomes :
       /\ o.kind # "none"
       /\ o.kind = "protocol" => Kind[spec[r].digest] = "python_runner"
       /\ flag[r] => Kind[spec[r].digest] = "python_runner"
       /\ EndRun(r, o)

RunKilled(r) == pc[r] = "run" /\ flag[r] /\ EndRun(r, Out("killed"))

\* The entry of the map goes by job id, whoever owns it.
Unregister(r) ==
  /\ pc[r] = "unregister"
  /\ cancels' = IF sess[r] = cur[Cl(r)] THEN [cancels EXCEPT ![Cl(r)][Job(r)] = NoTask] ELSE cancels
  /\ Goto(r, "store")
  /\ UNCHANGED <<hubVars, down, wire, cur, last, local, sess, flag, out, budget>>

\* the client takes a report without looking at whose it is
MutantAdaptsAny(d, report) == report.status \in Vocabulary(d)

\* adapt_python_report requires the identity of a package with a declaration,
\* adapt_skill_steps_report fills it in.
ClientAdapts(d, report) ==
  /\ IF report.ident = NoDigest THEN Kind[d] = "skill_steps" \/ ~Required(d) ELSE report.ident = d
  /\ report.status \in Vocabulary(d)

FinalState(r) ==
  LET o == out[r]  d == spec[r].digest
  IN  CASE o.kind = "pause"  -> "paused"
        [] o.kind = "report" -> IF ClientAdapts(d, o.report) /\ o.report.status \in Succeeds[d]
                                  THEN "succeeded" ELSE "failed"
        [] o.kind \in {"error", "ask_human", "protocol", "killed"} ->
             IF flag[r] \/ o.kind = "killed" THEN "cancelled"
             ELSE IF o.kind = "ask_human" THEN "paused" ELSE "failed"

ProtocolError(r) ==
  \/ out[r].kind = "protocol"
  \/ out[r].kind = "report" /\ ~ClientAdapts(spec[r].digest, out[r].report)

Store(r) ==
  /\ pc[r] = "store"
  /\ Local(Cl(r), Job(r), FinalState(r), out[r].report)
  /\ Goto(r, "send")
  /\ UNCHANGED <<hubVars, down, wire, cur, last, cancels, sess, flag, out, budget>>

\* the error path stores its state and does not report it
MutantErrorUnsent(r) ==
  /\ pc[r] = "send"
  /\ IF out[r].kind = "error"
       THEN UNCHANGED wire
       ELSE Write(Cl(r), sess[r], State(Cl(r), Job(r), FinalState(r), ProtocolError(r), out[r].report))
  /\ Goto(r, "done")
  /\ UNCHANGED <<hubVars, down, cur, last, local, cancels, sess, flag, out, budget>>

\* The last report; on a broken connection it is lost, nothing sends it again.
SendFinal(r) ==
  /\ pc[r] = "send"
  /\ Write(Cl(r), sess[r], State(Cl(r), Job(r), FinalState(r), ProtocolError(r), out[r].report))
  /\ Goto(r, "done")
  /\ UNCHANGED <<hubVars, down, cur, last, local, cancels, sess, flag, out, budget>>

TaskStep(r) ==
  \/ SkipFinished(r) \/ Load(r) \/ Register(r) \/ Announce(r) \/ Start(r) \/ TakeLock(r)
  \/ LockTimeout(r) \/ Spawn(r) \/ RunEnds(r) \/ RunKilled(r) \/ Unregister(r) \/ Store(r) \/ SendFinal(r)

Receive(c) == ReceiveSubmit(c) \/ ReceiveCancel(c)

Next ==
  \/ \E r \in Requests, s \in Specs : SubmitCheck(r, s)
  \/ \E r \in Requests : SubmitRecord(r) \/ SubmitDispatch(r) \/ TaskStep(r)
  \/ \E j \in Jobs : HubCancel(j)
  \/ \E c \in Clients, s \in Sessions : HubIngest(c, s) \/ HubEof(c, s)
  \/ \E c \in Clients : Receive(c) \/ Heartbeat(c) \/ Connect(c) \/ Cut(c) \/ ClientDies(c)
  \/ HubRestart

Spec == Init /\ [][Next]_vars

\* The runtimes poll every task and connection handler that can move; a run is
\* bounded by its timeout and a flagged one is killed.  Nobody has to submit,
\* cancel, connect, cut, crash or restart.
FairSpec ==
  /\ Spec
  /\ \A r \in Requests : WF_vars(SubmitRecord(r)) /\ WF_vars(SubmitDispatch(r)) /\ WF_vars(TaskStep(r))
  /\ \A c \in Clients : WF_vars(Receive(c))
  /\ \A c \in Clients, s \in Sessions : WF_vars(HubIngest(c, s)) /\ WF_vars(HubEof(c, s))

-----------------------------------------------------------------------------
\* "profile is occupied by an in-flight job (refusing concurrent reuse)"
\* (master_hub.rs:754): although submit_job checks, waits and records in
\* separate critical sections, the index never holds two unfinished jobs of
\* one profile.
OneActivePerProfile == \A p \in Profiles : \A j, k \in OccupiedBy(p) : j = k

\* A validated result on the master was really produced: some run of that very
\* job, on some client, ended with that status.
ResultWasExecuted ==
  \A j \in Jobs : jobs[j] # NoRecord /\ jobs[j].result # NoResult =>
    \E r \in Requests :
      /\ out[r].kind = "report" /\ Job(r) = j
      /\ out[r].report.status = jobs[j].result.status

\* A cancel that reaches the task's flag before the run starts keeps the run
\* from ending with a business result, also while it waits for the profile.
FlaggedNeverReports ==
  \A r \in Requests :
    [](pc[r] \in Before /\ flag[r] => [](out[r].kind \notin {"report", "pause"}))

\* Every task of the daemon comes to an end, however many connections broke
\* under it and whoever holds its profile.
TaskEnds == \A r \in Requests : pc[r] \in Before ~> pc[r] \in {"done", "dead"}

\* A job that was sent over a connection which then stays up ends on the master.
Undisturbed == \A c \in Clients : last[c] = 1 /\ cur[c] = 1
Ends(r) == Asked(r) /\ Finished(Job(r))
DispatchedJobEnds ==
  \A r \in Requests : phase[r] = "sent" /\ Undisturbed ~> ~Undisturbed \/ Ends(r)

\* "same job_id that already finished is not re-run" (jobs.rs:2).
FinishedNotRerun ==
  [][\A r \in Requests : pc[r] # "run" /\ pc'[r] = "run" =>
        jobs[Job(r)].state # "succeeded"]_vars

\* "Cancel job on client (client must stop local worker work)"
\* (master_hub.rs:1094): a task that has not begun its run when the client
\* handles the cancel of its job does not begin it later.
Told(r) == pc[r] \in Before \ {"received"} /\ LocalTerminal(Cl(r), Job(r))
CancelStopsWork == \A r \in Requests : [](Told(r) => [](pc[r] # "run"))

\* Client and master judge a report by rules of their own; for a python_runner
\* package they agree: over a connection that stays up, the master takes the
\* report that the client took.  A job that is asked for again, perhaps with
\* another package, is judged by the last request and decided by the first
\* report, so this is about jobs that are asked for once.
AskedOnce(r) == Asked(r) /\ \A q \in Requests : Asked(q) /\ Job(q) = Job(r) => q = r

ReportsAgree ==
  \A r \in Requests :
    /\ pc[r] = "done" /\ out[r].kind = "report" /\ FinalState(r) = "succeeded"
    /\ Kind[spec[r].digest] = "python_runner" /\ AskedOnce(r)
    /\ Undisturbed /\ \A c \in Clients : wire[c][cur[c]] = <<>>
    => jobs[Job(r)].state = "succeeded"
=============================================================================
