--------------------------- MODULE FleetJobsProofs ---------------------------
(***************************************************************************)
(* What FleetJobs guarantees for every number of jobs, requests, clients   *)
(* and connections: the types, that a profile never serves two unfinished  *)
(* jobs, that a result on the master was produced by a run of its job,     *)
(* that a task flagged before its run reports nothing it computed, and     *)
(* that the master takes the reports that the client took.                 *)
(***************************************************************************)
EXTENDS FleetJobs, SkillStatusProofs, SequenceTheorems, TLAPS

-----------------------------------------------------------------------------
\* The types, with every queue a sequence, and what a step relies on: a message
\* or a task belongs to a request that was made, and a task that is past its run
\* has an outcome.
Waiting == {m \in Submits : Asked(m.req)} \cup CancelMsgs

HubTypes ==
  /\ jobs \in [Jobs -> JobRecord \cup {NoRecord}]
  /\ handle \in [Clients -> 0..MaxSessions] /\ online \in [Clients -> BOOLEAN]
  /\ conn \in [Clients -> SUBSET Sessions]
  /\ phase \in [Requests -> Phases] /\ spec \in [Requests -> Specs \cup {NoSpec}]

NetTypes ==
  /\ down \in [Clients -> Seq(Waiting)]
  /\ wire \in [Clients -> [Sessions -> Seq(Update)]]
  /\ cur \in [Clients -> 0..MaxSessions] /\ last \in [Clients -> 0..MaxSessions]

TaskTypes ==
  /\ local \in [Clients -> [Jobs -> LocalRecord \cup {NoRecord}]]
  /\ cancels \in [Clients -> [Jobs -> Requests \cup {NoTask}]]
  /\ pc \in [Requests -> Pcs] /\ sess \in [Requests -> 0..MaxSessions]
  /\ flag \in [Requests -> BOOLEAN] /\ out \in [Requests -> Outcomes]

Budget == budget \in [cancels : 0..MaxCancels, restarts : 0..MaxRestarts, deaths : 0..MaxDeaths]

Belongs ==
  /\ \A r \in Requests : phase[r] # "new" => Asked(r)
  /\ \A r \in Requests : pc[r] # "none" => Asked(r)
  /\ \A r \in Requests : pc[r] \in After => out[r].kind # "none"

Typed == HubTypes /\ NetTypes /\ TaskTypes /\ Budget /\ Belongs

\* The invariant says more than the type invariant of the runs.
LEMMA TypedGivesTypeOK == Typed => TypeOK
<1> SUFFICES ASSUME Typed PROVE TypeOK
  OBVIOUS
<1>1. \A c \in Clients : \A i \in DOMAIN down[c] : down[c][i] \in Submits \cup CancelMsgs
  <2> SUFFICES ASSUME NEW c \in Clients, NEW i \in DOMAIN down[c]
               PROVE  down[c][i] \in Submits \cup CancelMsgs
    OBVIOUS
  <2>1. down[c] \in Seq(Waiting)
    BY DEF Typed, NetTypes
  <2>2. down[c][i] \in Waiting
    BY <2>1
  <2> QED
    BY <2>2 DEF Waiting
<1>2. \A c \in Clients : \A s \in Sessions : \A i \in DOMAIN wire[c][s] : wire[c][s][i] \in Update
  BY DEF Typed, NetTypes
<1> QED
  BY <1>1, <1>2 DEF Typed, HubTypes, NetTypes, TaskTypes, Budget, TypeOK

\* The outcomes a run has besides a report.
LEMMA OutTyped ==
  ASSUME NEW kind \in {"error", "ask_human", "protocol", "killed", "none"}
  PROVE  Out(kind) \in Outcomes /\ Out(kind).kind = kind
<1>1. Out(kind) \in [kind : {"error", "ask_human", "protocol", "killed", "none"}, report : {NoData}]
  BY DEF Out
<1>2. Out(kind).kind = kind
  BY DEF Out
<1> QED
  BY <1>1, <1>2 DEF Outcomes

\* A fleet that has just started is well typed.
LEMMA TypedInit == Init => Typed
<1> SUFFICES ASSUME Init PROVE Typed
  OBVIOUS
<1>1. HubTypes /\ Budget
  BY FleetAssumption DEF Init, HubTypes, Budget, Phases
<1>2. NetTypes
  BY FleetAssumption DEF Init, NetTypes
<1>3. TaskTypes
  <2>1. Out("none") \in Outcomes
    BY OutTyped
  <2> QED
    BY <2>1, FleetAssumption DEF Init, TaskTypes, Pcs
<1>4. Belongs
  BY DEF Init, Belongs, After
<1> QED
  BY <1>1, <1>2, <1>3, <1>4 DEF Typed

\* What the helpers of the actions do to the variable they set.
LEMMA AskedSpec ==
  ASSUME HubTypes, NEW r \in Requests, Asked(r)
  PROVE  /\ spec[r] \in Specs /\ Cl(r) \in Clients /\ Job(r) \in Jobs
         /\ spec[r].profile \in Profiles /\ spec[r].digest \in Digests
BY FleetAssumption DEF HubTypes, Asked, Cl, Job, Spec0

\* A message to a client keeps the queues well typed,
LEMMA SendTyped ==
  ASSUME NetTypes, NEW c, NEW m \in Waiting, Send(c, m)
  PROVE  down' \in [Clients -> Seq(Waiting)]
<1>1. \A d \in Clients : Append(down[d], m) \in Seq(Waiting)
  BY DEF NetTypes
<1> QED
  BY <1>1 DEF NetTypes, Send

\* and so does a report on the wire of a session.
LEMMA WriteTyped ==
  ASSUME NetTypes, NEW c \in Clients, NEW s, NEW m \in Update, Write(c, s, m)
  PROVE  wire' \in [Clients -> [Sessions -> Seq(Update)]]
<1>1. \A t \in Sessions : Append(wire[c][t], m) \in Seq(Update)
  BY DEF NetTypes
<1> QED
  BY <1>1 DEF NetTypes, Write

\* A report built from well-typed parts is one.
LEMMA StateTyped ==
  ASSUME NEW c \in Clients, NEW j \in Jobs, NEW state \in JobStates,
         NEW perr \in BOOLEAN, NEW data \in Data
  PROVE  State(c, j, state, perr, data) \in Update
BY DEF State, Update

\* The write of a job file (jobs.rs) keeps the files well typed.
LEMMA LocalTyped ==
  ASSUME TaskTypes, NEW c \in Clients, NEW j \in Jobs, NEW state \in JobStates,
         NEW data \in Data, Local(c, j, state, data)
  PROVE  local' \in [Clients -> [Jobs -> LocalRecord \cup {NoRecord}]]
<1> DEFINE new == [state |-> state,
                   data |-> IF data # NoData \/ local[c][j] = NoRecord THEN data ELSE local[c][j].data]
<1>1. new \in LocalRecord
  BY DEF TaskTypes, LocalRecord
<1>2. local' = [local EXCEPT ![c] = [local[c] EXCEPT ![j] = new]]
  BY DEF Local
<1> HIDE DEF new
<1> QED
  BY <1>1, <1>2 DEF TaskTypes

\* A broken connection leaves a prefix of what was on the wire.
LEMMA LostTyped ==
  ASSUME NetTypes, NEW c \in Clients, cur[c] # 0, NEW n \in 0..Len(wire[c][cur[c]]), Lost(c, n)
  PROVE  /\ down' \in [Clients -> Seq(Waiting)]
         /\ wire' \in [Clients -> [Sessions -> Seq(Update)]]
         /\ cur' \in [Clients -> 0..MaxSessions]
<1>1. cur[c] \in Sessions
  BY FleetAssumption DEF NetTypes, Sessions
<1>2. wire[c][cur[c]] \in Seq(Update)
  BY <1>1 DEF NetTypes
<1>3. SubSeq(wire[c][cur[c]], 1, n) \in Seq(Update)
  BY <1>2, SubSeqProperties
<1>4. wire' = [wire EXCEPT ![c] = [wire[c] EXCEPT ![cur[c]] = SubSeq(wire[c][cur[c]], 1, n)]]
  BY DEF Lost
<1>5. wire' \in [Clients -> [Sessions -> Seq(Update)]]
  BY <1>1, <1>3, <1>4 DEF NetTypes
<1>6. << >> \in Seq(Waiting)
  OBVIOUS
<1> QED
  BY <1>5, <1>6, FleetAssumption DEF NetTypes, Lost

\* The state a task ends in, and what it reports.
LEMMA FinalTyped ==
  ASSUME TaskTypes, Belongs, NEW r \in Requests, pc[r] \in After
  PROVE  /\ FinalState(r) \in JobStates
         /\ out[r].report \in Data
         /\ out[r].kind = "report" => out[r].report \in Reports /\ ~out[r].report.paused
<1>1. out[r] \in Outcomes /\ out[r].kind # "none"
  BY DEF TaskTypes, Belongs
<1>2. out[r].kind \in {"report", "pause", "error", "ask_human", "protocol", "killed"}
  BY <1>1 DEF Outcomes
<1>3. FinalState(r) \in JobStates
  BY <1>2 DEF FinalState, JobStates
<1>4. out[r].report \in Data /\ (out[r].kind = "report" => out[r].report \in Reports /\ ~out[r].report.paused)
  BY <1>1, FleetAssumption DEF Outcomes, Data
<1> QED
  BY <1>3, <1>4

\* Task steps.
LEMMA TaskTyped ==
  ASSUME Typed, NEW r \in Requests, TaskStep(r)
  PROVE  Typed'
<1> DEFINE c == Cl(r)
           Goal == /\ wire' \in [Clients -> [Sessions -> Seq(Update)]]
                   /\ TaskTypes'
                   /\ \A q \in Requests : pc'[q] # "none" => pc[q] # "none"
                   /\ \A q \in Requests : pc'[q] \in After => out'[q].kind # "none"
<1>1. pc[r] # "none"
  BY DEF TaskStep, SkipFinished, Load, Register, Announce, Start, TakeLock, LockTimeout, Spawn,
         RunEnds, RunKilled, EndRun, Unregister, Store, SendFinal
<1>2. Asked(r) /\ c \in Clients /\ Job(r) \in Jobs
  BY <1>1, AskedSpec DEF Typed, Belongs
<1>3. UNCHANGED hubVars /\ UNCHANGED <<down, cur, last, sess, flag, budget>>
  BY DEF TaskStep, SkipFinished, Load, Register, Announce, Start, TakeLock, LockTimeout, Spawn,
         RunEnds, RunKilled, EndRun, Unregister, Store, SendFinal, hubVars
<1>4. HubTypes' /\ Budget' /\ Waiting' = Waiting
  BY <1>3 DEF Typed, HubTypes, Budget, hubVars, Waiting, Asked
<1>5. SUFFICES Goal
  BY <1>3, <1>4 DEF Typed, NetTypes, Belongs, hubVars, Asked
<1> HIDE DEF c
<1> USE <1>1, <1>2 DEF Typed, NetTypes, TaskTypes, Belongs, Goto, Before, After, Pcs
<1>6. ASSUME NEW o \in Outcomes, o.kind # "none", EndRun(r, o)
      PROVE  Goal
  BY <1>6 DEF EndRun
<1>7. /\ Out("killed") \in Outcomes /\ Out("killed").kind # "none"
      /\ Out("error") \in Outcomes /\ Out("error").kind # "none"
  BY OutTyped
<1>8. CASE SkipFinished(r)
  <2> DEFINE l == local[c][Job(r)]
             m == State(c, Job(r), l.state, FALSE, IF l.data = NoData THEN NullData ELSE l.data)
  <2>1. l \in LocalRecord
    BY <1>8 DEF SkipFinished, LocalTerminal, c
  <2>2. m \in Update
    BY <2>1, StateTyped DEF LocalRecord, Data
  <2>3. Write(c, sess[r], m)
    BY <1>8 DEF SkipFinished, c
  <2>4. wire' \in [Clients -> [Sessions -> Seq(Update)]]
    BY <2>2, <2>3, WriteTyped
  <2> QED
    BY <1>8, <2>4 DEF SkipFinished
<1>9. CASE Load(r)
  BY <1>9 DEF Load
<1>10. CASE Register(r)
  <2>1. local' \in [Clients -> [Jobs -> LocalRecord \cup {NoRecord}]]
    BY <1>10, LocalTyped DEF Register, c, JobStates, Data
  <2>2. cancels' \in [Clients -> [Jobs -> Requests \cup {NoTask}]]
    BY <1>10 DEF Register
  <2> QED
    BY <1>10, <2>1, <2>2 DEF Register
<1>11. CASE Announce(r)
  <2>1. State(c, Job(r), "running", FALSE, NoData) \in Update
    BY StateTyped DEF JobStates, Data
  <2>2. wire' \in [Clients -> [Sessions -> Seq(Update)]]
    BY <1>11, <2>1, WriteTyped DEF Announce, c
  <2> QED
    BY <1>11, <2>2 DEF Announce
<1>12. CASE Start(r)
  BY <1>6, <1>7, <1>12 DEF Start
<1>13. CASE TakeLock(r) \/ LockTimeout(r)
  BY <1>6, <1>7, <1>13 DEF TakeLock, LockTimeout
<1>14. CASE Spawn(r)
  BY <1>6, <1>7, <1>14 DEF Spawn
<1>15. CASE RunEnds(r) \/ RunKilled(r)
  BY <1>6, <1>7, <1>15 DEF RunEnds, RunKilled
<1>16. CASE Unregister(r)
  BY <1>16 DEF Unregister
<1>17. CASE Store(r)
  <2>1. FinalState(r) \in JobStates /\ out[r].report \in Data
    BY <1>17, FinalTyped DEF Store
  <2>2. local' \in [Clients -> [Jobs -> LocalRecord \cup {NoRecord}]]
    BY <1>17, <2>1, LocalTyped DEF Store, c
  <2> QED
    BY <1>17, <2>2 DEF Store
<1>18. CASE SendFinal(r)
  <2> DEFINE m == State(c, Job(r), FinalState(r), ProtocolError(r), out[r].report)
  <2>1. FinalState(r) \in JobStates /\ out[r].report \in Data
    BY <1>18, FinalTyped DEF SendFinal
  <2>2. ProtocolError(r) \in BOOLEAN
    BY DEF ProtocolError
  <2>3. m \in Update
    BY <2>1, <2>2, StateTyped
  <2>4. wire' \in [Clients -> [Sessions -> Seq(Update)]]
    BY <1>18, <2>3, WriteTyped DEF SendFinal, c
  <2> QED
    BY <1>18, <2>4 DEF SendFinal
<1> QED
  BY <1>8, <1>9, <1>10, <1>11, <1>12, <1>13, <1>14, <1>15, <1>16, <1>17, <1>18 DEF TaskStep

\* A request: read, record, dispatch (submit_job).
LEMMA QueuedTyped ==
  ASSUME HubTypes, NEW s \in Spec0, ~Finished(s.job)
  PROVE  /\ Queued(s) \in JobRecord
         /\ Queued(s).profile = s.profile
<1> DEFINE r == IF jobs[s.job] = NoRecord THEN NewRecord(s.client, SkillOf[s.digest], s.profile)
                                          ELSE jobs[s.job]
<1>1. /\ s.job \in Jobs /\ s.client \in Clients /\ s.profile \in Profiles /\ s.digest \in Digests
      /\ SkillOf[s.digest] \in Skills
  BY DeclarationAssumption DEF Spec0
<1>2. r \in JobRecord
  BY <1>1 DEF HubTypes, NewRecord, JobRecord, JobStates, Data
<1>3. Queued(s) = [r EXCEPT !.client = s.client, !.skill = SkillOf[s.digest], !.profile = s.profile,
                            !.digest = s.digest, !.state = "queued"]
  BY DEF Queued
<1> HIDE DEF r
<1> QED
  BY <1>1, <1>2, <1>3 DEF JobRecord, JobStates

\* The three phases of submit_job keep the types.
LEMMA RequestTyped ==
  ASSUME Typed, NEW r \in Requests,
         (\E s \in Specs : SubmitCheck(r, s)) \/ SubmitRecord(r) \/ SubmitDispatch(r)
  PROVE  Typed'
<1> USE DEF Typed
<1>1. CASE \E s \in Specs : SubmitCheck(r, s)
  <2> PICK s \in Specs : SubmitCheck(r, s)
    BY <1>1
  <2> USE DEF SubmitCheck, clientVars
  <2>1. \A q \in Requests : Asked(q) => Asked(q)'
    BY FleetAssumption DEF HubTypes, Asked
  <2>2. Asked(r)'
    BY FleetAssumption DEF HubTypes, Asked
  <2>3. HubTypes' /\ Budget' /\ TaskTypes'
    BY DEF HubTypes, Budget, TaskTypes, Phases
  <2>4. Belongs'
    BY <2>1, <2>2 DEF Belongs, HubTypes
  <2>5. Waiting \subseteq Waiting'
    BY <2>1 DEF Waiting, Submits
  <2>6. \A c \in Clients : down[c] \in Seq(Waiting')
    BY <2>5 DEF NetTypes
  <2>7. NetTypes'
    BY <2>6 DEF NetTypes
  <2> QED
    BY <2>3, <2>4, <2>7
<1>2. CASE SubmitRecord(r)
  <2> USE <1>2 DEF SubmitRecord, clientVars
  <2>1. Asked(r) /\ spec[r] \in Spec0
    BY AskedSpec, FleetAssumption DEF Belongs
  <2>2. MayRecord(spec[r]) => Queued(spec[r]) \in JobRecord
    BY <2>1, QueuedTyped DEF MayRecord
  <2>3. HubTypes' /\ Budget' /\ TaskTypes'
    BY <2>2 DEF HubTypes, Budget, TaskTypes, Phases
  <2>4. Waiting' = Waiting
    BY DEF Waiting, Asked
  <2>5. NetTypes'
    BY <2>4 DEF NetTypes
  <2>6. Belongs'
    BY <2>1 DEF Belongs, Asked, HubTypes
  <2> QED
    BY <2>3, <2>5, <2>6
<1>3. CASE SubmitDispatch(r)
  <2> USE <1>3 DEF SubmitDispatch, clientVars
  <2> DEFINE m == [type |-> "job_submit", req |-> r]
  <2>1. Asked(r) /\ m \in Waiting
    BY DEF Belongs, Waiting, Submits
  <2>2. HubTypes' /\ Budget' /\ TaskTypes'
    BY DEF HubTypes, Budget, TaskTypes, Phases
  <2>3. down' \in [Clients -> Seq(Waiting)]
    BY <2>1, SendTyped
  <2>4. Waiting' = Waiting
    BY DEF Waiting, Asked
  <2>5. NetTypes'
    BY <2>3, <2>4 DEF NetTypes
  <2>6. Belongs'
    BY <2>1 DEF Belongs, Asked, HubTypes
  <2> QED
    BY <2>2, <2>5, <2>6
<1> QED
  BY <1>1, <1>2, <1>3

\* The first message of a queue and the rest of it.
LEMMA HeadTail ==
  ASSUME NEW S, NEW q \in Seq(S), q # << >>
  PROVE  Head(q) \in S /\ Tail(q) \in Seq(S)
OBVIOUS

\* The hub's other steps.
LEMMA HubTyped ==
  ASSUME Typed,
         \/ \E j \in Jobs : HubCancel(j)
         \/ \E c \in Clients, s \in Sessions : HubIngest(c, s) \/ HubEof(c, s)
         \/ \E c \in Clients : Heartbeat(c)
         \/ HubRestart
  PROVE  Typed'
<1> USE FleetAssumption DEF Typed, clientVars, Waiting, Asked
<1>1. ASSUME NEW j \in Jobs, HubCancel(j) PROVE Typed'
  <2> USE <1>1 DEF HubCancel
  <2>1. [jobs[j] EXCEPT !.state = "cancelling"] \in JobRecord
    BY DEF Active, HubTypes, JobRecord, JobStates
  <2>2. jobs' = [jobs EXCEPT ![j] = [jobs[j] EXCEPT !.state = "cancelling"]]
    OBVIOUS
  <2>3. HubTypes' /\ TaskTypes' /\ Belongs'
    BY <2>1, <2>2 DEF HubTypes, TaskTypes, Belongs
  <2>4. [type |-> "job_cancel", job |-> j] \in Waiting
    BY DEF CancelMsgs
  <2>5. down' \in [Clients -> Seq(Waiting)]
    BY <2>4, SendTyped
  <2>6. NetTypes'
    BY <2>5 DEF NetTypes
  <2>7. Budget'
    BY DEF Budget
  <2> QED
    BY <2>3, <2>6, <2>7
<1>2. ASSUME NEW c \in Clients, NEW s \in Sessions, HubIngest(c, s) PROVE Typed'
  <2> USE <1>2 DEF HubIngest
  <2> DEFINE u == Head(wire[c][s])
             r == IF jobs[u.job] = NoRecord THEN NewRecord(c, NoSkill, NoProfile) ELSE jobs[u.job]
  <2>1. wire[c][s] \in Seq(Update) /\ wire[c][s] # << >>
    BY DEF NetTypes
  <2>2. u \in Update /\ Tail(wire[c][s]) \in Seq(Update)
    BY <2>1, HeadTail
  <2>3. u.job \in Jobs
    BY <2>2 DEF Update
  <2>4. r \in JobRecord
    BY <2>3 DEF HubTypes, NewRecord, JobRecord, JobStates, Data
  <2>5. ApplyUpdate(r, u, Digests).rec \in JobRecord
    BY <2>2, <2>4, ApplyUpdateFollows DEF Follows
  <2>6. jobs' = [jobs EXCEPT ![u.job] = ApplyUpdate(r, u, Digests).rec]
    OBVIOUS
  <2>7. wire' = [wire EXCEPT ![c] = [wire[c] EXCEPT ![s] = Tail(wire[c][s])]]
    OBVIOUS
  <2> HIDE DEF r, u
  <2>8. HubTypes' /\ TaskTypes' /\ Belongs' /\ Budget'
    BY <2>3, <2>5, <2>6 DEF HubTypes, TaskTypes, Belongs, Budget
  <2> DEFINE row == [wire[c] EXCEPT ![s] = Tail(wire[c][s])]
  <2>11. row \in [Sessions -> Seq(Update)]
    BY <2>2 DEF NetTypes
  <2>12. wire' = [wire EXCEPT ![c] = row]
    BY <2>7
  <2> HIDE DEF row
  <2>9. wire' \in [Clients -> [Sessions -> Seq(Update)]]
    BY <2>11, <2>12 DEF NetTypes
  <2>10. NetTypes'
    BY <2>9 DEF NetTypes
  <2> QED
    BY <2>8, <2>10
<1>3. ASSUME NEW c \in Clients, NEW s \in Sessions, HubEof(c, s) PROVE Typed'
  BY <1>3 DEF HubEof, HubTypes, NetTypes, TaskTypes, Budget, Belongs
<1>4. ASSUME NEW c \in Clients, Heartbeat(c) PROVE Typed'
  BY <1>4 DEF Heartbeat, HubTypes, NetTypes, TaskTypes, Budget, Belongs
<1>5. CASE HubRestart
  <2> USE <1>5 DEF HubRestart
  <2>1. HubTypes'
    BY DEF HubTypes, Phases
  <2>2. TaskTypes'
    BY DEF TaskTypes
  <2>6. Budget'
    BY DEF Budget
  <2>3. Belongs'
    BY DEF Belongs, HubTypes
  <2>4. << >> \in Seq(Waiting) /\ << >> \in Seq(Update)
    OBVIOUS
  <2>5. NetTypes'
    BY <2>4 DEF NetTypes
  <2> QED
    BY <2>1, <2>2, <2>3, <2>5, <2>6
<1> QED
  BY <1>1, <1>2, <1>3, <1>4, <1>5

\* The connection, and the daemon's side of it.
LEMMA ConnectionTyped ==
  ASSUME Typed, NEW c \in Clients, Connect(c) \/ Cut(c) \/ ClientDies(c) \/ Receive(c)
  PROVE  Typed'
<1> USE FleetAssumption DEF Typed, hubVars
<1>1. CASE Connect(c)
  <2> USE <1>1 DEF Connect
  <2>1. last[c] + 1 \in Sessions
    BY DEF NetTypes, Sessions
  <2>2. HubTypes'
    BY <2>1 DEF HubTypes, NetTypes, Sessions
  <2>3. NetTypes'
    BY <2>1 DEF NetTypes, Sessions, Waiting, Asked
  <2>4. TaskTypes' /\ Belongs' /\ Budget'
    BY DEF TaskTypes, Belongs, Budget, Asked
  <2> QED
    BY <2>2, <2>3, <2>4
<1>2. CASE Cut(c)
  <2> USE <1>2 DEF Cut
  <2>1. NetTypes'
    BY LostTyped DEF NetTypes, Waiting, Asked
  <2>2. HubTypes' /\ TaskTypes' /\ Belongs' /\ Budget'
    BY DEF HubTypes, TaskTypes, Belongs, Budget, Asked
  <2> QED
    BY <2>1, <2>2
<1>3. CASE ClientDies(c)
  <2> USE <1>3 DEF ClientDies
  <2>1. NetTypes'
    BY LostTyped DEF NetTypes, Waiting, Asked
  <2>2. HubTypes'
    BY DEF HubTypes
  <2>5. Budget'
    BY DEF Budget
  <2>3. TaskTypes'
    BY DEF TaskTypes, Pcs
  <2>4. Belongs'
    BY DEF Belongs, Asked, Tasks, After, TaskTypes
  <2> QED
    BY <2>1, <2>2, <2>3, <2>4, <2>5
<1>4. CASE ReceiveSubmit(c)
  <2> USE <1>4 DEF ReceiveSubmit
  <2>1. down[c] \in Seq(Waiting) /\ down[c] # << >>
    BY DEF NetTypes
  <2>2. Head(down[c]) \in Waiting /\ Tail(down[c]) \in Seq(Waiting)
    BY <2>1
  <2>3. Head(down[c]).req \in Requests /\ Asked(Head(down[c]).req)
    BY <2>2 DEF Waiting, Submits, CancelMsgs
  <2>4. NetTypes'
    BY <2>2 DEF NetTypes, Waiting, Asked
  <2>5. HubTypes'
    BY DEF HubTypes
  <2>8. Budget'
    BY DEF Budget
  <2>6. TaskTypes'
    BY <2>3 DEF TaskTypes, NetTypes, Goto, Pcs, Before
  <2>7. Belongs'
    BY <2>3 DEF Belongs, Asked, Goto, After, TaskTypes
  <2> QED
    BY <2>4, <2>5, <2>6, <2>7, <2>8
<1>5. CASE ReceiveCancel(c)
  <2> USE <1>5 DEF ReceiveCancel
  <2> DEFINE j == Head(down[c]).job
             m == State(c, j, "cancelled", FALSE, NoData)
  <2>1. down[c] \in Seq(Waiting) /\ down[c] # << >>
    BY DEF NetTypes
  <2>2. Head(down[c]) \in Waiting /\ Tail(down[c]) \in Seq(Waiting)
    BY <2>1
  <2>3. j \in Jobs
    BY <2>2 DEF Waiting, Submits, CancelMsgs
  <2>4. m \in Update
    BY <2>3, StateTyped DEF JobStates, Data
  <2>5. Write(c, cur[c], m)
    OBVIOUS
  <2>6. wire' \in [Clients -> [Sessions -> Seq(Update)]]
    BY <2>4, <2>5, WriteTyped
  <2>7. NetTypes'
    BY <2>2, <2>6 DEF NetTypes, Waiting, Asked
  <2>8. local' \in [Clients -> [Jobs -> LocalRecord \cup {NoRecord}]]
    BY <2>3, LocalTyped DEF JobStates, Data, TaskTypes
  <2>9. HubTypes' /\ TaskTypes' /\ Belongs' /\ Budget'
    BY <2>8 DEF HubTypes, TaskTypes, Belongs, Budget, Asked
  <2> QED
    BY <2>7, <2>9
<1> QED
  BY <1>1, <1>2, <1>3, <1>4, <1>5 DEF Receive

\* Every step keeps the types.
LEMMA TypedStep ==
  ASSUME Typed, [Next]_vars
  PROVE  Typed'
<1>1. CASE UNCHANGED vars
  BY <1>1 DEF vars, hubVars, clientVars, Typed, HubTypes, NetTypes, TaskTypes, Budget, Belongs,
     Waiting, Asked
<1> QED
  BY <1>1, TaskTyped, RequestTyped, HubTyped, ConnectionTyped DEF Next

\* The types, for every step of the hub, the network and the daemons.
THEOREM Typing == Spec => []TypeOK
BY TypedInit, TypedStep, TypedGivesTypeOK, PTL DEF Spec

-----------------------------------------------------------------------------
\* What a step may do to the index: nothing, or to one record, which it leaves
\* finished, with the profile it had, or with a profile that is free or its own.
IndexStep ==
  \/ UNCHANGED jobs
  \/ \E j \in Jobs, q \in JobRecord :
       /\ jobs' = [jobs EXCEPT ![j] = q]
       /\ \/ q.state \in Terminal
          \/ q.profile \notin Profiles
          \/ Active(j) /\ q.profile = jobs[j].profile
          \/ OccupiedBy(q.profile) \subseteq {j}

\* Such a change of the index leaves a profile with at most one active job.
LEMMA IndexStepKeepsOne ==
  ASSUME HubTypes, OneActivePerProfile, IndexStep
  PROVE  OneActivePerProfile'
<1>1. CASE UNCHANGED jobs
  BY <1>1 DEF OneActivePerProfile, OccupiedBy, Active
<1>2. ASSUME NEW j \in Jobs, NEW q \in JobRecord, jobs' = [jobs EXCEPT ![j] = q],
             \/ q.state \in Terminal
             \/ q.profile \notin Profiles
             \/ Active(j) /\ q.profile = jobs[j].profile
             \/ OccupiedBy(q.profile) \subseteq {j}
      PROVE  OneActivePerProfile'
  <2> SUFFICES ASSUME NEW p \in Profiles, NEW k \in OccupiedBy(p)', NEW l \in OccupiedBy(p)'
               PROVE  k = l
    BY DEF OneActivePerProfile
  <2>1. \A i \in Jobs \ {j} : i \in OccupiedBy(p)' => i \in OccupiedBy(p)
    BY <1>2 DEF HubTypes, OccupiedBy, Active
  <2>2. j \in OccupiedBy(p)' => q.state \notin Terminal /\ q.profile = p
    BY <1>2 DEF HubTypes, OccupiedBy, Active
  <2>3. j \in OccupiedBy(p)' => j \in OccupiedBy(p) \/ OccupiedBy(p) \subseteq {j}
    BY <1>2, <2>2 DEF OccupiedBy
  <2>4. k \in Jobs /\ l \in Jobs
    BY DEF OccupiedBy
  <2> QED
    BY <2>1, <2>3, <2>4 DEF OneActivePerProfile
<1> QED
  BY <1>1, <1>2 DEF IndexStep

\* Every step of the system changes the index only in such a way.
LEMMA StepsOfTheIndex ==
  ASSUME Typed, OneActivePerProfile, [Next]_vars
  PROVE  IndexStep
<1> USE DEF Typed, IndexStep
<1>1. ASSUME NEW r \in Requests, SubmitRecord(r) PROVE IndexStep
  <2> DEFINE s == spec[r]
  <2>1. s \in Spec0 /\ s.job \in Jobs /\ s.profile \in Profiles
    BY <1>1, AskedSpec, FleetAssumption DEF Belongs, SubmitRecord, Job
  <2>2. CASE MayRecord(s)
    <3>1. Queued(s) \in JobRecord /\ Queued(s).profile = s.profile
      BY <2>1, <2>2, QueuedTyped DEF MayRecord
    <3>2. OccupiedBy(s.profile) \subseteq {s.job}
      BY <2>1, <2>2 DEF MayRecord, OneActivePerProfile
    <3>3. jobs' = [jobs EXCEPT ![s.job] = Queued(s)]
      BY <1>1, <2>2 DEF SubmitRecord
    <3> QED
      BY <2>1, <3>1, <3>2, <3>3
  <2>3. CASE ~MayRecord(s)
    BY <1>1, <2>3 DEF SubmitRecord
  <2> QED
    BY <2>2, <2>3
<1>2. ASSUME NEW j \in Jobs, HubCancel(j) PROVE IndexStep
  <2> DEFINE q == [jobs[j] EXCEPT !.state = "cancelling"]
  <2>1. q \in JobRecord /\ q.profile = jobs[j].profile /\ Active(j)
    BY <1>2 DEF HubCancel, Active, HubTypes, JobRecord, JobStates
  <2>2. jobs' = [jobs EXCEPT ![j] = q]
    BY <1>2 DEF HubCancel
  <2> HIDE DEF q
  <2> QED
    BY <2>1, <2>2
<1>3. ASSUME NEW c \in Clients, NEW s \in Sessions, HubIngest(c, s) PROVE IndexStep
  <2> DEFINE u == Head(wire[c][s])
             r == IF jobs[u.job] = NoRecord THEN NewRecord(c, NoSkill, NoProfile) ELSE jobs[u.job]
             q == ApplyUpdate(r, u, Digests).rec
  <2>1. u \in Update
    BY <1>3, HeadTail DEF NetTypes, HubIngest
  <2>2. u.job \in Jobs
    BY <2>1 DEF Update
  <2>3. r \in JobRecord
    BY <1>3, <2>2 DEF HubTypes, NewRecord, JobRecord, JobStates, Data
  <2>4. Follows(r, q, Delivers(u.data))
    BY <2>1, <2>3, ApplyUpdateFollows
  <2>5. jobs' = [jobs EXCEPT ![u.job] = q]
    BY <1>3 DEF HubIngest
  <2>6. CASE jobs[u.job] = NoRecord
    <3>1. r.profile = NoProfile
      BY <2>6 DEF NewRecord
    <3> QED
      BY <2>2, <2>4, <2>5, <3>1, AbsentAssumption DEF Follows
  <2>7. CASE jobs[u.job] # NoRecord
    <3>1. r = jobs[u.job]
      BY <2>7
    <3>2. q \in JobRecord /\ (q.state \in Terminal \/ (Active(u.job) /\ q.profile = jobs[u.job].profile))
      BY <2>4, <2>7, <3>1 DEF Follows, Active
    <3> HIDE DEF q, u
    <3> QED
      BY <2>2, <2>5, <3>2
  <2> QED
    BY <2>6, <2>7
<1>4. ASSUME NEW r \in Requests, TaskStep(r) PROVE IndexStep
  BY <1>4 DEF TaskStep, SkipFinished, Load, Register, Announce, Start, TakeLock, LockTimeout, Spawn,
     RunEnds, RunKilled, EndRun, Unregister, Store, SendFinal, hubVars
<1>5. CASE UNCHANGED vars
  BY <1>5 DEF vars, hubVars
<1>6. CASE \/ \E r \in Requests, s \in Specs : SubmitCheck(r, s)
           \/ \E r \in Requests : SubmitDispatch(r)
           \/ \E c \in Clients, s \in Sessions : HubEof(c, s)
           \/ \E c \in Clients : Receive(c) \/ Heartbeat(c) \/ Connect(c) \/ Cut(c) \/ ClientDies(c)
           \/ HubRestart
  BY <1>6 DEF SubmitCheck, SubmitDispatch, HubEof, Receive, ReceiveSubmit, ReceiveCancel, Heartbeat,
     Connect, Cut, ClientDies, HubRestart, hubVars
<1> QED
  BY <1>1, <1>2, <1>3, <1>4, <1>5, <1>6 DEF Next

\* For any number of requests that are checked, recorded, cancelled, reported and
\* lost in any order, no profile serves two unfinished jobs of the index.
THEOREM ProfilesAreNotShared == Spec => []OneActivePerProfile
<1>1. Init => OneActivePerProfile
  BY DEF Init, OneActivePerProfile, OccupiedBy, Active
<1>2. Typed /\ OneActivePerProfile /\ [Next]_vars => Typed' /\ OneActivePerProfile'
  BY TypedStep, StepsOfTheIndex, IndexStepKeepsOne DEF Typed
<1> QED
  BY <1>1, <1>2, TypedInit, PTL DEF Spec

-----------------------------------------------------------------------------
\* Where a result can come from.  A run of j ended in status st; whatever data a
\* message or a job file holds for j has such a run behind it.
Ran(j, st) ==
  \E r \in Requests : out[r].kind = "report" /\ Asked(r) /\ Job(r) = j /\ out[r].report.status = st

Backed(j, data) == \A st \in Delivers(data) : Ran(j, st)

JobsFrom(js) ==
  \A j \in Jobs : js[j] # NoRecord /\ js[j].result # NoResult => Ran(j, js[j].result.status)
LocalFrom(l) ==
  \A c \in Clients, j \in Jobs : l[c][j] # NoRecord => Backed(j, l[c][j].data)
WireFrom(w) ==
  \A c \in Clients, s \in Sessions : \A i \in 1..Len(w[c][s]) : Backed(w[c][s][i].job, w[c][s][i].data)

Produced == JobsFrom(jobs) /\ LocalFrom(local) /\ WireFrom(wire)

\* A request is dispatched once, delivered at most once and run at most once, so
\* that the outcome of a run is never overwritten.
Carries(c, i, r) == /\ i \in 1..Len(down[c])
                    /\ down[c][i].type = "job_submit" /\ down[c][i].req = r

Once ==
  /\ \A r \in Requests : phase[r] = "new" => ~Asked(r)
  /\ \A r \in Requests : pc[r] # "none" => phase[r] = "sent"
  /\ \A r \in Requests : pc[r] \in {"none", "run"} \cup Before => out[r].kind = "none"
  /\ \A r \in Requests, c \in Clients, i \in Nat :
       Carries(c, i, r) => phase[r] = "sent" /\ pc[r] = "none"
  /\ \A r \in Requests, c, d \in Clients, i, k \in Nat :
       Carries(c, i, r) /\ Carries(d, k, r) => c = d /\ i = k

\* Taking the first message of a queue moves the others up.
LEMMA TailCarries ==
  ASSUME NetTypes, NEW c \in Clients, down[c] # << >>, down' = [down EXCEPT ![c] = Tail(@)],
         NEW r \in Requests, NEW d \in Clients, NEW i \in Nat, Carries(d, i, r)'
  PROVE  \/ d # c /\ Carries(d, i, r)
         \/ d = c /\ Carries(c, i + 1, r) /\ i >= 1
<1>1. down[d] \in Seq(Waiting)
  BY DEF NetTypes
<1>2. CASE d # c
  <2>1. down'[d] = down[d]
    BY <1>2 DEF NetTypes
  <2> QED
    BY <1>2, <2>1 DEF Carries
<1>3. CASE d = c
  <2>1. down'[c] = Tail(down[c])
    BY <1>3 DEF NetTypes
  <2>2. i \in 1..Len(Tail(down[c])) /\ Tail(down[c])[i].type = "job_submit" /\ Tail(down[c])[i].req = r
    BY <1>3, <2>1 DEF Carries
  <2>3. Len(Tail(down[c])) = Len(down[c]) - 1 /\ Tail(down[c])[i] = down[c][i + 1]
    BY <1>1, <1>3, <2>2
  <2> QED
    BY <1>1, <1>3, <2>2, <2>3 DEF Carries
<1> QED
  BY <1>2, <1>3

\* A run that has ended stays ended, and what was backed stays backed.
RunsStay == \A r \in Requests : out[r].kind = "report" /\ Asked(r) => out'[r] = out[r] /\ spec'[r] = spec[r]

\* While runs stay as they are, it is enough to look at what is stored and sent.
LEMMA ProducedStays ==
  ASSUME RunsStay, JobsFrom(jobs'), LocalFrom(local'), WireFrom(wire')
  PROVE  Produced'
<1>1. ASSUME NEW j, NEW st, Ran(j, st) PROVE Ran(j, st)'
  BY <1>1 DEF RunsStay, Ran, Asked, Job
<1>2. ASSUME NEW j, NEW data, Backed(j, data)
      PROVE  \A st \in Delivers(data) : Ran(j, st)'
  BY <1>1, <1>2 DEF Backed
<1> QED
  BY <1>1, <1>2 DEF Produced, JobsFrom, LocalFrom, WireFrom, Backed

\* What one step of a task does to the order of its life.
LEMMA TaskFrame ==
  ASSUME Typed, Once, NEW r \in Requests, TaskStep(r)
  PROVE  /\ UNCHANGED <<jobs, phase, spec, down>>
         /\ \A q \in Requests \ {r} : pc'[q] = pc[q] /\ out'[q] = out[q]
         /\ pc[r] # "none" /\ pc'[r] # "none"
         /\ pc'[r] \in {"run"} \cup Before => out'[r].kind = "none"
         /\ out[r].kind # "none" => out'[r] = out[r]
<1> DEFINE Goal == /\ UNCHANGED <<jobs, phase, spec, down>>
                   /\ \A q \in Requests \ {r} : pc'[q] = pc[q] /\ out'[q] = out[q]
                   /\ pc[r] # "none" /\ pc'[r] # "none"
                   /\ pc'[r] \in {"run"} \cup Before => out'[r].kind = "none"
                   /\ out[r].kind # "none" => out'[r] = out[r]
<1> USE DEF Typed, TaskTypes, Once, Goto, Before, hubVars
<1>1. ASSUME NEW o, EndRun(r, o), pc[r] \in {"run"} \cup Before PROVE Goal
  BY <1>1 DEF EndRun
<1>2. CASE Start(r) \/ LockTimeout(r) \/ Spawn(r) \/ RunEnds(r) \/ RunKilled(r) \/ TakeLock(r)
  BY <1>1, <1>2 DEF Start, LockTimeout, Spawn, RunEnds, RunKilled, TakeLock
<1>3. CASE SkipFinished(r) \/ Load(r) \/ Register(r) \/ Announce(r)
  BY <1>3 DEF SkipFinished, Load, Register, Announce
<1>4. CASE Unregister(r) \/ Store(r) \/ SendFinal(r)
  BY <1>4 DEF Unregister, Store, SendFinal
<1> QED
  BY <1>2, <1>3, <1>4 DEF TaskStep

\* A step of a job's task dispatches nothing, and runs nothing a second time.
LEMMA TaskOnce ==
  ASSUME Typed, Once, NEW r \in Requests, TaskStep(r)
  PROVE  Once' /\ RunsStay
<1>1. RunsStay
  BY TaskFrame DEF RunsStay
<1>2. \A q \in Requests, c \in Clients, i \in Nat : Carries(c, i, q)' => Carries(c, i, q)
  BY TaskFrame DEF Carries
<1>3. /\ \A q \in Requests : pc'[q] = "none" <=> pc[q] = "none"
      /\ \A q \in Requests : pc'[q] \in {"none", "run"} \cup Before => out'[q].kind = "none"
  BY TaskFrame DEF Once
<1>4. UNCHANGED <<phase, spec>>
  BY TaskFrame
<1> QED
  BY <1>1, <1>2, <1>3, <1>4 DEF Once, Asked

\* A message appended to the queue of one client.
LEMMA SendCarries ==
  ASSUME NetTypes, NEW c, NEW m \in Waiting, Send(c, m), NEW r \in Requests, NEW d \in Clients,
         NEW i \in Nat, Carries(d, i, r)'
  PROVE  Carries(d, i, r) \/ (d = c /\ i = Len(down[c]) + 1 /\ m.type = "job_submit" /\ m.req = r)
<1>1. down[d] \in Seq(Waiting)
  BY DEF NetTypes
<1>2. CASE down'[d] = down[d]
  BY <1>2 DEF Carries
<1>3. CASE d = c /\ down'[c] = Append(down[c], m)
  BY <1>1, <1>3 DEF Carries
<1>4. down'[d] = down[d] \/ (d = c /\ down'[c] = Append(down[c], m))
  BY DEF Send, NetTypes
<1> QED
  BY <1>2, <1>3, <1>4

\* Neither does a phase of submit_job, which dispatches its own request only.
LEMMA RequestOnce ==
  ASSUME Typed, Once, NEW r \in Requests,
         (\E s \in Specs : SubmitCheck(r, s)) \/ SubmitRecord(r) \/ SubmitDispatch(r)
  PROVE  Once' /\ RunsStay
<1>1. /\ UNCHANGED <<pc, out>>
      /\ \A q \in Requests \ {r} : phase'[q] = phase[q] /\ spec'[q] = spec[q]
      /\ phase[r] # "sent" /\ pc[r] = "none" /\ phase'[r] # "new"
  BY DEF SubmitCheck, SubmitRecord, SubmitDispatch, clientVars, Typed, HubTypes, Once
<1>2. RunsStay
  BY <1>1 DEF RunsStay, Once
<1>3. /\ \A q \in Requests : phase'[q] = "new" => ~Asked(q)'
      /\ \A q \in Requests : pc'[q] # "none" => phase'[q] = "sent"
      /\ \A q \in Requests : pc'[q] \in {"none", "run"} \cup Before => out'[q].kind = "none"
  BY <1>1 DEF Once, Asked
<1>4. \A c \in Clients, i \in Nat : ~Carries(c, i, r)
  BY <1>1 DEF Once
<1>5. CASE SubmitDispatch(r)
  <2> DEFINE m == [type |-> "job_submit", req |-> r]
             c == Cl(r)
  <2>1. m \in Waiting /\ c \in Clients
    BY <1>5, AskedSpec DEF SubmitDispatch, Typed, Belongs, Waiting, Submits
  <2>2. Send(c, m) /\ phase'[r] = (IF Reachable(c) THEN "sent" ELSE "refused")
    BY <1>5 DEF SubmitDispatch, Cl, Typed, HubTypes
  <2>3. ASSUME NEW q \in Requests, NEW d \in Clients, NEW i \in Nat, Carries(d, i, q)'
        PROVE  Carries(d, i, q) \/ (q = r /\ d = c /\ i = Len(down[c]) + 1 /\ Reachable(c))
    <3>1. CASE Reachable(c)
      BY <2>1, <2>2, <2>3, <3>1, SendCarries DEF Typed
    <3>2. CASE ~Reachable(c)
      BY <2>2, <2>3, <3>2 DEF Send, Carries
    <3> QED
      BY <3>1, <3>2
  <2> HIDE DEF m, c
  <2>4. ASSUME NEW q \in Requests, NEW d \in Clients, NEW i \in Nat, Carries(d, i, q)'
        PROVE  phase'[q] = "sent" /\ pc'[q] = "none"
    BY <1>1, <1>4, <2>2, <2>3, <2>4 DEF Once
  <2>5. ASSUME NEW q \in Requests, NEW d \in Clients, NEW e \in Clients, NEW i \in Nat, NEW k \in Nat,
               Carries(d, i, q)', Carries(e, k, q)'
        PROVE  d = e /\ i = k
    BY <1>4, <2>3, <2>5 DEF Once
  <2> QED
    BY <1>2, <1>3, <2>4, <2>5 DEF Once
<1>6. CASE (\E s \in Specs : SubmitCheck(r, s)) \/ SubmitRecord(r)
  <2>1. \A q \in Requests, c \in Clients, i \in Nat : Carries(c, i, q)' => Carries(c, i, q) /\ q # r
    BY <1>4, <1>6 DEF SubmitCheck, SubmitRecord, Carries
  <2> QED
    BY <1>1, <1>2, <1>3, <2>1 DEF Once
<1> QED
  BY <1>5, <1>6

\* A message that is delivered is in no queue any more.
LEMMA DeliveryOnce ==
  ASSUME Typed, Once, NEW c \in Clients, ReceiveSubmit(c)
  PROVE  Once' /\ RunsStay
<1> DEFINE r == Head(down[c]).req
<1>1. down[c] \in Seq(Waiting) /\ down[c] # << >>
  BY DEF Typed, NetTypes, ReceiveSubmit
<1>2. Head(down[c]) \in Waiting /\ Head(down[c]) = down[c][1] /\ Len(down[c]) >= 1
  BY <1>1
<1>3. r \in Requests /\ Carries(c, 1, r)
  BY <1>1, <1>2 DEF ReceiveSubmit, Carries, Waiting, Submits, CancelMsgs
<1>4. phase[r] = "sent" /\ pc[r] = "none"
  BY <1>3 DEF Once
<1>5. /\ UNCHANGED <<out, phase, spec>>
      /\ pc' = [pc EXCEPT ![r] = "received"]
      /\ down' = [down EXCEPT ![c] = Tail(@)]
  BY DEF ReceiveSubmit, Goto, hubVars
<1> HIDE DEF r
<1>6. RunsStay
  BY <1>5 DEF RunsStay
<1>7. /\ \A q \in Requests : phase'[q] = "new" => ~Asked(q)'
      /\ \A q \in Requests : pc'[q] # "none" => phase'[q] = "sent"
      /\ \A q \in Requests : pc'[q] \in {"none", "run"} \cup Before => out'[q].kind = "none"
  BY <1>3, <1>4, <1>5 DEF Once, Asked, Typed, TaskTypes
<1>8. \A q \in Requests, d \in Clients, i \in Nat :
        Carries(d, i, q)' => \/ d # c /\ Carries(d, i, q)
                             \/ d = c /\ Carries(c, i + 1, q) /\ i >= 1
  BY <1>1, <1>5, TailCarries DEF Typed
<1>9. ASSUME NEW q \in Requests, NEW d \in Clients, NEW i \in Nat, Carries(d, i, q)'
      PROVE  phase'[q] = "sent" /\ pc'[q] = "none"
  <2>1. q # r
    BY <1>3, <1>8, <1>9 DEF Once
  <2>2. phase[q] = "sent" /\ pc[q] = "none"
    BY <1>8, <1>9 DEF Once
  <2> QED
    BY <1>5, <2>1, <2>2 DEF Typed, TaskTypes
<1>10. ASSUME NEW q \in Requests, NEW d \in Clients, NEW e \in Clients, NEW i \in Nat, NEW k \in Nat,
              Carries(d, i, q)', Carries(e, k, q)'
       PROVE  d = e /\ i = k
  BY <1>8, <1>10 DEF Once
<1> QED
  BY <1>6, <1>7, <1>9, <1>10 DEF Once

\* The steps that start no task and end no run.
OtherStep ==
  \/ \E j \in Jobs : HubCancel(j)
  \/ \E c \in Clients, s \in Sessions : HubIngest(c, s) \/ HubEof(c, s)
  \/ \E c \in Clients : Heartbeat(c) \/ Connect(c) \/ Cut(c) \/ ClientDies(c) \/ ReceiveCancel(c)
  \/ HubRestart
  \/ UNCHANGED vars

\* The other steps put no request into a queue.
LEMMA OtherCarries ==
  ASSUME Typed, OtherStep, ~ \E c \in Clients : ReceiveCancel(c),
         NEW r \in Requests, NEW d \in Clients, NEW i \in Nat, Carries(d, i, r)'
  PROVE  Carries(d, i, r)
<1> USE DEF Typed
<1>1. CASE \E j \in Jobs : HubCancel(j)
  <2> PICK j \in Jobs : HubCancel(j)
    BY <1>1
  <2> DEFINE m == [type |-> "job_cancel", job |-> j]
  <2>1. m \in Waiting /\ m.type # "job_submit" /\ Send(jobs[j].client, m)
    BY DEF HubCancel, Waiting, CancelMsgs
  <2> HIDE DEF m
  <2> QED
    BY <2>1, SendCarries
<1>2. CASE HubRestart
  BY <1>2 DEF HubRestart, Carries
<1>3. ASSUME NEW c \in Clients, NEW n, Lost(c, n) PROVE Carries(d, i, r)
  BY <1>3 DEF Lost, Carries, NetTypes
<1>4. CASE \E c \in Clients : Cut(c) \/ ClientDies(c)
  <2>1. UNCHANGED down \/ \E c \in Clients : \E n : Lost(c, n)
    BY <1>4 DEF Cut, ClientDies
  <2> QED
    BY <1>3, <2>1 DEF Carries
<1>5. CASE \/ \E c \in Clients, s \in Sessions : HubIngest(c, s) \/ HubEof(c, s)
           \/ \E c \in Clients : Heartbeat(c) \/ Connect(c)
           \/ UNCHANGED vars
  <2>1. UNCHANGED down
    BY <1>5 DEF HubIngest, HubEof, Heartbeat, Connect, vars
  <2> QED
    BY <2>1 DEF Carries
<1> QED
  BY <1>1, <1>2, <1>4, <1>5 DEF OtherStep

\* So they keep a request in one place.
LEMMA OtherOnce ==
  ASSUME Typed, Once, OtherStep
  PROVE  Once' /\ RunsStay
<1>1. /\ UNCHANGED <<out, spec>>
      /\ \A q \in Requests : phase'[q] = phase[q] \/ (phase[q] \in {"checked", "recorded"} /\ phase'[q] = "refused")
      /\ \A q \in Requests : pc'[q] = pc[q] \/ (pc[q] # "none" /\ pc'[q] = "dead")
  <2>1. CASE HubRestart
    BY <2>1 DEF HubRestart, Typed, HubTypes
  <2>2. CASE \E c \in Clients : ClientDies(c)
    BY <2>2 DEF ClientDies, hubVars, Tasks, Typed, TaskTypes
  <2>3. CASE UNCHANGED vars
    BY <2>3 DEF vars, hubVars, clientVars
  <2> QED
    BY <2>1, <2>2, <2>3 DEF OtherStep, HubCancel, HubIngest, HubEof, Heartbeat, Connect, Cut,
       ReceiveCancel, hubVars, clientVars
<1>2. RunsStay
  BY <1>1 DEF RunsStay
<1>3. /\ \A q \in Requests : phase'[q] = "new" => ~Asked(q)'
      /\ \A q \in Requests : pc'[q] # "none" => phase'[q] = "sent"
      /\ \A q \in Requests : pc'[q] \in {"none", "run"} \cup Before => out'[q].kind = "none"
  BY <1>1 DEF Once, Asked, Before
<1>4. \A q \in Requests : phase[q] = "sent" /\ pc[q] = "none" => phase'[q] = "sent" /\ pc'[q] = "none"
  BY <1>1
<1>5. CASE ~ \E c \in Clients : ReceiveCancel(c)
  <2>1. \A q \in Requests, d \in Clients, i \in Nat : Carries(d, i, q)' => Carries(d, i, q)
    BY <1>5, OtherCarries
  <2> QED
    BY <1>2, <1>3, <1>4, <2>1 DEF Once
<1>6. CASE \E c \in Clients : ReceiveCancel(c)
  <2> PICK c \in Clients : ReceiveCancel(c)
    BY <1>6
  <2>1. \A q \in Requests, d \in Clients, i \in Nat :
          Carries(d, i, q)' => \/ d # c /\ Carries(d, i, q)
                               \/ d = c /\ Carries(c, i + 1, q) /\ i >= 1
    BY TailCarries DEF ReceiveCancel, Typed
  <2>2. \A q \in Requests, d \in Clients, i \in Nat :
          Carries(d, i, q)' => phase'[q] = "sent" /\ pc'[q] = "none"
    BY <1>4, <2>1 DEF Once
  <2>3. ASSUME NEW q \in Requests, NEW d \in Clients, NEW e \in Clients, NEW i \in Nat, NEW k \in Nat,
               Carries(d, i, q)', Carries(e, k, q)'
        PROVE  d = e /\ i = k
    BY <2>1, <2>3 DEF Once
  <2> QED
    BY <1>2, <1>3, <2>2, <2>3 DEF Once
<1> QED
  BY <1>5, <1>6

\* Absent data decides nothing, and the data of a task that has run is its own.
LEMMA NothingBacked ==
  ASSUME NEW j
  PROVE  Backed(j, NoData) /\ Backed(j, NullData)
BY NoRecordAssumption DEF Backed, Delivers

\* The report a task ends with is the outcome of its own run.
LEMMA FinalBacked ==
  ASSUME Typed, NEW r \in Requests, Asked(r), pc[r] \in After
  PROVE  Backed(Job(r), out[r].report)
<1>1. out[r] \in Outcomes
  BY DEF Typed, TaskTypes
<1>2. out[r].report \in Report /\ ~out[r].report.paused => out[r].kind = "report"
  BY <1>1, NoRecordAssumption DEF Outcomes
<1> QED
  BY <1>2 DEF Backed, Delivers, Ran

\* A message with a run behind it may be put on a wire,
LEMMA WriteFrom ==
  ASSUME NetTypes, WireFrom(wire), NEW c \in Clients, NEW s, NEW m \in Update, Write(c, s, m),
         Backed(m.job, m.data)
  PROVE  WireFrom(wire')
<1> SUFFICES ASSUME NEW d \in Clients, NEW t \in Sessions, NEW i \in 1..Len(wire'[d][t])
             PROVE  Backed(wire'[d][t][i].job, wire'[d][t][i].data)
  BY DEF WireFrom
<1>1. wire[d][t] \in Seq(Update)
  BY DEF NetTypes
<1>2. wire'[d][t] = wire[d][t] \/ wire'[d][t] = Append(wire[d][t], m)
  BY DEF Write, NetTypes
<1>3. wire'[d][t][i] = m \/ (i \in 1..Len(wire[d][t]) /\ wire'[d][t][i] = wire[d][t][i])
  BY <1>1, <1>2
<1> QED
  BY <1>3 DEF WireFrom

\* and a result with a run behind it into a job file.
LEMMA StoreFrom ==
  ASSUME TaskTypes, LocalFrom(local), NEW c \in Clients, NEW j \in Jobs, NEW state, NEW data,
         Local(c, j, state, data), Backed(j, data)
  PROVE  LocalFrom(local')
<1> SUFFICES ASSUME NEW d \in Clients, NEW k \in Jobs, local'[d][k] # NoRecord
             PROVE  Backed(k, local'[d][k].data)
  BY DEF LocalFrom
<1>1. CASE d # c \/ k # j
  BY <1>1 DEF Local, LocalFrom, TaskTypes
<1>2. CASE d = c /\ k = j
  BY <1>2 DEF Local, LocalFrom, TaskTypes
<1> QED
  BY <1>1, <1>2

\* What a job's task writes and sends is the outcome of its run.
LEMMA TaskProduced ==
  ASSUME Typed, Once, Produced, NEW r \in Requests, TaskStep(r)
  PROVE  Produced'
<1> DEFINE Goal == LocalFrom(local') /\ WireFrom(wire')
<1>1. RunsStay /\ JobsFrom(jobs')
  BY TaskOnce, TaskFrame DEF Produced, JobsFrom
<1>2. SUFFICES Goal
  BY <1>1, ProducedStays
<1>3. Asked(r) /\ Cl(r) \in Clients /\ Job(r) \in Jobs
  BY TaskFrame, AskedSpec DEF Typed, Belongs
<1> USE <1>3 DEF Typed, Produced
<1>4. CASE SkipFinished(r)
  <2> DEFINE l == local[Cl(r)][Job(r)]
             data == IF l.data = NoData THEN NullData ELSE l.data
             m == State(Cl(r), Job(r), l.state, FALSE, data)
  <2>1. l \in LocalRecord /\ l # NoRecord
    BY <1>4 DEF SkipFinished, LocalTerminal, TaskTypes
  <2>2. Backed(Job(r), data)
    BY <2>1, NothingBacked DEF LocalFrom
  <2>3. m \in Update /\ m.job = Job(r) /\ m.data = data
    <3>1. l.state \in JobStates /\ data \in Data
      BY <2>1 DEF LocalRecord, Data
    <3> QED
      BY <3>1, StateTyped DEF State
  <2>4. Write(Cl(r), sess[r], m)
    BY <1>4 DEF SkipFinished
  <2> HIDE DEF m, data, l
  <2>5. WireFrom(wire')
    BY <2>2, <2>3, <2>4, WriteFrom
  <2> QED
    BY <1>4, <2>5 DEF SkipFinished
<1>5. CASE Register(r)
  <2>1. LocalFrom(local')
    BY <1>5, NothingBacked, StoreFrom DEF Register
  <2> QED
    BY <1>5, <2>1 DEF Register
<1>6. CASE Announce(r)
  <2> DEFINE m == State(Cl(r), Job(r), "running", FALSE, NoData)
  <2>1. m \in Update /\ m.data = NoData
    BY StateTyped DEF JobStates, Data, State
  <2>2. WireFrom(wire')
    BY <1>6, <2>1, NothingBacked, WriteFrom DEF Announce
  <2> QED
    BY <1>6, <2>2 DEF Announce
<1>7. CASE Store(r)
  <2>1. LocalFrom(local')
    BY <1>7, FinalBacked, StoreFrom DEF Store, After
  <2> QED
    BY <1>7, <2>1 DEF Store
<1>8. CASE SendFinal(r)
  <2> DEFINE m == State(Cl(r), Job(r), FinalState(r), ProtocolError(r), out[r].report)
  <2>1. FinalState(r) \in JobStates /\ out[r].report \in Data /\ ProtocolError(r) \in BOOLEAN
    BY <1>8, FinalTyped DEF SendFinal, After, ProtocolError
  <2>2. m \in Update /\ m.job = Job(r) /\ m.data = out[r].report
    BY <2>1, StateTyped DEF State
  <2>3. Backed(m.job, m.data)
    BY <1>8, <2>2, FinalBacked DEF SendFinal, After
  <2>4. Write(Cl(r), sess[r], m)
    BY <1>8 DEF SendFinal
  <2> HIDE DEF m
  <2>5. WireFrom(wire')
    BY <2>2, <2>3, <2>4, WriteFrom
  <2> QED
    BY <1>8, <2>5 DEF SendFinal
<1>9. CASE \/ Load(r) \/ Start(r) \/ TakeLock(r) \/ LockTimeout(r) \/ Spawn(r) \/ RunEnds(r)
           \/ RunKilled(r) \/ Unregister(r)
  BY <1>9 DEF Load, Start, TakeLock, LockTimeout, Spawn, RunEnds, RunKilled, EndRun, Unregister
<1> QED
  BY <1>4, <1>5, <1>6, <1>7, <1>8, <1>9 DEF TaskStep

\* What the hub takes from a report has the run of that report behind it.
LEMMA IngestProduced ==
  ASSUME Typed, Produced, NEW c \in Clients, NEW s \in Sessions, HubIngest(c, s)
  PROVE  JobsFrom(jobs') /\ WireFrom(wire')
<1> DEFINE u == wire[c][s][1]
           r == IF jobs[u.job] = NoRecord THEN NewRecord(c, NoSkill, NoProfile) ELSE jobs[u.job]
           q == ApplyUpdate(r, u, Digests).rec
<1>1. wire[c][s] \in Seq(Update) /\ Len(wire[c][s]) >= 1 /\ Head(wire[c][s]) = u
  BY DEF Typed, NetTypes, HubIngest
<1>2. u \in Update /\ u.job \in Jobs /\ Backed(u.job, u.data)
  <2>1. u \in Update
    BY <1>1
  <2>2. Backed(u.job, u.data)
    <3>1. 1 \in 1..Len(wire[c][s])
      BY <1>1
    <3> QED
      BY <3>1 DEF Produced, WireFrom
  <2> QED
    BY <2>1, <2>2 DEF Update
<1>3. r \in JobRecord
  BY <1>2 DEF Typed, HubTypes, NewRecord, JobRecord, JobStates, Data
<1>4. Follows(r, q, Delivers(u.data))
  BY <1>2, <1>3, ApplyUpdateFollows
<1>5. jobs' = [jobs EXCEPT ![u.job] = q] /\ wire' = [wire EXCEPT ![c] = [wire[c] EXCEPT ![s] = Tail(wire[c][s])]]
  BY <1>1 DEF HubIngest
<1>6. r.result # NoResult => Ran(u.job, r.result.status)
  BY <1>2 DEF NewRecord, Produced, JobsFrom
<1>7. q.result # NoResult => Ran(u.job, q.result.status)
  BY <1>2, <1>4, <1>6 DEF Follows, Backed
<1> HIDE DEF q, r
<1>8. JobsFrom(jobs')
  BY <1>2, <1>5, <1>7 DEF Produced, JobsFrom, Typed, HubTypes
<1>9. WireFrom(wire')
  <2> SUFFICES ASSUME NEW d \in Clients, NEW t \in Sessions, NEW i \in 1..Len(wire'[d][t])
               PROVE  Backed(wire'[d][t][i].job, wire'[d][t][i].data)
    BY DEF WireFrom
  <2>1. CASE d # c \/ t # s
    BY <1>5, <2>1 DEF Produced, WireFrom, Typed, NetTypes
  <2>2. CASE d = c /\ t = s
    <3>1. wire'[d][t] = Tail(wire[c][s])
      BY <1>5, <2>2 DEF Typed, NetTypes
    <3>2. wire'[d][t][i] = wire[c][s][i + 1] /\ i + 1 \in 1..Len(wire[c][s])
      BY <1>1, <3>1
    <3> QED
      BY <3>2 DEF Produced, WireFrom
  <2> QED
    BY <2>1, <2>2
<1> QED
  BY <1>8, <1>9

\* A lost message takes nothing from those that remain.
LEMMA LostFrom ==
  ASSUME NetTypes, WireFrom(wire), NEW c \in Clients, cur[c] # 0, NEW n \in 0..Len(wire[c][cur[c]]), Lost(c, n)
  PROVE  WireFrom(wire')
<1> SUFFICES ASSUME NEW d \in Clients, NEW t \in Sessions, NEW i \in 1..Len(wire'[d][t])
             PROVE  Backed(wire'[d][t][i].job, wire'[d][t][i].data)
  BY DEF WireFrom
<1>1. cur[c] \in Sessions /\ wire[c][cur[c]] \in Seq(Update)
  BY FleetAssumption DEF NetTypes, Sessions
<1>2. wire' = [wire EXCEPT ![c] = [wire[c] EXCEPT ![cur[c]] = SubSeq(wire[c][cur[c]], 1, n)]]
  BY DEF Lost
<1>3. CASE d # c \/ t # cur[c]
  BY <1>2, <1>3 DEF WireFrom, NetTypes
<1>4. CASE d = c /\ t = cur[c]
  <2>1. wire'[d][t] = SubSeq(wire[c][cur[c]], 1, n)
    BY <1>1, <1>2, <1>4 DEF NetTypes
  <2>2. i \in 1..Len(wire[c][cur[c]]) /\ wire'[d][t][i] = wire[c][cur[c]][i]
    BY <1>1, <2>1, SubSeqProperties
  <2> QED
    BY <1>1, <2>2 DEF WireFrom
<1> QED
  BY <1>3, <1>4

\* The steps that neither run a job nor read a report add no result.
LEMMA OtherProduced ==
  ASSUME Typed, Produced, RunsStay,
         \/ OtherStep
         \/ \E c \in Clients : ReceiveSubmit(c)
         \/ \E r \in Requests : (\E s \in Specs : SubmitCheck(r, s)) \/ SubmitRecord(r) \/ SubmitDispatch(r)
  PROVE  Produced'
<1> DEFINE Goal == JobsFrom(jobs') /\ LocalFrom(local') /\ WireFrom(wire')
<1> SUFFICES Goal
  BY ProducedStays
<1> USE DEF Typed, Produced
<1>1. ASSUME NEW r \in Requests, SubmitRecord(r) PROVE Goal
  <2> DEFINE s == spec[r]
  <2>1. s \in Spec0 /\ s.job \in Jobs
    BY <1>1, AskedSpec, FleetAssumption DEF Belongs, SubmitRecord, Job
  <2>2. UNCHANGED <<local, wire>>
    BY <1>1 DEF SubmitRecord, clientVars
  <2>3. CASE MayRecord(s)
    <3>1. jobs' = [jobs EXCEPT ![s.job] = Queued(s)]
      BY <1>1, <2>3 DEF SubmitRecord
    <3>2. Queued(s).result = (IF jobs[s.job] = NoRecord THEN NoResult ELSE jobs[s.job].result)
      <4>1. jobs[s.job] \in JobRecord \cup {NoRecord}
        BY <2>1 DEF HubTypes
      <4> QED
        BY <4>1 DEF Queued, NewRecord, JobRecord
    <3> HIDE DEF s
    <3>3. JobsFrom(jobs')
      BY <2>1, <3>1, <3>2 DEF JobsFrom, HubTypes
    <3> QED
      BY <2>2, <3>3
  <2>4. CASE ~MayRecord(s)
    BY <1>1, <2>2, <2>4 DEF SubmitRecord
  <2> QED
    BY <2>3, <2>4
<1>2. ASSUME NEW j \in Jobs, HubCancel(j) PROVE Goal
  <2>1. UNCHANGED <<local, wire>>
    BY <1>2 DEF HubCancel, clientVars
  <2>2. jobs' = [jobs EXCEPT ![j] = [jobs[j] EXCEPT !.state = "cancelling"]] /\ jobs[j].result = NoResult
        /\ jobs[j] \in JobRecord
    BY <1>2 DEF HubCancel, Active, HubTypes
  <2>3. [jobs[j] EXCEPT !.state = "cancelling"].result = NoResult
    BY <2>2 DEF JobRecord
  <2>4. JobsFrom(jobs')
    BY <2>2, <2>3 DEF JobsFrom, HubTypes
  <2> QED
    BY <2>1, <2>4
<1>3. ASSUME NEW c \in Clients, NEW s \in Sessions, HubIngest(c, s) PROVE Goal
  <2>1. UNCHANGED local
    BY <1>3 DEF HubIngest, clientVars
  <2> QED
    BY <1>3, <2>1, IngestProduced
<1>4. CASE HubRestart
  <2>1. WireFrom(wire')
    BY <1>4 DEF HubRestart, WireFrom
  <2> QED
    BY <1>4, <2>1 DEF HubRestart
<1>5. ASSUME NEW c \in Clients, Cut(c) \/ ClientDies(c) PROVE Goal
  <2>1. UNCHANGED <<jobs, local>>
    BY <1>5 DEF Cut, ClientDies, hubVars
  <2>2. WireFrom(wire')
    BY <1>5, LostFrom DEF Cut, ClientDies
  <2> QED
    BY <2>1, <2>2
<1>6. ASSUME NEW c \in Clients, ReceiveCancel(c) PROVE Goal
  <2> DEFINE j == Head(down[c]).job
             m == State(c, j, "cancelled", FALSE, NoData)
  <2>1. j \in Jobs
    <3>1. Head(down[c]) \in Waiting
      BY <1>6, HeadTail DEF NetTypes, ReceiveCancel
    <3> QED
      BY <1>6, <3>1 DEF ReceiveCancel, Waiting, Submits, CancelMsgs
  <2>2. m \in Update /\ m.data = NoData
    BY <2>1, StateTyped DEF JobStates, Data, State
  <2>3. Write(c, cur[c], m) /\ UNCHANGED jobs /\ (UNCHANGED local \/ Local(c, j, "cancelled", NoData))
    BY <1>6 DEF ReceiveCancel, hubVars
  <2> HIDE DEF m, j
  <2>4. WireFrom(wire')
    BY <2>2, <2>3, NothingBacked, WriteFrom
  <2>5. LocalFrom(local')
    BY <2>1, <2>3, NothingBacked, StoreFrom
  <2> QED
    BY <2>3, <2>4, <2>5
<1>7. CASE \/ \E c \in Clients, s \in Sessions : HubEof(c, s)
           \/ \E c \in Clients : Heartbeat(c) \/ Connect(c) \/ ReceiveSubmit(c)
           \/ \E r \in Requests : (\E s \in Specs : SubmitCheck(r, s)) \/ SubmitDispatch(r)
           \/ UNCHANGED vars
  <2>1. UNCHANGED <<jobs, local, wire>>
    BY <1>7 DEF HubEof, Heartbeat, Connect, ReceiveSubmit, SubmitCheck, SubmitDispatch, vars, hubVars, clientVars
  <2> QED
    BY <2>1
<1> QED
  BY <1>1, <1>2, <1>3, <1>4, <1>5, <1>6, <1>7 DEF OtherStep

\* The three parts together are inductive.
LEMMA LifeInvariant == Spec => [](Typed /\ Once /\ Produced)
<1>1. Init => Typed /\ Once /\ Produced
  <2> SUFFICES ASSUME Init PROVE Typed /\ Once /\ Produced
    OBVIOUS
  <2>1. Once
    BY OutTyped DEF Init, Once, Carries, Asked
  <2>2. Produced
    BY DEF Init, Produced, JobsFrom, LocalFrom, WireFrom
  <2> QED
    BY <2>1, <2>2, TypedInit
<1>2. Typed /\ Once /\ Produced /\ [Next]_vars => Typed' /\ Once' /\ Produced'
  <2> SUFFICES ASSUME Typed, Once, Produced, [Next]_vars PROVE Once' /\ Produced'
    BY TypedStep
  <2>1. CASE \E r \in Requests : TaskStep(r)
    BY <2>1, TaskOnce, TaskProduced
  <2>2. CASE \E r \in Requests : (\E s \in Specs : SubmitCheck(r, s)) \/ SubmitRecord(r) \/ SubmitDispatch(r)
    BY <2>2, RequestOnce, OtherProduced
  <2>3. CASE \E c \in Clients : ReceiveSubmit(c)
    BY <2>3, DeliveryOnce, OtherProduced
  <2>4. CASE OtherStep
    BY <2>4, OtherOnce, OtherProduced
  <2> QED
    BY <2>1, <2>2, <2>3, <2>4 DEF Next, Receive, OtherStep
<1> QED
  BY <1>1, <1>2, PTL DEF Spec

\* Every result on the master was produced by a run of that job on some client,
\* through any number of lost connections, restarts and repeated requests.
THEOREM ResultsWereExecuted == Spec => []ResultWasExecuted
<1>1. Produced => ResultWasExecuted
  BY DEF Produced, JobsFrom, Ran, ResultWasExecuted
<1> QED
  BY <1>1, LifeInvariant, PTL

\* A task whose flag went up before its run: it can only end as killed or failed.
Doomed(r) ==
  /\ flag[r]
  /\ pc[r] \in Before \cup After \cup {"done", "dead"}
  /\ out[r].kind \notin {"report", "pause"}

\* Once a task has been flagged before its run, no step brings it to a report.
LEMMA DoomedStays ==
  ASSUME Typed, Once, NEW r \in Requests, Doomed(r), [Next]_vars
  PROVE  Doomed(r)'
<1> USE DEF Doomed, Typed, TaskTypes
<1>1. ASSUME NEW q \in Requests, TaskStep(q) PROVE Doomed(r)'
  <2>1. CASE q # r
    <3>1. UNCHANGED flag
      BY <1>1 DEF TaskStep, SkipFinished, Load, Register, Announce, Start, TakeLock, LockTimeout, Spawn,
         RunEnds, RunKilled, EndRun, Unregister, Store, SendFinal
    <3> QED
      BY <1>1, <2>1, <3>1, TaskFrame
  <2>2. CASE q = r
    <3> USE <2>2 DEF Goto, Before, After
    <3>1. ASSUME NEW kind \in {"killed", "error"}, EndRun(r, Out(kind)) PROVE Doomed(r)'
      BY <3>1 DEF EndRun, Out
    <3>2. CASE Start(r) \/ LockTimeout(r) \/ Spawn(r) \/ RunKilled(r)
      BY <3>1, <3>2 DEF Start, LockTimeout, Spawn, RunKilled
    <3>3. CASE RunEnds(r)
      BY <3>3 DEF RunEnds
    <3>4. CASE TakeLock(r) \/ SkipFinished(r) \/ Load(r) \/ Register(r) \/ Announce(r)
      BY <3>4 DEF TakeLock, SkipFinished, Load, Register, Announce
    <3>5. CASE Unregister(r) \/ Store(r) \/ SendFinal(r)
      BY <3>5 DEF Unregister, Store, SendFinal
    <3> QED
      BY <1>1, <3>2, <3>3, <3>4, <3>5 DEF TaskStep
  <2> QED
    BY <2>1, <2>2
<1>2. ASSUME NEW c \in Clients, ReceiveSubmit(c) PROVE Doomed(r)'
  <2> DEFINE q == Head(down[c]).req
  <2>1. Head(down[c]) \in Waiting /\ Head(down[c]) = down[c][1] /\ Len(down[c]) >= 1
    BY <1>2 DEF NetTypes, ReceiveSubmit
  <2>2. q \in Requests /\ Carries(c, 1, q)
    BY <1>2, <2>1 DEF ReceiveSubmit, Carries, Waiting, Submits, CancelMsgs
  <2>3. q # r
    BY <2>2 DEF Once, Before, After
  <2>4. pc' = [pc EXCEPT ![q] = "received"] /\ UNCHANGED <<flag, out>>
    BY <1>2 DEF ReceiveSubmit, Goto
  <2> HIDE DEF q
  <2> QED
    BY <2>3, <2>4
<1>3. ASSUME NEW c \in Clients, ReceiveCancel(c) PROVE Doomed(r)'
  <2>1. UNCHANGED <<pc, out>> /\ \A q \in Requests : flag[q] => flag'[q]
    BY <1>3 DEF ReceiveCancel
  <2> QED
    BY <2>1
<1>4. ASSUME NEW c \in Clients, ClientDies(c) PROVE Doomed(r)'
  BY <1>4 DEF ClientDies
<1>5. CASE \/ \E c \in Clients : Heartbeat(c) \/ Connect(c) \/ Cut(c)
           \/ \E c \in Clients, s \in Sessions : HubIngest(c, s) \/ HubEof(c, s)
           \/ \E j \in Jobs : HubCancel(j)
           \/ \E q \in Requests : (\E s \in Specs : SubmitCheck(q, s)) \/ SubmitRecord(q) \/ SubmitDispatch(q)
           \/ HubRestart
           \/ UNCHANGED vars
  <2>1. UNCHANGED <<pc, out, flag>>
    BY <1>5 DEF Heartbeat, Connect, Cut, HubIngest, HubEof, HubCancel, SubmitCheck, SubmitRecord,
       SubmitDispatch, HubRestart, vars, clientVars
  <2> QED
    BY <2>1
<1> QED
  BY <1>1, <1>2, <1>3, <1>4, <1>5 DEF Next, Receive

\* A cancel that sets the flag of a task before its run keeps that task from ever
\* ending in a report or a pause, also while it waits for the profile.
THEOREM FlaggedTasksNeverReport == Spec => FlaggedNeverReports
<1> SUFFICES ASSUME NEW r \in Requests
             PROVE  Spec => [](pc[r] \in Before /\ flag[r] => [](out[r].kind \notin {"report", "pause"}))
  BY DEF FlaggedNeverReports
<1>1. Typed /\ Once /\ pc[r] \in Before /\ flag[r] => Doomed(r)
  BY DEF Once, Doomed
<1>2. Typed /\ Once /\ Doomed(r) /\ [Next]_vars => Doomed(r)'
  BY DoomedStays
<1>3. Doomed(r) => out[r].kind \notin {"report", "pause"}
  BY DEF Doomed
<1> QED
  BY <1>1, <1>2, <1>3, LifeInvariant, PTL DEF Spec

-----------------------------------------------------------------------------
\* How client and master come to agree.  A client without a connection has
\* nothing coming, a request is on its way to its own client, and its task
\* writes to a session that this client has begun.
Linked == \A c \in Clients : cur[c] <= last[c] /\ (cur[c] = 0 => down[c] = << >>)
Addressed == \A r \in Requests, c \in Clients, i \in Nat : Carries(c, i, r) => Cl(r) = c
OnSession == \A r \in Requests : pc[r] # "none" => sess[r] \in 1..last[Cl(r)]
Delivery == Linked /\ Addressed /\ OnSession

\* Every record's state, digest and result go together, and the record of a job
\* that was asked for once is bound as that request asked.
BoundAs(rec, s) ==
  rec.client = s.client /\ rec.digest = s.digest /\ rec.skill = SkillOf[s.digest]
Registered ==
  \A r \in Requests : phase[r] \in {"recorded", "sent"} /\ AskedOnce(r) =>
    jobs[Job(r)] # NoRecord /\ BoundAs(jobs[Job(r)], spec[r])
Verdicts == \A j \in Jobs : jobs[j] # NoRecord => Judged(jobs[j])
Index == Registered /\ Verdicts

\* Nothing changes what a request asks for.
SpecsStay == \A r \in Requests : Asked(r) => spec'[r] = spec[r]

\* A request is filled in once (submit_job is called with it).
LEMMA SpecsOnlyGrow ==
  ASSUME Typed, Once, [Next]_vars
  PROVE  SpecsStay
<1>1. ASSUME NEW q \in Requests, NEW s \in Specs, SubmitCheck(q, s) PROVE SpecsStay
  BY <1>1 DEF SubmitCheck, SpecsStay, Once, Typed, HubTypes
<1>2. CASE \/ \E r \in Requests : SubmitRecord(r) \/ SubmitDispatch(r) \/ TaskStep(r)
           \/ \E c \in Clients : ReceiveSubmit(c)
           \/ OtherStep
  <2>1. UNCHANGED spec
    BY <1>2, TaskFrame DEF OtherStep, SubmitRecord, SubmitDispatch, HubCancel, HubIngest, HubEof, Heartbeat, Connect, Cut,
       ClientDies, HubRestart, ReceiveSubmit, ReceiveCancel, hubVars, vars
  <2> QED
    BY <2>1 DEF SpecsStay
<1> QED
  BY <1>1, <1>2 DEF Next, Receive, OtherStep

\* So what is asked for once was asked for once before.
LEMMA OnceBefore ==
  ASSUME SpecsStay, NEW r \in Requests, Asked(r), AskedOnce(r)'
  PROVE  AskedOnce(r) /\ Cl(r)' = Cl(r) /\ Job(r)' = Job(r) /\ spec'[r] = spec[r]
<1>1. \A q \in Requests : Asked(q) => Asked(q)' /\ Job(q)' = Job(q) /\ Cl(q)' = Cl(q) /\ spec'[q] = spec[q]
  BY DEF SpecsStay, Asked, Job, Cl
<1> QED
  BY <1>1 DEF AskedOnce

-----------------------------------------------------------------------------
\* A message goes to a client that is connected only.
LEMMA SendLinked ==
  ASSUME Typed, Linked, NEW c, NEW m, Send(c, m), UNCHANGED <<cur, last>>
  PROVE  Linked'
<1>1. \A d \in Clients : handle[d] \in conn[d] => handle[d] # 0
  BY DEF Typed, HubTypes, Sessions
<1> QED
  BY <1>1 DEF Send, Reachable, Linked, Typed, NetTypes

\* Neither is anything left for a client that lost its connection.
LEMMA LinkedStep ==
  ASSUME Typed, Linked, [Next]_vars
  PROVE  Linked'
<1> USE DEF Typed
<1>1. ASSUME NEW r \in Requests, SubmitDispatch(r) PROVE Linked'
  BY <1>1, SendLinked DEF SubmitDispatch, clientVars
<1>2. ASSUME NEW j \in Jobs, HubCancel(j) PROVE Linked'
  BY <1>2, SendLinked DEF HubCancel, clientVars
<1>3. ASSUME NEW c \in Clients, Connect(c) PROVE Linked'
  BY <1>3 DEF Connect, Linked, NetTypes
<1>4. ASSUME NEW c \in Clients, NEW n, Lost(c, n), UNCHANGED last PROVE Linked'
  BY <1>4 DEF Lost, Linked, NetTypes
<1>5. ASSUME NEW c \in Clients, Cut(c) \/ ClientDies(c) PROVE Linked'
  <2>1. (\E n : Lost(c, n)) \/ UNCHANGED <<down, cur>>
    BY <1>5 DEF Cut, ClientDies
  <2>2. UNCHANGED last
    BY <1>5 DEF Cut, ClientDies
  <2> QED
    BY <2>1, <2>2, <1>4 DEF Linked
<1>6. CASE HubRestart
  BY <1>6 DEF HubRestart, Linked, NetTypes
<1>7. ASSUME NEW c \in Clients, Receive(c) PROVE Linked'
  <2>1. down' = [down EXCEPT ![c] = Tail(@)] /\ down[c] # << >> /\ UNCHANGED <<cur, last>>
    BY <1>7 DEF Receive, ReceiveSubmit, ReceiveCancel
  <2> QED
    BY <2>1 DEF Linked, NetTypes
<1>8. CASE \/ \E r \in Requests, s \in Specs : SubmitCheck(r, s)
           \/ \E r \in Requests : SubmitRecord(r)
           \/ \E c \in Clients, s \in Sessions : HubIngest(c, s) \/ HubEof(c, s)
           \/ \E c \in Clients : Heartbeat(c)
           \/ UNCHANGED vars
  <2>1. UNCHANGED <<down, cur, last>>
    BY <1>8 DEF SubmitCheck, SubmitRecord, HubIngest, HubEof, Heartbeat, vars, clientVars
  <2> QED
    BY <2>1 DEF Linked
<1>9. ASSUME NEW r \in Requests, TaskStep(r) PROVE Linked'
  <2>1. UNCHANGED <<down, cur, last>>
    BY <1>9 DEF TaskStep, SkipFinished, Load, Register, Announce, Start, TakeLock, LockTimeout, Spawn,
         RunEnds, RunKilled, EndRun, Unregister, Store, SendFinal
  <2> QED
    BY <2>1 DEF Linked
<1> QED
  BY <1>1, <1>2, <1>3, <1>5, <1>6, <1>7, <1>8, <1>9 DEF Next

\* A request in a queue is one that was dispatched to that client.
LEMMA AddressedStep ==
  ASSUME Typed, Once, Addressed, [Next]_vars
  PROVE  Addressed'
<1> SUFFICES ASSUME NEW r \in Requests, NEW c \in Clients, NEW i \in Nat, Carries(c, i, r)'
             PROVE  Cl(r)' = c
  BY DEF Addressed
<1>1. \A q \in Requests : Asked(q) => Cl(q)' = Cl(q)
  BY SpecsOnlyGrow DEF SpecsStay, Cl
<1>2. ASSUME NEW k \in Nat, Carries(c, k, r) PROVE Cl(r)' = c
  <2>1. Asked(r)
    BY <1>2 DEF Once, Typed, Belongs
  <2> QED
    BY <1>1, <1>2, <2>1 DEF Addressed
<1>3. ASSUME NEW q \in Requests, SubmitDispatch(q) PROVE Cl(r)' = c
  <2> DEFINE m == [type |-> "job_submit", req |-> q]
  <2>1. Asked(q) /\ m \in Waiting /\ m.req = q
    BY <1>3 DEF SubmitDispatch, Typed, Belongs, Waiting, Submits
  <2>2. Send(Cl(q), m)
    BY <1>3 DEF SubmitDispatch, Cl
  <2> HIDE DEF m
  <2>3. Carries(c, i, r) \/ (c = Cl(q) /\ r = q)
    BY <2>1, <2>2, SendCarries DEF Typed
  <2> QED
    BY <1>1, <1>2, <2>1, <2>3
<1>4. ASSUME NEW d \in Clients, Receive(d) PROVE Cl(r)' = c
  <2>1. down' = [down EXCEPT ![d] = Tail(@)] /\ down[d] # << >>
    BY <1>4 DEF Receive, ReceiveSubmit, ReceiveCancel
  <2>2. Carries(c, i, r) \/ Carries(c, i + 1, r)
    BY <2>1, TailCarries DEF Typed
  <2> QED
    BY <1>2, <2>2
<1>5. CASE OtherStep /\ ~ \E d \in Clients : ReceiveCancel(d)
  BY <1>2, <1>5, OtherCarries
<1>6. CASE \/ \E q \in Requests, s \in Specs : SubmitCheck(q, s)
           \/ \E q \in Requests : SubmitRecord(q) \/ TaskStep(q)
  <2>1. UNCHANGED down
    BY <1>6, TaskFrame DEF SubmitCheck, SubmitRecord
  <2> QED
    BY <1>2, <2>1 DEF Carries
<1> QED
  BY <1>3, <1>4, <1>5, <1>6 DEF Next, OtherStep, Receive

\* A task keeps the session it was started on.
LEMMA OnSessionStep ==
  ASSUME Typed, Once, Delivery, [Next]_vars
  PROVE  OnSession'
<1> USE DEF Typed, NetTypes, TaskTypes
<1>1. \A r \in Requests : pc[r] # "none" => Asked(r) /\ Cl(r) \in Clients /\ Cl(r)' = Cl(r)
  BY SpecsOnlyGrow, AskedSpec DEF SpecsStay, Cl, Belongs
<1>2. \A c \in Clients : last'[c] \in Nat /\ last'[c] >= last[c]
  <2>1. ASSUME NEW c \in Clients, Connect(c) PROVE \A d \in Clients : last'[d] \in Nat /\ last'[d] >= last[d]
    BY <2>1 DEF Connect
  <2>2. CASE \A c \in Clients : ~Connect(c)
    <3>1. UNCHANGED last
      BY <2>2 DEF Next, TaskStep, SkipFinished, Load, Register, Announce, Start, TakeLock, LockTimeout, Spawn,
         RunEnds, RunKilled, EndRun, Unregister, Store, SendFinal, SubmitCheck, SubmitRecord, SubmitDispatch,
         HubCancel, HubIngest, HubEof, Heartbeat, Cut, ClientDies, HubRestart, Receive, ReceiveSubmit,
         ReceiveCancel, vars, clientVars
    <3> QED
      BY <3>1
  <2> QED
    BY <2>1, <2>2
<1>3. ASSUME UNCHANGED sess, \A r \in Requests : pc'[r] # "none" => pc[r] # "none"
      PROVE  OnSession'
  <2> SUFFICES ASSUME NEW r \in Requests, pc'[r] # "none" PROVE sess[r] \in 1..(last'[Cl(r)'])
    BY <1>3 DEF OnSession
  <2>1. sess[r] \in 1..last[Cl(r)] /\ Cl(r) \in Clients /\ Cl(r)' = Cl(r)
    BY <1>1, <1>3 DEF Delivery, OnSession
  <2> QED
    BY <1>2, <2>1
<1>4. ASSUME NEW c \in Clients, ReceiveSubmit(c) PROVE OnSession'
  <2> DEFINE q == Head(down[c]).req
  <2>1. Head(down[c]) \in Waiting /\ Head(down[c]) = down[c][1] /\ Len(down[c]) >= 1 /\ down[c] # << >>
    BY <1>4 DEF ReceiveSubmit
  <2>2. q \in Requests /\ Carries(c, 1, q)
    BY <1>4, <2>1 DEF ReceiveSubmit, Carries, Waiting, Submits, CancelMsgs
  <2>3. Cl(q) = c /\ Asked(q) /\ cur[c] \in 1..last[c] /\ last' = last /\ UNCHANGED spec
    BY <1>4, <2>1, <2>2 DEF Delivery, Addressed, Linked, ReceiveSubmit, Waiting, Submits, CancelMsgs, hubVars
  <2>4. pc' = [pc EXCEPT ![q] = "received"] /\ sess' = [sess EXCEPT ![q] = cur[c]]
    BY <1>4 DEF ReceiveSubmit, Goto
  <2> HIDE DEF q
  <2> SUFFICES ASSUME NEW r \in Requests, pc'[r] # "none" PROVE sess'[r] \in 1..last[Cl(r)]
    BY <2>3 DEF OnSession, Cl
  <2>5. CASE r = q
    BY <2>2, <2>3, <2>4, <2>5
  <2>6. CASE r # q
    BY <2>4, <2>6 DEF Delivery, OnSession
  <2> QED
    BY <2>5, <2>6
<1>5. ASSUME NEW r \in Requests, TaskStep(r) PROVE OnSession'
  <2>1. UNCHANGED sess
    BY <1>5 DEF TaskStep, SkipFinished, Load, Register, Announce, Start, TakeLock, LockTimeout, Spawn,
         RunEnds, RunKilled, EndRun, Unregister, Store, SendFinal
  <2> QED
    BY <1>3, <1>5, <2>1, TaskFrame
<1>6. CASE \E c \in Clients : ClientDies(c)
  BY <1>3, <1>6 DEF ClientDies, Tasks
<1>7. CASE \/ \E r \in Requests : (\E s \in Specs : SubmitCheck(r, s)) \/ SubmitRecord(r) \/ SubmitDispatch(r)
           \/ OtherStep /\ ~ \E c \in Clients : ClientDies(c)
  <2>1. UNCHANGED <<sess, pc>>
    BY <1>7 DEF SubmitCheck, SubmitRecord, SubmitDispatch, OtherStep, HubCancel, HubIngest, HubEof, Heartbeat,
       Connect, Cut, HubRestart, ReceiveCancel, vars, clientVars
  <2> QED
    BY <1>3, <2>1
<1> QED
  BY <1>4, <1>5, <1>6, <1>7 DEF Next, Receive, OtherStep

-----------------------------------------------------------------------------
\* What a step does to the index: submit_job records a job, cancel_job marks one
\* that is not decided, and a message goes on from the record it finds.
IndexMove ==
  \/ UNCHANGED jobs /\ \A q \in Requests : phase'[q] \in {"recorded", "sent"} => phase[q] \in {"recorded", "sent"}
  \/ \E r \in Requests : SubmitRecord(r) /\ MayRecord(spec[r])
  \/ \E j \in Jobs : UNCHANGED phase /\ Active(j) /\ jobs[j].result = NoResult
                     /\ jobs' = [jobs EXCEPT ![j].state = "cancelling"]
  \/ \E c \in Clients, s \in Sessions : HubIngest(c, s)

\* No other step touches the index.
LEMMA IndexMoves ==
  ASSUME Typed, Once, [Next]_vars
  PROVE  IndexMove
<1>1. ASSUME NEW r \in Requests, SubmitRecord(r) PROVE IndexMove
  BY <1>1 DEF SubmitRecord, IndexMove, Typed, HubTypes
<1>2. CASE \E j \in Jobs : HubCancel(j)
  BY <1>2 DEF HubCancel, IndexMove
<1>3. CASE \E c \in Clients, s \in Sessions : HubIngest(c, s)
  BY <1>3 DEF IndexMove
<1>4. CASE \/ \E r \in Requests, s \in Specs : SubmitCheck(r, s)
           \/ \E r \in Requests : SubmitDispatch(r) \/ TaskStep(r)
           \/ \E c \in Clients, s \in Sessions : HubEof(c, s)
           \/ \E c \in Clients : Receive(c) \/ Heartbeat(c) \/ Connect(c) \/ Cut(c) \/ ClientDies(c)
           \/ HubRestart
           \/ UNCHANGED vars
  <2>1. /\ UNCHANGED jobs
        /\ \A q \in Requests : phase'[q] \in {"recorded", "sent"} => phase[q] \in {"recorded", "sent"}
    <3>1. CASE HubRestart
      BY <3>1 DEF HubRestart, Typed, HubTypes
    <3>2. CASE \E r \in Requests, s \in Specs : SubmitCheck(r, s)
      BY <3>2 DEF SubmitCheck, Typed, HubTypes
    <3>3. CASE \E r \in Requests : SubmitDispatch(r)
      BY <3>3 DEF SubmitDispatch, Typed, HubTypes
    <3>4. CASE \/ \E r \in Requests : TaskStep(r)
               \/ \E c \in Clients, s \in Sessions : HubEof(c, s)
               \/ \E c \in Clients : Receive(c) \/ Heartbeat(c) \/ Connect(c) \/ Cut(c) \/ ClientDies(c)
               \/ UNCHANGED vars
      BY <3>4, TaskFrame DEF HubEof, Receive, ReceiveSubmit, ReceiveCancel, Heartbeat, Connect, Cut, ClientDies,
         vars, hubVars
    <3> QED
      BY <1>4, <3>1, <3>2, <3>3, <3>4
  <2> QED
    BY <2>1 DEF IndexMove
<1> QED
  BY <1>1, <1>2, <1>3, <1>4 DEF Next

\* The record a message finds, and what it makes of it.
LEMMA IngestGoesOn ==
  ASSUME Typed, NEW c \in Clients, NEW s \in Sessions, HubIngest(c, s)
  PROVE  \E u \in Update :
           /\ u = wire[c][s][1] /\ u.job \in Jobs /\ UNCHANGED phase
           /\ \A j \in Jobs \ {u.job} : jobs'[j] = jobs[j]
           /\ jobs'[u.job] \in JobRecord
           /\ jobs[u.job] = NoRecord => Judged(jobs'[u.job])
           /\ jobs[u.job] # NoRecord =>
                /\ jobs'[u.job] = ApplyUpdate(jobs[u.job], u, Digests).rec
                /\ GoesOn(jobs[u.job], jobs'[u.job])
<1> DEFINE u == wire[c][s][1]
           r == IF jobs[u.job] = NoRecord THEN NewRecord(c, NoSkill, NoProfile) ELSE jobs[u.job]
           q == ApplyUpdate(r, u, Digests).rec
<1>1. wire[c][s] \in Seq(Update) /\ Len(wire[c][s]) >= 1 /\ Head(wire[c][s]) = u
  BY DEF Typed, NetTypes, HubIngest
<1>2. u \in Update /\ u.job \in Jobs
  <2>1. u \in Update
    BY <1>1
  <2> QED
    BY <2>1 DEF Update
<1>3. r \in JobRecord
  BY <1>2 DEF Typed, HubTypes, NewRecord, JobRecord, JobStates, Data
<1>4. Follows(r, q, Delivers(u.data)) /\ GoesOn(r, q)
  BY <1>2, <1>3, ApplyUpdateFollows, ApplyUpdateGoesOn
<1>5. jobs' = [jobs EXCEPT ![u.job] = q] /\ UNCHANGED phase
  BY <1>1 DEF HubIngest
<1>6. jobs[u.job] = NoRecord => Judged(r)
  BY DEF NewRecord, Judged
<1>7. jobs[u.job] # NoRecord => r = jobs[u.job] /\ q = ApplyUpdate(jobs[u.job], u, Digests).rec
  OBVIOUS
<1>8. u = wire[c][s][1]
  OBVIOUS
<1> HIDE DEF q, r, u
<1>9. jobs'[u.job] = q /\ \A j \in Jobs \ {u.job} : jobs'[j] = jobs[j]
  BY <1>2, <1>5 DEF Typed, HubTypes
<1> QED
  BY <1>2, <1>4, <1>5, <1>6, <1>7, <1>8, <1>9 DEF Follows, GoesOn

\* The record submit_job leaves is undecided and bound as asked.
LEMMA QueuedBound ==
  ASSUME Typed, Verdicts, NEW r \in Requests, SubmitRecord(r), MayRecord(spec[r])
  PROVE  /\ Asked(r) /\ Job(r) \in Jobs
         /\ jobs' = [jobs EXCEPT ![Job(r)] = Queued(spec[r])]
         /\ Queued(spec[r]) # NoRecord
         /\ BoundAs(Queued(spec[r]), spec[r]) /\ Judged(Queued(spec[r]))
         /\ phase' = [phase EXCEPT ![r] = "recorded"]
<1> DEFINE s == spec[r]
           old == jobs[s.job]
           new == Queued(s)
<1>1. Asked(r) /\ Job(r) \in Jobs /\ s \in Specs /\ s.job = Job(r)
  BY AskedSpec DEF SubmitRecord, Typed, Belongs, Job
<1>2. jobs' = [jobs EXCEPT ![s.job] = new] /\ phase' = [phase EXCEPT ![r] = "recorded"]
  BY DEF SubmitRecord
<1>3. old = NoRecord \/ (old \in JobRecord /\ old.state \notin Terminal)
  BY <1>1 DEF MayRecord, Finished, Typed, HubTypes
<1>4. old # NoRecord => old.result = NoResult
  BY <1>1, <1>3 DEF Verdicts, Judged, Terminal
<1>5. /\ new.client = s.client /\ new.digest = s.digest /\ new.skill = SkillOf[s.digest]
      /\ new.state = "queued" /\ new.result = NoResult
  BY <1>3, <1>4 DEF Queued, NewRecord, JobRecord
<1>6. new \in JobRecord
  BY <1>1, QueuedTyped, FleetAssumption DEF Typed, MayRecord
<1>7. new # NoRecord
  BY <1>6, FleetAssumption
<1> HIDE DEF new, old
<1> QED
  BY <1>1, <1>2, <1>5, <1>7 DEF BoundAs, Judged, new

\* The index keeps the binding of a job that was asked for once, and verdicts
\* that fit.
LEMMA IndexHolds ==
  ASSUME Typed, Once, Index, [Next]_vars
  PROVE  Index'
<1> USE DEF Typed, HubTypes
<1>1. SpecsStay /\ IndexMove
  BY SpecsOnlyGrow, IndexMoves
<1>2. ASSUME NEW r \in Requests, phase[r] \in {"recorded", "sent"}, AskedOnce(r)'
      PROVE  /\ Asked(r) /\ Job(r) \in Jobs /\ Cl(r) \in Clients
             /\ Job(r)' = Job(r) /\ spec'[r] = spec[r] /\ AskedOnce(r)
             /\ jobs[Job(r)] # NoRecord /\ BoundAs(jobs[Job(r)], spec[r])
  <2>1. Asked(r) /\ Job(r) \in Jobs /\ Cl(r) \in Clients
    BY <1>2, AskedSpec DEF Belongs
  <2> QED
    BY <1>1, <1>2, <2>1, OnceBefore DEF Index, Registered
<1>3. CASE UNCHANGED jobs /\ \A q \in Requests : phase'[q] \in {"recorded", "sent"} => phase[q] \in {"recorded", "sent"}
  <2>1. Registered'
    <3> SUFFICES ASSUME NEW r \in Requests, phase'[r] \in {"recorded", "sent"}, AskedOnce(r)'
                 PROVE  jobs[Job(r)'] # NoRecord /\ BoundAs(jobs[Job(r)'], spec'[r])
      BY <1>3 DEF Registered, BoundAs
    <3> QED
      BY <1>2, <1>3
  <2> QED
    BY <1>3, <2>1 DEF Index, Verdicts, Judged
<1>4. ASSUME NEW r \in Requests, SubmitRecord(r), MayRecord(spec[r]) PROVE Index'
  <2>1. /\ Asked(r) /\ Job(r) \in Jobs
        /\ jobs' = [jobs EXCEPT ![Job(r)] = Queued(spec[r])]
        /\ Queued(spec[r]) # NoRecord
        /\ BoundAs(Queued(spec[r]), spec[r]) /\ Judged(Queued(spec[r]))
        /\ phase' = [phase EXCEPT ![r] = "recorded"]
    BY <1>4, QueuedBound DEF Index
  <2> DEFINE new == Queued(spec[r])
  <2> HIDE DEF new
  <2>2. Verdicts'
    BY <2>1 DEF Index, Verdicts, new, Judged
  <2>3. Registered'
    <3> SUFFICES ASSUME NEW q \in Requests, phase'[q] \in {"recorded", "sent"}, AskedOnce(q)'
                 PROVE  jobs'[Job(q)'] # NoRecord /\ BoundAs(jobs'[Job(q)'], spec'[q])
      BY DEF Registered, BoundAs
    <3>1. CASE q = r
      <4>1. spec'[r] = spec[r] /\ Job(r)' = Job(r) /\ Job(r) \in Jobs
        BY <1>1, <2>1 DEF SpecsStay, Job
      <4> QED
        BY <2>1, <3>1, <4>1
    <3>2. CASE q # r
      <4>1. phase[q] \in {"recorded", "sent"}
        BY <2>1, <3>2
      <4>2. Job(q)' = Job(q) /\ Job(q) # Job(r) /\ Job(q) \in Jobs
        BY <1>2, <2>1, <3>2, <4>1 DEF AskedOnce
      <4>3. jobs'[Job(q)] = jobs[Job(q)]
        BY <2>1, <4>2
      <4> QED
        BY <1>2, <4>1, <4>2, <4>3
    <3> QED
      BY <3>1, <3>2
  <2> QED
    BY <2>2, <2>3 DEF Index
<1>5. ASSUME NEW j \in Jobs, NEW rec, jobs' = [jobs EXCEPT ![j] = rec], UNCHANGED phase,
             rec # NoRecord, Judged(rec),
             jobs[j] # NoRecord => /\ rec.skill = jobs[j].skill /\ rec.digest = jobs[j].digest
                                   /\ jobs[j].client # NoClient => rec.client = jobs[j].client
      PROVE  Index'
  <2>1. Verdicts'
    BY <1>5 DEF Index, Verdicts, Judged
  <2>2. Registered'
    <3> SUFFICES ASSUME NEW q \in Requests, phase'[q] \in {"recorded", "sent"}, AskedOnce(q)'
                 PROVE  jobs'[Job(q)'] # NoRecord /\ BoundAs(jobs'[Job(q)'], spec'[q])
      BY DEF Registered, BoundAs
    <3>1. /\ Job(q)' = Job(q) /\ spec'[q] = spec[q] /\ Job(q) \in Jobs /\ Cl(q) \in Clients
          /\ jobs[Job(q)] # NoRecord /\ BoundAs(jobs[Job(q)], spec[q])
      BY <1>2, <1>5
    <3>2. jobs'[Job(q)] # NoRecord /\ BoundAs(jobs'[Job(q)], spec[q])
      <4>1. CASE j = Job(q)
        BY <1>5, <3>1, <4>1, AbsentAssumption DEF BoundAs, Cl
      <4>2. CASE j # Job(q)
        BY <1>5, <3>1, <4>2
      <4> QED
        BY <4>1, <4>2
    <3> QED
      BY <3>1, <3>2
  <2> QED
    BY <2>1, <2>2 DEF Index
<1>6. ASSUME NEW j \in Jobs, UNCHANGED phase, Active(j), jobs[j].result = NoResult,
             jobs' = [jobs EXCEPT ![j].state = "cancelling"]
      PROVE  Index'
  <2> DEFINE rec == [jobs[j] EXCEPT !.state = "cancelling"]
  <2>1. jobs[j] \in JobRecord
    BY <1>6 DEF Active
  <2>2. /\ rec \in JobRecord /\ rec.result = NoResult /\ rec.state = "cancelling"
        /\ rec.skill = jobs[j].skill /\ rec.digest = jobs[j].digest /\ rec.client = jobs[j].client
    BY <1>6, <2>1 DEF JobRecord, JobStates
  <2>3. jobs' = [jobs EXCEPT ![j] = rec]
    BY <1>6
  <2> HIDE DEF rec
  <2>4. rec # NoRecord /\ Judged(rec)
    BY <2>2, FleetAssumption DEF Judged
  <2> QED
    BY <1>5, <1>6, <2>2, <2>3, <2>4
<1>7. ASSUME NEW c \in Clients, NEW s \in Sessions, HubIngest(c, s) PROVE Index'
  <2> PICK u \in Update :
           /\ u = wire[c][s][1] /\ u.job \in Jobs /\ UNCHANGED phase
           /\ \A j \in Jobs \ {u.job} : jobs'[j] = jobs[j]
           /\ jobs'[u.job] \in JobRecord
           /\ jobs[u.job] = NoRecord => Judged(jobs'[u.job])
           /\ jobs[u.job] # NoRecord =>
                /\ jobs'[u.job] = ApplyUpdate(jobs[u.job], u, Digests).rec
                /\ GoesOn(jobs[u.job], jobs'[u.job])
    BY <1>7, IngestGoesOn
  <2>1. PICK rec \in JobRecord : rec = jobs'[u.job]
    OBVIOUS
  <2>2. jobs' = [jobs EXCEPT ![u.job] = rec]
    <3>1. \E x : jobs' = [jobs EXCEPT ![u.job] = x]
      <4>1. Head(wire[c][s]) = u
        <5>1. wire[c][s] \in Seq(Update) /\ Len(wire[c][s]) >= 1
          BY <1>7 DEF HubIngest, NetTypes
        <5> QED
          BY <5>1
      <4> QED
        BY <1>7, <4>1 DEF HubIngest
    <3> QED
      BY <2>1, <3>1
  <2>3. Judged(rec) /\ (jobs[u.job] # NoRecord => GoesOn(jobs[u.job], rec))
    BY <2>1 DEF Index, Verdicts, GoesOn
  <2>4. rec # NoRecord
    BY FleetAssumption
  <2> QED
    BY <1>5, <2>2, <2>3, <2>4 DEF GoesOn
<1>8. CASE \E r \in Requests : SubmitRecord(r) /\ MayRecord(spec[r])
  BY <1>4, <1>8
<1>9. CASE \E j \in Jobs : UNCHANGED phase /\ Active(j) /\ jobs[j].result = NoResult
                           /\ jobs' = [jobs EXCEPT ![j].state = "cancelling"]
  BY <1>6, <1>9
<1>10. CASE \E c \in Clients, s \in Sessions : HubIngest(c, s)
  BY <1>7, <1>10
<1>11. Index'
  BY <1>1, <1>3, <1>8, <1>9, <1>10 DEF IndexMove
<1> QED
  BY <1>11

-----------------------------------------------------------------------------
\* A report that the client took as a success, of a job asked for once, is still
\* on the wire while the first connection stands, or the job has succeeded.
Up(c) == last[c] = 1 /\ cur[c] = 1
Took(r) == /\ pc[r] = "done" /\ out[r].kind = "report"
           /\ ClientAdapts(spec[r].digest, out[r].report)
           /\ out[r].report.status \in Succeeds[spec[r].digest]
           /\ Kind[spec[r].digest] = "python_runner"
Accepted(r) == State(Cl(r), Job(r), "succeeded", FALSE, out[r].report)
OnWire(c, m) == \E i \in 1..Len(wire[c][1]) : wire[c][1][i] = m
Arrives ==
  \A r \in Requests : Took(r) /\ AskedOnce(r) /\ Up(Cl(r)) =>
    jobs[Job(r)].state = "succeeded" \/ OnWire(Cl(r), Accepted(r))

\* A first connection that stands stood before, once it had been dialled.
LEMMA UpBefore ==
  ASSUME Typed, [Next]_vars, NEW c \in Clients, Up(c)', last[c] >= 1
  PROVE  Up(c) /\ 1 \in Sessions
<1> USE DEF Typed, NetTypes, Up
<1> SUFFICES Up(c)
  BY FleetAssumption DEF Sessions
<1>1. ASSUME NEW d \in Clients, Connect(d) PROVE Up(c)
  BY <1>1 DEF Connect
<1>2. ASSUME NEW d \in Clients, NEW n, Lost(d, n), UNCHANGED last PROVE Up(c)
  BY <1>2 DEF Lost
<1>3. ASSUME NEW d \in Clients, Cut(d) \/ ClientDies(d) PROVE Up(c)
  <2>1. (\E n : Lost(d, n)) \/ UNCHANGED cur
    BY <1>3 DEF Cut, ClientDies
  <2>2. UNCHANGED last
    BY <1>3 DEF Cut, ClientDies
  <2> QED
    BY <2>1, <2>2, <1>2
<1>4. CASE HubRestart
  BY <1>4 DEF HubRestart
<1>5. CASE ~HubRestart /\ ~ \E d \in Clients : Connect(d) \/ Cut(d) \/ ClientDies(d)
  <2>1. UNCHANGED <<cur, last>>
    BY <1>5 DEF Next, TaskStep, SkipFinished, Load, Register, Announce, Start, TakeLock, LockTimeout, Spawn,
       RunEnds, RunKilled, EndRun, Unregister, Store, SendFinal, SubmitCheck, SubmitRecord, SubmitDispatch,
       HubCancel, HubIngest, HubEof, Heartbeat, Receive, ReceiveSubmit, ReceiveCancel, vars, clientVars
  <2>2. last'[c] = 1 /\ cur'[c] = 1
    OBVIOUS
  <2> QED
    BY <2>1, <2>2
<1> QED
  BY <1>1, <1>3, <1>4, <1>5

\* While it stands, a message leaves its wire at the hub only.
LEMMA OnWireStays ==
  ASSUME Typed, [Next]_vars, NEW c \in Clients, Up(c), Up(c)', 1 \in Sessions,
         NEW i \in 1..Len(wire[c][1])
  PROVE  \/ \E k \in 1..Len(wire'[c][1]) : wire'[c][1][k] = wire[c][1][i]
         \/ i = 1 /\ HubIngest(c, 1)
<1> USE DEF Typed, NetTypes
<1> DEFINE m == wire[c][1][i]
           Goal == (\E k \in 1..Len(wire'[c][1]) : wire'[c][1][k] = m) \/ (i = 1 /\ HubIngest(c, 1))
<1>1. wire[c][1] \in Seq(Update)
  OBVIOUS
<1>2. SUFFICES Goal
  OBVIOUS
<1>3. ASSUME wire'[c][1] = wire[c][1] PROVE Goal
  BY <1>3
<1>4. ASSUME NEW d \in Clients, NEW s, NEW x, Write(d, s, x) PROVE Goal
  <2>1. wire'[c][1] = wire[c][1] \/ wire'[c][1] = Append(wire[c][1], x)
    BY <1>4 DEF Write
  <2>2. CASE wire'[c][1] = Append(wire[c][1], x)
    <3>1. i \in 1..Len(wire'[c][1]) /\ wire'[c][1][i] = m
      BY <1>1, <2>2
    <3> QED
      BY <3>1
  <2> QED
    BY <1>3, <2>1, <2>2
<1>5. ASSUME NEW d \in Clients, NEW s \in Sessions, HubIngest(d, s) PROVE Goal
  <2>1. CASE d = c /\ s = 1
    <3>1. wire'[c][1] = Tail(wire[c][1]) /\ Len(wire[c][1]) >= 1
      BY <1>5, <2>1 DEF HubIngest
    <3>2. CASE i # 1
      <4>1. i - 1 \in 1..Len(wire'[c][1]) /\ wire'[c][1][i - 1] = m
        BY <1>1, <3>1, <3>2
      <4> QED
        BY <4>1
    <3> QED
      BY <1>5, <2>1, <3>2
  <2>2. CASE d # c \/ s # 1
    <3>1. wire'[c][1] = wire[c][1]
      BY <1>5, <2>2 DEF HubIngest
    <3> QED
      BY <1>3, <3>1
  <2> QED
    BY <2>1, <2>2
<1>6. ASSUME NEW d \in Clients, NEW n, Lost(d, n) PROVE Goal
  <2>1. d # c
    BY <1>6 DEF Lost, Up
  <2>2. wire'[c][1] = wire[c][1]
    BY <1>6, <2>1 DEF Lost
  <2> QED
    BY <1>3, <2>2
<1>7. ASSUME NEW d \in Clients, Cut(d) \/ ClientDies(d) PROVE Goal
  BY <1>3, <1>6, <1>7 DEF Cut, ClientDies
<1>8. CASE HubRestart
  BY <1>8 DEF HubRestart, Up
<1>9. ASSUME NEW r \in Requests, TaskStep(r) PROVE Goal
  <2>1. Cl(r) \in Clients
    BY <1>9, TaskFrame, AskedSpec DEF Belongs, TaskStep, SkipFinished, Load, Register, Announce, Start, TakeLock,
       LockTimeout, Spawn, RunEnds, RunKilled, EndRun, Unregister, Store, SendFinal, Before, After
  <2>2. UNCHANGED wire \/ \E x : Write(Cl(r), sess[r], x)
    BY <1>9 DEF TaskStep, SkipFinished, Load, Register, Announce, Start, TakeLock,
       LockTimeout, Spawn, RunEnds, RunKilled, EndRun, Unregister, Store, SendFinal
  <2> QED
    BY <1>3, <1>4, <2>1, <2>2
<1>10. ASSUME NEW d \in Clients, ReceiveCancel(d) PROVE Goal
  BY <1>4, <1>10 DEF ReceiveCancel
<1>11. CASE \/ \E r \in Requests, s \in Specs : SubmitCheck(r, s)
            \/ \E r \in Requests : SubmitRecord(r) \/ SubmitDispatch(r)
            \/ \E j \in Jobs : HubCancel(j)
            \/ \E d \in Clients, s \in Sessions : HubEof(d, s)
            \/ \E d \in Clients : ReceiveSubmit(d) \/ Heartbeat(d) \/ Connect(d)
            \/ UNCHANGED vars
  <2>1. UNCHANGED wire
    BY <1>11 DEF SubmitCheck, SubmitRecord, SubmitDispatch, HubCancel, HubEof, ReceiveSubmit, Heartbeat, Connect,
       vars, clientVars
  <2> QED
    BY <1>3, <2>1
<1> QED
  BY <1>5, <1>7, <1>8, <1>9, <1>10, <1>11 DEF Next, Receive

\* A finished task stays as it ended.
LEMMA DoneStays ==
  ASSUME Typed, Once, NEW r \in Requests, pc[r] = "done", [Next]_vars
  PROVE  pc'[r] = "done" /\ out'[r] = out[r] /\ spec'[r] = spec[r]
<1> USE DEF Typed, TaskTypes
<1>1. spec'[r] = spec[r]
  BY SpecsOnlyGrow DEF SpecsStay, Belongs
<1>2. ASSUME NEW q \in Requests, TaskStep(q) PROVE pc'[r] = "done" /\ out'[r] = out[r]
  <2>1. q # r
    BY <1>2 DEF TaskStep, SkipFinished, Load, Register, Announce, Start, TakeLock, LockTimeout, Spawn,
       RunEnds, RunKilled, Unregister, Store, SendFinal
  <2> QED
    BY <1>2, <2>1, TaskFrame
<1>3. ASSUME NEW c \in Clients, ReceiveSubmit(c) PROVE pc'[r] = "done" /\ out'[r] = out[r]
  <2> DEFINE q == Head(down[c]).req
  <2>1. Head(down[c]) \in Waiting /\ Head(down[c]) = down[c][1] /\ Len(down[c]) >= 1
    BY <1>3 DEF NetTypes, ReceiveSubmit
  <2>2. q \in Requests /\ Carries(c, 1, q)
    BY <1>3, <2>1 DEF ReceiveSubmit, Carries, Waiting, Submits, CancelMsgs
  <2>3. q # r
    BY <2>2 DEF Once
  <2>4. pc' = [pc EXCEPT ![q] = "received"] /\ UNCHANGED out
    BY <1>3 DEF ReceiveSubmit, Goto
  <2> HIDE DEF q
  <2> QED
    BY <2>3, <2>4
<1>4. ASSUME NEW c \in Clients, ClientDies(c) PROVE pc'[r] = "done" /\ out'[r] = out[r]
  BY <1>4 DEF ClientDies
<1>5. CASE \/ \E q \in Requests : (\E s \in Specs : SubmitCheck(q, s)) \/ SubmitRecord(q) \/ SubmitDispatch(q)
           \/ OtherStep /\ ~ \E c \in Clients : ClientDies(c)
  <2>1. UNCHANGED <<pc, out>>
    BY <1>5 DEF SubmitCheck, SubmitRecord, SubmitDispatch, OtherStep, HubCancel, HubIngest, HubEof, Heartbeat,
       Connect, Cut, HubRestart, ReceiveCancel, vars, clientVars
  <2> QED
    BY <1>1, <2>1
<1>6. pc'[r] = "done" /\ out'[r] = out[r]
  BY <1>2, <1>3, <1>4, <1>5 DEF Next, Receive, OtherStep
<1> QED
  BY <1>1, <1>6

\* The hub takes a report that the client took: the two rules agree for a
\* python_runner, whose reports must name the package that was asked for.
LEMMA IngestAccepts ==
  ASSUME Typed, Produced, Index, NEW r \in Requests, Took(r), AskedOnce(r), phase[r] = "sent",
         NEW c \in Clients, NEW s \in Sessions, HubIngest(c, s), wire[c][s][1] = Accepted(r)
  PROVE  jobs'[Job(r)].state = "succeeded"
<1> DEFINE u == Accepted(r)
           rec == jobs[Job(r)]
<1>1. Asked(r) /\ Job(r) \in Jobs /\ Cl(r) \in Clients /\ spec[r].digest \in Digests /\ spec[r] \in Spec0
  BY AskedSpec, FleetAssumption DEF Typed, Belongs
<1>2. /\ rec # NoRecord /\ rec \in JobRecord /\ Judged(rec)
      /\ rec.client = Cl(r) /\ rec.digest = spec[r].digest /\ rec.skill = SkillOf[spec[r].digest]
  BY <1>1 DEF Index, Registered, Verdicts, BoundAs, Typed, HubTypes, Cl
<1>3. out[r] \in Outcomes /\ out[r].report \in Report /\ ~out[r].report.paused
  BY FleetAssumption DEF Typed, TaskTypes, Took, Outcomes
<1>4. /\ u.job = Job(r) /\ u.client = Cl(r) /\ u.state = "succeeded" /\ u.data = out[r].report
  BY DEF Accepted, State
<1>5. /\ u \in Update
      /\ rec # NoRecord => jobs'[Job(r)] = ApplyUpdate(rec, u, Digests).rec
      /\ GoesOn(rec, jobs'[Job(r)])
  BY <1>2, <1>4, IngestGoesOn
<1> HIDE DEF u, rec
<1>6. CASE rec.result = NoResult
  <2>1. Adapts(rec, u.data, Digests)
    <3>1. Bound(rec, Digests)
      BY <1>1, <1>2, DeclarationAssumption, AbsentAssumption DEF Bound
    <3>2. IdentityOK(rec, u.data, Required(rec.digest)) /\ u.data.status \in Vocabulary(rec.digest)
      BY <1>2, <1>4 DEF Took, ClientAdapts, IdentityOK
    <3> QED
      BY <3>1, <3>2 DEF Adapts
  <2>2. u.data.status \in Succeeds[rec.digest]
    BY <1>2, <1>4 DEF Took
  <2>3. rec.client # NoClient /\ rec.client = u.client
    BY <1>1, <1>2, <1>4, AbsentAssumption
  <2> QED
    BY <1>2, <1>3, <1>4, <1>5, <1>6, <2>1, <2>2, <2>3, SuccessIsTaken
<1>7. CASE rec.result # NoResult
  <2>1. Ran(Job(r), rec.result.status)
    BY <1>1, <1>2, <1>7 DEF Produced, JobsFrom, rec
  <2>2. rec.result.status = out[r].report.status
    BY <2>1 DEF Ran, AskedOnce
  <2>3. rec.state = "succeeded"
    BY <1>2, <1>7, <2>2 DEF Judged, Took
  <2> QED
    BY <1>2, <1>5, <2>3 DEF GoesOn
<1> QED
  BY <1>6, <1>7

\* A success in the index stays.
LEMMA SuccessStays ==
  ASSUME Typed, Once, Index, [Next]_vars, NEW j \in Jobs, jobs[j] # NoRecord, jobs[j].state = "succeeded"
  PROVE  jobs'[j].state = "succeeded"
<1> USE DEF Typed, HubTypes
<1>1. Judged(jobs[j])
  BY DEF Index, Verdicts
<1>2. ASSUME NEW q \in Requests, SubmitRecord(q), MayRecord(spec[q]) PROVE jobs'[j].state = "succeeded"
  <2>1. jobs' = [jobs EXCEPT ![Job(q)] = Queued(spec[q])] /\ Job(q) # j
    BY <1>2 DEF SubmitRecord, MayRecord, Finished, Terminal, Job
  <2> QED
    BY <2>1
<1>3. ASSUME NEW k \in Jobs, Active(k), jobs' = [jobs EXCEPT ![k].state = "cancelling"]
      PROVE  jobs'[j].state = "succeeded"
  BY <1>3 DEF Active, Terminal
<1>4. ASSUME NEW c \in Clients, NEW s \in Sessions, HubIngest(c, s) PROVE jobs'[j].state = "succeeded"
  BY <1>1, <1>4, IngestGoesOn DEF GoesOn
<1>5. CASE UNCHANGED jobs
  BY <1>5
<1>6. IndexMove
  BY IndexMoves
<1> HIDE DEF Typed, HubTypes
<1> QED
  BY <1>2, <1>3, <1>4, <1>5, <1>6 DEF IndexMove

\* The last report of a task goes out on the first connection while it stands.
LEMMA FinalGoesOut ==
  ASSUME Typed, Once, Delivery, NEW r \in Requests, SendFinal(r), Took(r)', Up(Cl(r)), 1 \in Sessions
  PROVE  \E k \in 1..Len(wire'[Cl(r)][1]) : wire'[Cl(r)][1][k] = Accepted(r)
<1> DEFINE c == Cl(r)
<1>1. Asked(r) /\ c \in Clients /\ Job(r) \in Jobs
  BY AskedSpec DEF Typed, Belongs, SendFinal
<1>2. UNCHANGED <<out, spec>>
  BY DEF SendFinal, hubVars
<1>3. /\ out[r].kind = "report" /\ ClientAdapts(spec[r].digest, out[r].report)
      /\ out[r].report.status \in Succeeds[spec[r].digest]
  BY <1>2 DEF Took
<1>4. FinalState(r) = "succeeded" /\ ProtocolError(r) = FALSE
  BY <1>3 DEF FinalState, ProtocolError
<1>5. Write(c, sess[r], Accepted(r))
  BY <1>4 DEF SendFinal, Accepted
<1>6. sess[r] = 1 /\ cur[c] = 1
  BY DEF Delivery, OnSession, Up, SendFinal
<1>7. wire'[c][1] = Append(wire[c][1], Accepted(r)) /\ wire[c][1] \in Seq(Update)
  BY <1>1, <1>5, <1>6 DEF Write, Typed, NetTypes
<1> HIDE DEF c
<1>8. Len(wire[c][1]) + 1 \in 1..Len(wire'[c][1]) /\ wire'[c][1][Len(wire[c][1]) + 1] = Accepted(r)
  BY <1>7
<1> QED
  BY <1>8 DEF c

\* No step takes a report that the client took away from the hub.
LEMMA ArrivesHolds ==
  ASSUME Typed, Once, Produced, Delivery, Index, Arrives, [Next]_vars
  PROVE  Arrives'
<1> SUFFICES ASSUME NEW r \in Requests, Took(r)', AskedOnce(r)', Up(Cl(r))'
             PROVE  jobs'[Job(r)'].state = "succeeded" \/ OnWire(Cl(r), Accepted(r))'
  BY DEF Arrives
<1>1. pc[r] # "none"
  <2>1. pc'[r] = "done"
    BY DEF Took
  <2>2. CASE \E c \in Clients : ReceiveSubmit(c)
    BY <2>1, <2>2 DEF ReceiveSubmit, Goto, Typed, TaskTypes
  <2>3. CASE \E q \in Requests : TaskStep(q)
    BY <2>1, <2>3, TaskFrame
  <2>4. CASE \/ \E q \in Requests : (\E s \in Specs : SubmitCheck(q, s)) \/ SubmitRecord(q) \/ SubmitDispatch(q)
             \/ OtherStep
    BY <2>1, <2>4 DEF SubmitCheck, SubmitRecord, SubmitDispatch, OtherStep, HubCancel, HubIngest, HubEof, Heartbeat,
       Connect, Cut, HubRestart, ClientDies, Tasks, ReceiveCancel, vars, clientVars
  <2> QED
    BY <2>2, <2>3, <2>4 DEF Next, Receive, OtherStep
<1>2. Asked(r) /\ Cl(r) \in Clients /\ Job(r) \in Jobs /\ phase[r] = "sent"
  BY <1>1, AskedSpec DEF Typed, Belongs, Once
<1>3. AskedOnce(r) /\ Cl(r)' = Cl(r) /\ Job(r)' = Job(r) /\ spec'[r] = spec[r]
  BY <1>2, SpecsOnlyGrow, OnceBefore
<1>4. PICK c \in Clients, j \in Jobs : c = Cl(r) /\ j = Job(r)
  BY <1>2
<1>5. Up(c) /\ Up(c)' /\ 1 \in Sessions
  <2>1. Up(c)'
    BY <1>3, <1>4 DEF Up
  <2>2. last[c] \in Nat /\ last[c] >= 1
    <3>1. last[c] \in Nat
      BY FleetAssumption DEF Typed, NetTypes
    <3>2. sess[r] \in 1..last[c]
      BY <1>1, <1>4 DEF Delivery, OnSession
    <3> QED
      BY <3>1, <3>2
  <2> QED
    BY <2>1, <2>2, UpBefore
<1>6. jobs[j] # NoRecord
  BY <1>2, <1>3, <1>4 DEF Index, Registered
<1>7. CASE Took(r)
  <2>1. pc'[r] = "done" /\ out'[r] = out[r]
    BY <1>7, DoneStays DEF Took
  <2>2. Accepted(r)' = Accepted(r)
    BY <1>3, <2>1 DEF Accepted, State
  <2>3. CASE jobs[j].state = "succeeded"
    BY <1>3, <1>4, <1>6, <2>3, SuccessStays
  <2>4. CASE OnWire(c, Accepted(r))
    <3>1. PICK i \in 1..Len(wire[c][1]) : wire[c][1][i] = Accepted(r)
      BY <2>4 DEF OnWire
    <3>2. \/ \E k \in 1..Len(wire'[c][1]) : wire'[c][1][k] = wire[c][1][i]
          \/ i = 1 /\ HubIngest(c, 1)
      BY <1>5, OnWireStays
    <3>3. CASE i = 1 /\ HubIngest(c, 1)
      BY <1>2, <1>3, <1>4, <1>5, <1>7, <3>1, <3>3, IngestAccepts
    <3>4. CASE \E k \in 1..Len(wire'[c][1]) : wire'[c][1][k] = wire[c][1][i]
      BY <1>3, <1>4, <2>2, <3>1, <3>4 DEF OnWire
    <3> QED
      BY <3>2, <3>3, <3>4
  <2> QED
    BY <1>3, <1>4, <1>5, <1>7, <2>3, <2>4 DEF Arrives
<1>8. CASE ~Took(r)
  <2>1. pc[r] # "done"
    <3>1. ASSUME pc[r] = "done" PROVE FALSE
      <4>1. out'[r] = out[r] /\ spec'[r] = spec[r]
        BY <3>1, DoneStays
      <4>2. Took(r)
        BY <3>1, <4>1 DEF Took, ClientAdapts
      <4> QED
        BY <1>8, <4>2
    <3> QED
      BY <3>1
  <2>2. SendFinal(r)
    <3>1. pc'[r] = "done" /\ out'[r].kind = "report"
      BY DEF Took
    <3>2. CASE \E q \in Requests : TaskStep(q)
      <4>1. TaskStep(r)
        BY <2>1, <3>1, <3>2, TaskFrame
      <4>2. ~SkipFinished(r)
        <5>1. ASSUME SkipFinished(r) PROVE FALSE
          <6>1. out[r].kind = "none" /\ out' = out
            BY <5>1 DEF SkipFinished, Once, Before
          <6> QED
            BY <3>1, <6>1
        <5> QED
          BY <5>1
      <4> QED
        BY <2>1, <3>1, <4>1, <4>2 DEF TaskStep, Load, Register, Announce, Start, TakeLock, LockTimeout, Spawn,
           RunEnds, RunKilled, EndRun, Unregister, Store, Goto, Typed, TaskTypes
    <3>3. CASE \E d \in Clients : ReceiveSubmit(d)
      BY <2>1, <3>1, <3>3 DEF ReceiveSubmit, Goto, Typed, TaskTypes
    <3>4. CASE \/ \E q \in Requests : (\E s \in Specs : SubmitCheck(q, s)) \/ SubmitRecord(q) \/ SubmitDispatch(q)
               \/ OtherStep
      BY <2>1, <3>1, <3>4 DEF SubmitCheck, SubmitRecord, SubmitDispatch, OtherStep, HubCancel, HubIngest, HubEof,
         Heartbeat, Connect, Cut, HubRestart, ClientDies, ReceiveCancel, vars, clientVars, Typed, TaskTypes
    <3> QED
      BY <3>2, <3>3, <3>4 DEF Next, Receive, OtherStep
  <2>3. \E k \in 1..Len(wire'[c][1]) : wire'[c][1][k] = Accepted(r)
    BY <1>4, <1>5, <2>2, FinalGoesOut
  <2>4. Accepted(r)' = Accepted(r)
    BY <1>3, <2>2 DEF Accepted, State, SendFinal
  <2> QED
    BY <1>3, <1>4, <2>3, <2>4 DEF OnWire
<1> QED
  BY <1>7, <1>8

\* What the agreement rests on is inductive.
LEMMA AgreementInvariant == Spec => [](Typed /\ Delivery /\ Index /\ Arrives)
<1>1. Init => Delivery /\ Index /\ Arrives
  <2> SUFFICES ASSUME Init PROVE Delivery /\ Index /\ Arrives
    OBVIOUS
  <2>1. Delivery
    BY DEF Init, Delivery, Linked, Addressed, OnSession, Carries
  <2>2. Index
    BY DEF Init, Index, Registered, Verdicts
  <2>3. Arrives
    BY DEF Init, Arrives, Took
  <2> QED
    BY <2>1, <2>2, <2>3
<1>2. Typed /\ Once /\ Produced /\ Delivery /\ Index /\ Arrives /\ [Next]_vars => Delivery' /\ Index' /\ Arrives'
  BY LinkedStep, AddressedStep, OnSessionStep, IndexHolds, ArrivesHolds DEF Delivery
<1> QED
  BY <1>1, <1>2, LifeInvariant, PTL DEF Spec

\* The client's verdict is the master's: a job that was asked for once, whose
\* python_runner the client judged a success, has succeeded on the master when
\* everything sent over the connections that stand has been read.
THEOREM ReportsAreJudgedAlike == Spec => []ReportsAgree
<1>1. Typed /\ Index /\ Arrives => ReportsAgree
  <2> SUFFICES ASSUME Typed, Index, Arrives, NEW r \in Requests,
                      pc[r] = "done", out[r].kind = "report", FinalState(r) = "succeeded",
                      Kind[spec[r].digest] = "python_runner", AskedOnce(r),
                      Undisturbed, \A c \in Clients : wire[c][cur[c]] = << >>
               PROVE  jobs[Job(r)].state = "succeeded"
    BY DEF ReportsAgree
  <2>1. Took(r)
    BY DEF FinalState, Took
  <2>2. Cl(r) \in Clients
    BY AskedSpec DEF Typed, Belongs
  <2>3. Up(Cl(r)) /\ wire[Cl(r)][1] = << >>
    BY <2>2 DEF Undisturbed, Up
  <2>4. ~OnWire(Cl(r), Accepted(r))
    BY <2>3 DEF OnWire
  <2> QED
    BY <2>1, <2>3, <2>4 DEF Arrives
<1> QED
  BY <1>1, AgreementInvariant, PTL
=============================================================================
