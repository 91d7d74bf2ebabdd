----------------------------- MODULE SkillSync -----------------------------
(***************************************************************************)
(* The connection between the hub and one client, and what travels on it   *)
(* besides jobs: the registration, heartbeats, the desired configuration   *)
(* and skill packages (master_hub.rs, client_daemon.rs, and the install    *)
(* half of skill_pkg.rs).  The hub keeps a record for every client and the *)
(* records do not touch, so one client is followed.                        *)
(*                                                                         *)
(* The client dials; a session is one connection.  The hub reads each on a *)
(* task of its own, so an old session may still be read after a new one    *)
(* has registered.  A package is named by its digest; staged files that an *)
(* interrupted install leaves are under a fresh name and never looked at.  *)
(* Definitions that start with Mutant are bugs, no part of the model.      *)
(***************************************************************************)
EXTENDS Naturals, Sequences, FiniteSets

CONSTANTS Skills, Digests, SkillOf,  \* published packages and their skills
          Pushes,                    \* calls of push_skill_sync
          Wants,                     \* push |-> the release it resolved to
          MaxSessions, MaxRevision, MaxQueue, MaxEvents,   \* bounds
          NoDigest, NoAck, NoBeat

VARIABLES
  \* the client
  cur,       \* its session, 0 while it is disconnected
  last,      \* sessions begun
  ready,     \* hello_ok has come
  observed,  \* the configuration revision in force
  beat,      \* the heartbeat read and not yet sent, NoBeat if none
  cache,     \* digests under data/skill_cache
  index,     \* skill |-> current digest, data/skill_installs.json
  tasks,     \* handle_skill_sync tasks under way
  \* the network
  up, down,  \* session |-> messages not yet read
  \* the hub
  conn,      \* sessions whose handle_connection still reads
  handle,    \* session whose sender is registered, 0 before the first hello
  hub,       \* ClientInfo: online, observed, installed, last_skill_sync
  desired,   \* the desired revision
  push       \* push |-> how far it is

clientVars == <<cur, last, ready, observed, beat, cache, index, tasks>>
hubVars    == <<conn, handle, hub, desired, push>>
vars       == <<clientVars, up, down, hubVars>>

Sessions == 1..MaxSessions
Index    == [Skills -> Digests \cup {NoDigest}]
Ack      == [rid : Pushes, digest : Digests, ok : BOOLEAN]
Task     == [rid : Pushes, digest : Digests, sess : Sessions, ok : BOOLEAN,
             pc : {"check", "rename", "load", "save", "ack"}, idx : Index]

TypeOK ==
  /\ cur \in Sessions \cup {0} /\ last \in 0..MaxSessions /\ cur \in {0, last}
  /\ ready \in BOOLEAN /\ observed \in 0..MaxRevision
  /\ cache \subseteq Digests /\ index \in Index /\ tasks \subseteq Task
  /\ beat # NoBeat => beat.observed \in 0..MaxRevision /\ beat.list \in Index
  /\ conn \subseteq Sessions /\ handle \in Sessions \cup {0}
  /\ hub.online \in BOOLEAN /\ hub.observed \in 0..MaxRevision
  /\ hub.installed \in Index /\ hub.slot \in Ack \cup {NoAck}
  /\ desired \in 1..MaxRevision
  /\ push \in [Pushes -> {"idle", "waits", "ok", "failed"}]

Nothing == [s \in Skills |-> NoDigest]

Init ==
  /\ cur = 0 /\ last = 0 /\ ready = FALSE /\ observed = 0 /\ beat = NoBeat
  /\ cache = {} /\ index = Nothing /\ tasks = {}
  /\ up = [s \in Sessions |-> <<>>] /\ down = [s \in Sessions |-> <<>>]
  /\ conn = {} /\ handle = 0 /\ desired = 1
  /\ hub = [online |-> FALSE, observed |-> 0, installed |-> Nothing, slot |-> NoAck]
  /\ push = [p \in Pushes |-> "idle"]

Say(s, m)    == up' = [up EXCEPT ![s] = Append(@, m)]
Heard(type)  == cur # 0 /\ beat = NoBeat /\ down[cur] # <<>> /\ Head(down[cur]).type = type
Taken        == down' = [down EXCEPT ![cur] = Tail(@)]
Msg(type, n) == [type |-> type, rev |-> n]

\* Bound: what begins from outside, all together.
More == last + (desired - 1) + Cardinality({p \in Pushes : push[p] # "idle"}) < MaxEvents

-----------------------------------------------------------------------------
(* The client *)

\* connect_session up to the hello (client_daemon.rs:61): the observed
\* configuration starts over, the hello lists what is installed.
Connect ==
  /\ cur = 0 /\ last < MaxSessions /\ More
  /\ cur' = last + 1 /\ last' = last + 1
  /\ ready' = FALSE /\ observed' = 0
  /\ conn' = conn \cup {last + 1}
  /\ Say(last + 1, [type |-> "hello", list |-> index])
  /\ UNCHANGED <<beat, cache, index, tasks, down, handle, hub, desired, push>>

\* The answer to the hello (client_daemon.rs:103): the client takes the
\* desired configuration and reports at once that it has.
HelloOk ==
  /\ ~ready /\ Heard("hello_ok")
  /\ ready' = TRUE /\ observed' = Head(down[cur]).rev
  /\ Say(cur, Msg("config_ack", Head(down[cur]).rev))
  /\ Taken
  /\ UNCHANGED <<cur, last, beat, cache, index, tasks, hubVars>>

\* The tick of the select (client_daemon.rs:143): what the heartbeat reports
\* is read first and sent after, and tasks run in between.
HeartbeatRead ==
  /\ ready /\ cur # 0 /\ beat = NoBeat /\ Len(up[cur]) < MaxQueue
  /\ beat' = [observed |-> observed, list |-> index]
  /\ UNCHANGED <<cur, last, ready, observed, cache, index, tasks, up, down, hubVars>>

HeartbeatSend ==
  /\ beat # NoBeat
  /\ Say(cur, [type |-> "heartbeat", rev |-> beat.observed, list |-> beat.list])
  /\ beat' = NoBeat
  /\ UNCHANGED <<cur, last, ready, observed, cache, index, tasks, down, hubVars>>

\* handle_config_update (client_daemon.rs:214).
ConfigUpdate ==
  /\ ready /\ Heard("config_update")
  /\ observed' = Head(down[cur]).rev
  /\ Say(cur, Msg("config_ack", Head(down[cur]).rev))
  /\ Taken
  /\ UNCHANGED <<cur, last, ready, beat, cache, index, tasks, hubVars>>

\* A skill_sync message starts handle_skill_sync on a task (client_daemon.rs:194).
SyncReceived ==
  /\ ready /\ Heard("skill_sync")
  /\ tasks' = tasks \cup {[rid |-> Head(down[cur]).rid, digest |-> Head(down[cur]).digest,
                           sess |-> cur, ok |-> TRUE, pc |-> "check", idx |-> Nothing]}
  /\ Taken
  /\ UNCHANGED <<cur, last, ready, observed, beat, cache, index, up, hubVars>>

Becomes(t, u) == tasks' = (tasks \ {t}) \cup {u}

\* install_package up to the rename (skill_pkg.rs:787): a digest in the cache
\* needs no unpacking; otherwise staging and verifying may fail.
Check(t) ==
  /\ t.pc = "check"
  /\ \/ t.digest \in cache /\ Becomes(t, [t EXCEPT !.pc = "load"])
     \/ t.digest \notin cache /\ Becomes(t, [t EXCEPT !.pc = "rename"])
     \/ t.digest \notin cache /\ Becomes(t, [t EXCEPT !.pc = "ack", !.ok = FALSE])
  /\ UNCHANGED <<cur, last, ready, observed, beat, cache, index, up, down, hubVars>>

\* The rename that makes an install visible (skill_pkg.rs:848): it fails when
\* another task has installed the digest meanwhile.
MutantRename(t) ==
  /\ t.pc = "rename"
  /\ Becomes(t, [t EXCEPT !.pc = "load"])
  /\ UNCHANGED <<cur, last, ready, observed, beat, cache, index, up, down, hubVars>>
Rename(t) ==
  /\ t.pc = "rename"
  /\ cache' = cache \cup {t.digest}
  /\ IF t.digest \in cache THEN Becomes(t, [t EXCEPT !.pc = "ack", !.ok = FALSE])
                           ELSE Becomes(t, [t EXCEPT !.pc = "load"])
  /\ UNCHANGED <<cur, last, ready, observed, beat, index, up, down, hubVars>>

\* write_current_pointer (skill_pkg.rs:878): the index file is read, changed
\* and written back, by tasks that do not exclude each other.
LoadIndex(t) ==
  /\ t.pc = "load"
  /\ Becomes(t, [t EXCEPT !.pc = "save", !.idx = index])
  /\ UNCHANGED <<cur, last, ready, observed, beat, cache, index, up, down, hubVars>>

SaveIndex(t) ==
  /\ t.pc = "save"
  /\ index' = [t.idx EXCEPT ![SkillOf[t.digest]] = t.digest]
  /\ Becomes(t, [t EXCEPT !.pc = "ack", !.idx = Nothing])
  /\ UNCHANGED <<cur, last, ready, observed, beat, cache, up, down, hubVars>>

\* The acknowledgement (client_daemon.rs:341), on the session the package
\* came by: nothing arrives when that one has ended.
SendAck(t) ==
  /\ t.pc = "ack"
  /\ tasks' = tasks \ {t}
  /\ IF t.sess = cur
       THEN Say(cur, [type |-> "ack", ack |-> [rid |-> t.rid, digest |-> t.digest, ok |-> t.ok]])
       ELSE up' = up
  /\ UNCHANGED <<cur, last, ready, observed, beat, cache, index, down, hubVars>>

\* The connection breaks: what the hub has not received of it is lost, or
\* still arrives.
Break ==
  /\ cur # 0
  /\ cur' = 0 /\ ready' = FALSE /\ beat' = NoBeat
  /\ down' = [down EXCEPT ![cur] = <<>>]
  /\ up' \in {up, [up EXCEPT ![cur] = <<>>]}
  /\ UNCHANGED <<last, observed, cache, index, tasks, hubVars>>

-----------------------------------------------------------------------------
(* The hub *)

\* A session's next message; the record it changes is the client's, whatever
\* session registered it.
Hears(s, type) ==
  /\ s \in conn /\ up[s] # <<>> /\ Head(up[s]).type = type
  /\ up' = [up EXCEPT ![s] = Tail(@)]
  /\ UNCHANGED <<clientVars, conn, desired, push>>

Sends(s, m) == down' = IF s = cur THEN [down EXCEPT ![s] = Append(@, m)] ELSE down

\* hello (master_hub.rs:460): the record is made anew and the sender replaced.
Hello(s) ==
  /\ Hears(s, "hello")
  /\ handle' = s
  /\ hub' = [online |-> TRUE, observed |-> 0, installed |-> Head(up[s]).list, slot |-> NoAck]
  /\ Sends(s, Msg("hello_ok", desired))

\* heartbeat (master_hub.rs:540): a client heard from is online.
MutantHeartbeat(s) ==
  /\ Hears(s, "heartbeat")
  /\ hub' = [hub EXCEPT !.observed = Head(up[s]).rev, !.installed = Head(up[s]).list]
  /\ UNCHANGED <<handle, down>>
Heartbeat(s) ==
  /\ Hears(s, "heartbeat")
  /\ hub' = [hub EXCEPT !.online = TRUE, !.observed = Head(up[s]).rev,
                        !.installed = Head(up[s]).list]
  /\ UNCHANGED <<handle, down>>

\* skill_sync_ack (master_hub.rs:558): the one slot is overwritten, and a
\* success enters the list of what is installed.
MutantSyncAck(s) ==
  LET a == Head(up[s]).ack IN
  /\ Hears(s, "ack")
  /\ hub' = [hub EXCEPT !.slot = a, !.installed[SkillOf[a.digest]] = a.digest]
  /\ UNCHANGED <<handle, down>>
SyncAck(s) ==
  LET a == Head(up[s]).ack IN
  /\ Hears(s, "ack")
  /\ hub' = [hub EXCEPT !.slot = a,
               !.installed = IF a.ok THEN [@ EXCEPT ![SkillOf[a.digest]] = a.digest] ELSE @]
  /\ UNCHANGED <<handle, down>>

\* config_ack (master_hub.rs:596).
ConfigAck(s) ==
  /\ Hears(s, "config_ack")
  /\ hub' = [hub EXCEPT !.observed = Head(up[s]).rev]
  /\ UNCHANGED <<handle, down>>

\* The end of a session's reader (master_hub.rs:681): the client is marked
\* offline, even if it has registered by another session since.
End(s) ==
  /\ s \in conn /\ s # cur /\ up[s] = <<>>
  /\ conn' = conn \ {s}
  /\ hub' = [hub EXCEPT !.online = FALSE]
  /\ UNCHANGED <<clientVars, up, down, handle, desired, push>>

\* reap_stale (master_hub.rs:1215): nothing has been heard for a minute, so
\* the client is not heartbeating.
Reap ==
  /\ hub.online /\ ~ready
  /\ hub' = [hub EXCEPT !.online = FALSE]
  /\ UNCHANGED <<clientVars, up, down, conn, handle, desired, push>>

\* push_config_update (master_hub.rs:1133): only clients marked online get it.
PushConfig ==
  /\ desired < MaxRevision /\ More
  /\ desired' = desired + 1
  /\ IF hub.online THEN Sends(handle, Msg("config_update", desired + 1)) ELSE down' = down
  /\ UNCHANGED <<clientVars, up, conn, handle, hub, push>>

\* push_skill_sync up to the send (master_hub.rs:999): the slot is emptied
\* first; the sender of a session that has ended refuses the message.
PushSkill(p) ==
  LET d == Wants[p] IN
  /\ push[p] = "idle" /\ More
  /\ handle # 0 /\ hub.online
  /\ hub' = [hub EXCEPT !.slot = NoAck]
  /\ IF handle \in conn
       THEN /\ Sends(handle, [type |-> "skill_sync", rid |-> p, digest |-> d])
            /\ push' = [push EXCEPT ![p] = "waits"]
       ELSE /\ down' = down
            /\ push' = [push EXCEPT ![p] = "failed"]
  /\ UNCHANGED <<clientVars, up, conn, handle, desired>>

\* wait_skill_sync_ack (master_hub.rs:1054): an answer in the slot is taken if
\* it names the request or the same digest.
MutantAnswers(p) == hub.slot # NoAck
Answers(p) ==
  /\ hub.slot # NoAck
  /\ hub.slot.rid = p \/ hub.slot.digest = Wants[p]

PushAnswered(p) ==
  /\ push[p] = "waits" /\ Answers(p)
  /\ push' = [push EXCEPT ![p] = IF hub.slot.ok THEN "ok" ELSE "failed"]
  /\ UNCHANGED <<clientVars, up, down, conn, handle, hub, desired>>

\* 20 s have passed.
PushTimesOut(p) ==
  /\ push[p] = "waits"
  /\ push' = [push EXCEPT ![p] = "failed"]
  /\ UNCHANGED <<clientVars, up, down, conn, handle, hub, desired>>

-----------------------------------------------------------------------------
Client == HelloOk \/ HeartbeatRead \/ HeartbeatSend \/ ConfigUpdate \/ SyncReceived
Install == \E t \in tasks : Check(t) \/ Rename(t) \/ LoadIndex(t) \/ SaveIndex(t) \/ SendAck(t)
Reads(s) == Hello(s) \/ Heartbeat(s) \/ SyncAck(s) \/ ConfigAck(s) \/ End(s)

Next ==
  \/ Connect \/ Break \/ Reap \/ PushConfig
  \/ Client \/ Install
  \/ \E s \in Sessions : Reads(s)
  \/ \E p \in Pushes : PushSkill(p) \/ PushAnswered(p) \/ PushTimesOut(p)

\* The daemon's loop and its tasks run, its interval ticks, and the hub reads
\* every connection; nothing obliges the operator, the network or the reaper.
Fairness ==
  /\ WF_vars(HelloOk) /\ WF_vars(ConfigUpdate \/ SyncReceived)
  /\ SF_vars(HeartbeatRead) /\ WF_vars(HeartbeatSend)
  /\ WF_vars(Install)
  /\ \A s \in Sessions : WF_vars(Reads(s))

Spec == Init /\ [][Next]_vars /\ Fairness

-----------------------------------------------------------------------------
(* Properties *)

\* What the hub believes installed is in the client's cache: submit_job lets
\* only such a digest pass, and the client finds it (README.md:116).
ClaimedIsInstalled ==
  \A k \in Skills : /\ hub.installed[k] # NoDigest => hub.installed[k] \in cache
                    /\ index[k] # NoDigest => index[k] \in cache

\* A push that is reported as a success has installed its package, whichever
\* push's answer it took from the slot.
SyncedIsInstalled ==
  \A p \in Pushes : push[p] = "ok" => Wants[p] \in cache

\* A client that stays connected is shown online with what it really has
\* installed, however late the end of an older connection is noticed.
LinkConverges ==
  <>[](cur # 0) => <>[](hub.online /\ hub.installed = index)
=============================================================================
