------------------------------ MODULE FleetClicks ------------------------------
(***************************************************************************)
(* The fleet page of the desktop (desktop fleet.rs) in front of the hub's  *)
(* submit and retry (master_hub.rs).  The desktop resolves the release     *)
(* from the catalog itself, asks, and gives up on the answer after 25 s,   *)
(* while the hub's call goes on; the catalog may change in between.        *)
(*                                                                         *)
(* One client, one skill and one profile: a release stands for the key of  *)
(* a submit.  Commands run one after the other on the desktop's main       *)
(* thread.  Abstracted: names, geo and account, which are carried along;   *)
(* the dispatch interval, which holds a call for any time.                 *)
(***************************************************************************)
EXTENDS Naturals, Sequences

CONSTANTS Versions, Digests, None,
          MaxClicks, MaxEdits      \* bounds: submits and retries, changes of the catalog

VARIABLES
  catalog,  \* the releases: [version, digest, published]
  acked,    \* digests the client has acknowledged
  jobs,     \* the recorded jobs: [click, version, digest, state]
  desk,     \* the click the main thread is waiting on, 0 when none
  marks,    \* the keys in flight
  call,     \* click |-> the hub's call: [at, version, digest]
  clicks,   \* observation: click |-> [version, digest] as the desktop resolved it
  edits     \* bound

vars == <<catalog, acked, jobs, desk, marks, call, clicks, edits>>

Clicks   == 1..MaxClicks
Wanted   == [version : Versions \cup {None}, digest : Digests \cup {None}]
Releases == [version : Versions, digest : Digests, published : BOOLEAN]
NoCall   == [at |-> "none", version |-> None, digest |-> None]

TypeOK ==
  /\ \A i \in DOMAIN catalog : catalog[i] \in Releases
  /\ \A i, j \in DOMAIN catalog : i # j => catalog[i].version # catalog[j].version
  /\ acked \subseteq Digests /\ desk \in 0..MaxClicks /\ edits \in 0..MaxEdits
  /\ marks \subseteq Versions \X Digests
  /\ \A i \in DOMAIN jobs : /\ jobs[i].click \in Clicks /\ jobs[i].version \in Versions
                            /\ jobs[i].digest \in Digests /\ jobs[i].state \in {"active", "retryable", "ended"}
  /\ \A k \in Clicks : /\ call[k].at \in {"none", "resolve", "wait", "record", "send", "sent", "refused"}
                       /\ call[k].version \in Versions \cup {None} /\ call[k].digest \in Digests \cup {None}
  /\ Len(clicks) <= MaxClicks

Init ==
  /\ catalog = <<>> /\ acked = {} /\ jobs = <<>> /\ desk = 0 /\ marks = {}
  /\ call = [k \in Clicks |-> NoCall] /\ clicks = <<>> /\ edits = 0

Of(v) == {i \in DOMAIN catalog : catalog[i].version = v}
Occupied == \E i \in DOMAIN jobs : jobs[i].state = "active"

-----------------------------------------------------------------------------
(* The catalog and the client *)

Edits == edits < MaxEdits /\ edits' = edits + 1 /\ UNCHANGED <<acked, jobs, desk, marks, call, clicks>>

\* A version has one record at most, which the new one replaces.
Without(v) ==
  IF Of(v) = {} THEN catalog
  ELSE LET i == CHOOSE i \in Of(v) : TRUE
       IN  SubSeq(catalog, 1, i - 1) \o SubSeq(catalog, i + 1, Len(catalog))
\* pack_skill (skill_pkg.rs:518): a published version is replaced by a draft only.
Pack(v, d, publish) ==
  /\ Edits
  /\ \A i \in Of(v) : catalog[i].published => ~publish /\ catalog[i].digest # d
  /\ catalog' = Append(Without(v), [version |-> v, digest |-> d, published |-> publish])
\* publish_skill (skill_pkg.rs:562).
Publish(v) ==
  /\ Edits
  /\ \E i \in Of(v) : catalog' = [catalog EXCEPT ![i].published = TRUE]

\* A sync of a published release has been acknowledged (master_hub.rs:558).
Sync(d) ==
  /\ d \notin acked /\ \E i \in DOMAIN catalog : catalog[i].published /\ catalog[i].digest = d
  /\ acked' = acked \cup {d}
  /\ UNCHANGED <<catalog, jobs, desk, marks, call, clicks, edits>>

-----------------------------------------------------------------------------
(* The desktop *)

\* latest_release (catalog.rs:552): the last of the list, published or not.
Latest == {i \in DOMAIN catalog : i = Len(catalog)}

\* resolve_digest (fleet.rs:462): by the digest asked for, else the latest, or
\* another version if that is asked for.
Resolved(w) ==
  IF w.digest # None
  THEN {i \in DOMAIN catalog : catalog[i].digest = w.digest
                               /\ \A j \in DOMAIN catalog : catalog[j].digest = w.digest => i <= j}
  ELSE IF \E i \in Latest : catalog[i].published
       THEN {i \in DOMAIN catalog :
               IF w.version \in {None, catalog[Len(catalog)].version} THEN i \in Latest
               ELSE catalog[i].version = w.version}
       ELSE {}

\* The hub is asked (fleet_submit_inner, fleet.rs:565): version and digest go
\* with the request.
MutantAsk(k, r) == call' = [call EXCEPT ![k] = [at |-> "resolve", version |-> r.version, digest |-> None]]
Ask(k, r) == call' = [call EXCEPT ![k] = [at |-> "resolve", version |-> r.version, digest |-> r.digest]]

Opens(r) ==
  /\ desk = 0 /\ Len(clicks) < MaxClicks /\ desk' = Len(clicks) + 1
  /\ clicks' = Append(clicks, [version |-> r.version, digest |-> r.digest])
  /\ Ask(Len(clicks) + 1, r)
  /\ UNCHANGED <<catalog, acked, jobs, edits>>

\* fleet_submit (fleet.rs:549) after precheck_submit (fleet.rs:508): the
\* release is published, no job of the profile is active in the files, and no
\* submit of the key is in flight.  fleet_submit_batch (fleet.rs:636) makes
\* one such call after the other.
Submit(w) ==
  \E i \in Resolved(w) :
    /\ catalog[i].published /\ ~Occupied
    /\ <<catalog[i].version, catalog[i].digest>> \notin marks
    /\ Opens(catalog[i])
    /\ marks' = marks \cup {<<catalog[i].version, catalog[i].digest>>}

\* fleet_retry (fleet.rs:765) of a job with a retryable result: the hub
\* submits its version and its digest anew (retry_job, master_hub.rs:848).
Retry(i) ==
  /\ jobs[i].state = "retryable"
  /\ Opens(jobs[i]) /\ UNCHANGED marks

\* The answer comes, or the read times out (control_request, fleet.rs:180):
\* either way the mark is freed.
Free(k) == marks' = marks \ {<<clicks[k].version, clicks[k].digest>>} /\ desk' = 0
Answered ==
  /\ desk # 0 /\ call[desk].at \in {"sent", "refused"} /\ Free(desk)
  /\ UNCHANGED <<catalog, acked, jobs, call, clicks, edits>>
TimesOut ==
  /\ desk # 0 /\ call[desk].at \in {"resolve", "wait", "record", "send"} /\ Free(desk)
  /\ UNCHANGED <<catalog, acked, jobs, call, clicks, edits>>

-----------------------------------------------------------------------------
(* The hub: handle_control and submit_job (master_hub.rs:195, 716) *)

Goto(k, l) == call' = [call EXCEPT ![k].at = l]
Hub == UNCHANGED <<catalog, acked, desk, marks, clicks, edits>>

\* resolve_published (skill_pkg.rs:431) by version and by digest, the digest
\* on the client, and the profile free.
Matches(c) == {i \in DOMAIN catalog : /\ catalog[i].published /\ c.version \in {None, catalog[i].version}
                                      /\ c.digest \in {None, catalog[i].digest}}
Resolve(k) ==
  /\ call[k].at = "resolve"
  /\ \/ /\ Matches(call[k]) = {} /\ Goto(k, "refused")
     \/ \E i \in Matches(call[k]) :
          call' = [call EXCEPT ![k] =
            IF catalog[i].digest \in acked /\ ~Occupied
            THEN [at |-> "wait", version |-> catalog[i].version, digest |-> catalog[i].digest]
            ELSE [@ EXCEPT !.at = "refused"]]
  /\ Hub /\ UNCHANGED jobs

\* wait_dispatch_interval (master_hub.rs:980), then the job is recorded, unless
\* the profile has been taken meanwhile.
Wait(k) == call[k].at = "wait" /\ Goto(k, "record") /\ Hub /\ UNCHANGED jobs
MutantRecord(k) ==
  /\ call[k].at = "record" /\ Goto(k, "send") /\ Hub
  /\ jobs' = Append(jobs, [click |-> k, version |-> call[k].version, digest |-> call[k].digest, state |-> "active"])
Record(k) ==
  /\ call[k].at = "record" /\ Hub
  /\ IF Occupied THEN Goto(k, "refused") /\ UNCHANGED jobs
     ELSE /\ Goto(k, "send")
          /\ jobs' = Append(jobs, [click |-> k, version |-> call[k].version,
                                   digest |-> call[k].digest, state |-> "active"])

\* The client is sent the job, or has gone and the job stays as it is.
Send(k) == call[k].at = "send" /\ (Goto(k, "sent") \/ Goto(k, "refused")) /\ Hub /\ UNCHANGED jobs

\* The client reports the job's end.
JobEnds(i, s) ==
  /\ jobs[i].state = "active" /\ jobs' = [jobs EXCEPT ![i].state = s]
  /\ \A k \in Clicks : jobs[i].click = k => call[k].at = "sent"
  /\ UNCHANGED call /\ Hub

Next ==
  \/ \E v \in Versions, d \in Digests, b \in BOOLEAN : Pack(v, d, b)
  \/ \E v \in Versions : Publish(v)
  \/ \E d \in Digests : Sync(d)
  \/ \E w \in Wanted : Submit(w)
  \/ \E i \in DOMAIN jobs : Retry(i) \/ \E s \in {"retryable", "ended"} : JobEnds(i, s)
  \/ Answered \/ TimesOut
  \/ \E k \in Clicks : Resolve(k) \/ Wait(k) \/ Record(k) \/ Send(k)

Spec == Init /\ [][Next]_vars

-----------------------------------------------------------------------------
(* Properties *)

\* "Refusing silent retarget" (fleet.rs:470, master_hub.rs:744): whatever is
\* packed and published while a click is under way, the job recorded for it is
\* of the release the desktop resolved, or of the job that is retried, and a
\* client never gets a release it has not acknowledged.
NoRetarget ==
  \A i \in DOMAIN jobs : LET j == jobs[i]  c == clicks[j.click] IN
    j.version = c.version /\ j.digest = c.digest /\ j.digest \in acked

\* One profile runs one job, however many clicks are left at the hub by
\* timeouts (master_hub.rs:752, 777).
ClicksShareNoProfile == \A i, j \in DOMAIN jobs : jobs[i].state = "active" /\ jobs[j].state = "active" => i = j

\* "Submit already in flight for this client/skill/profile/digest (duplicate
\* click ignored)" (fleet.rs:556): the hub never has two calls of one key.
\* The code does not keep it: a click that times out gives its key back while
\* its call goes on in the hub.
DuplicateClickIgnored ==
  \A k, l \in 1..Len(clicks) :
    /\ {call[k].at, call[l].at} \subseteq {"resolve", "wait", "record", "send"}
    /\ clicks[k].version = clicks[l].version /\ clicks[k].digest = clicks[l].digest
    => k = l
=============================================================================
