----------------------------- MODULE ResultStore -----------------------------
(***************************************************************************)
(* The master's job store: data/jobs/<id>.json, the in-memory index, and   *)
(* the per-skill ledger (src/src/jobs.rs, ledger.rs, skill_status.rs and   *)
(* the write phases of master_hub.rs).  Every handler runs under the hub's *)
(* write lock, so handlers do not interleave; what separates their file    *)
(* operations is a crash, or one of them failing.                          *)
(*                                                                         *)
(* fs::write truncates and then writes: a crash in it leaves a file that   *)
(* does not parse.  Clients may report anything their code can send, in    *)
(* any order and any number of times.  Definitions that start with Mutant  *)
(* are bugs, no part of the model.                                         *)
(***************************************************************************)
EXTENDS SkillStatus, Integers, FiniteSets

CONSTANTS NoRecord,   \* the job file does not exist
          Torn,       \* a file that does not parse
          NoIngest,   \* no report is being ingested
          Reports     \* the final reports that clients make

ASSUME FileAssumption ==
  /\ NoRecord \notin JobRecord /\ Torn \notin JobRecord /\ NoRecord # Torn
  /\ Reports \subseteq Report

VARIABLES
  up,       \* the hub process runs
  disk,     \* data/jobs/<id>.json
  mem,      \* HubState::jobs
  known,    \* digests with a release record in the catalog
  ledger,   \* skill |-> success_count and entries, or Torn
  ingest    \* a report whose record is saved and whose ledger entry is not

storeVars == <<up, disk, mem, known, ledger, ingest>>

Entry     == [job : Jobs, result : BusinessResult]
Partition == [count : Nat, entries : SUBSET Entry]
Ingest    == {i \in [job : Jobs, rec : JobRecord, outcome : {"Applied", "Other"}] :
                 i.outcome = "Applied" => i.rec.result # NoResult}

ASSUME MarkerAssumption ==
  /\ Torn \notin Partition /\ NoIngest \notin Ingest
  /\ \A S \in SUBSET Jobs : Torn # S

TypeOK ==
  /\ up \in BOOLEAN
  /\ disk \in [Jobs -> JobRecord \cup {NoRecord, Torn}]
  /\ mem \in [Jobs -> JobRecord \cup {NoRecord}]
  /\ known \in SUBSET Digests
  /\ ledger \in [Skills -> Partition \cup {Torn}]
  /\ ingest \in Ingest \cup {NoIngest}

Init ==
  /\ up = TRUE
  /\ disk = [j \in Jobs |-> NoRecord]
  /\ mem = disk
  /\ known = Digests
  /\ ledger = [s \in Skills |-> [count |-> 0, entries |-> {}]]
  /\ ingest = NoIngest

Free == up /\ ingest = NoIngest

Active(j) == mem[j] # NoRecord /\ mem[j].state \notin Terminal
OccupiedBy(p) == {j \in Jobs : Active(j) /\ mem[j].profile = p}

\* jobs::upsert_state on what the file holds; a torn file is an error.
Upsert(old, c, s, p, state) ==
  LET r == IF old = NoRecord THEN NewRecord(c, s, p) ELSE old
  IN  [r EXCEPT !.client = c, !.state = state,
                !.skill = IF s = NoSkill THEN @ ELSE s,
                !.profile = IF p = NoProfile THEN @ ELSE p]

-----------------------------------------------------------------------------
\* The write phase of submit_job (its read phase only narrows what arrives
\* here).  A finished job is left alone, and so is an occupied profile unless
\* this very job occupies it.
MayBind(j, p) ==
  /\ mem[j] = NoRecord \/ Active(j)
  /\ OccupiedBy(p) = {} \/ j \in OccupiedBy(p)

Bind(j, c, p, d) ==
  /\ Free /\ MayBind(j, p)
  /\ disk[j] # Torn
  /\ LET rec == [Upsert(disk[j], c, SkillOf[d], p, "queued") EXCEPT !.digest = d]
     IN  /\ disk' = [disk EXCEPT ![j] = rec]
         /\ mem' = [mem EXCEPT ![j] = rec]
  /\ UNCHANGED <<up, known, ledger, ingest>>

\* cancel_job: the file gets the client named in the request, the index only
\* the state, and a job the index does not know stays out of it.
Cancel(j, c) ==
  /\ Free
  /\ mem[j] # NoRecord => mem[j].state \notin Terminal /\ mem[j].result = NoResult
  /\ disk' = [disk EXCEPT ![j] = IF @ = Torn THEN @ ELSE Upsert(@, c, NoSkill, NoProfile, "cancelling")]
  /\ mem' = [mem EXCEPT ![j] = IF @ = NoRecord THEN @ ELSE [@ EXCEPT !.state = "cancelling"]]
  /\ UNCHANGED <<up, known, ledger, ingest>>

\* ingest_client_update up to jobs::save.
Loaded(u) == IF disk[u.job] = NoRecord THEN NewRecord(u.client, NoSkill, NoProfile) ELSE disk[u.job]

IngestSave(u) ==
  /\ Free
  /\ disk[u.job] # Torn      \* the handler logs the load error and goes on
  /\ LET res == ApplyUpdate(Loaded(u), u, known)
     IN  /\ disk' = [disk EXCEPT ![u.job] = res.rec]
         /\ ingest' = [job |-> u.job, rec |-> res.rec,
                       outcome |-> IF res.outcome = "Applied" THEN "Applied" ELSE "Other"]
  /\ UNCHANGED <<up, mem, known, ledger>>

\* every final counts, not every success
MutantCountsEvery(part, j, res) ==
  IF \E e \in part.entries : e.job = j
    THEN part
    ELSE [count |-> part.count + 1, entries |-> part.entries \cup {[job |-> j, result |-> res]}]

\* ledger::record: nothing without a skill, nothing for a job that the skill's
\* partition already has.
Recorded(part, j, res) ==
  IF \E e \in part.entries : e.job = j
    THEN part
    ELSE [count |-> part.count + (IF res.success THEN 1 ELSE 0),
          entries |-> part.entries \cup {[job |-> j, result |-> res]}]

IngestRecord ==
  /\ up /\ ingest # NoIngest
  /\ ingest.outcome = "Applied" => ledger[ingest.rec.result.skill] # Torn
  /\ ledger' = IF ingest.outcome = "Applied"
                 THEN [ledger EXCEPT ![ingest.rec.result.skill] =
                                       Recorded(@, ingest.job, ingest.rec.result)]
                 ELSE ledger
  /\ mem' = [mem EXCEPT ![ingest.job] = ingest.rec]
  /\ ingest' = NoIngest
  /\ UNCHANGED <<up, disk, known>>

\* A partition that does not parse, or cannot be written: the error skips the
\* index, so memory keeps the old record of a job that has ended on disk.
RecordFails ==
  /\ up /\ ingest # NoIngest /\ ingest.outcome = "Applied"
  /\ ingest' = NoIngest
  /\ UNCHANGED <<up, disk, mem, known, ledger>>

\* A draft packed over a version drops the release record of its old digest;
\* packing the old content again brings it back.
Repack(d) ==
  /\ known' = IF d \in known THEN known \ {d} ELSE known \cup {d}
  /\ UNCHANGED <<up, disk, mem, ledger, ingest>>

-----------------------------------------------------------------------------
Stop == /\ up' = FALSE
        /\ mem' = [j \in Jobs |-> NoRecord]
        /\ ingest' = NoIngest

Crash == up /\ Stop /\ UNCHANGED <<disk, known, ledger>>

\* inside jobs::save
CrashInSave(j) ==
  /\ Free /\ Stop
  /\ disk' = [disk EXCEPT ![j] = Torn]
  /\ UNCHANGED <<known, ledger>>

\* between the two saves of submit_job's write phase: queued, without binding
CrashInBind(j, c, p, d) ==
  /\ Free /\ MayBind(j, p) /\ disk[j] # Torn /\ Stop
  /\ disk' = [disk EXCEPT ![j] = Upsert(@, c, SkillOf[d], p, "queued")]
  /\ UNCHANGED <<known, ledger>>

\* inside ledger::save_partition
CrashInRecord ==
  /\ up /\ ingest # NoIngest /\ ingest.outcome = "Applied" /\ Stop
  /\ ledger[ingest.rec.result.skill] # Torn
  /\ ledger' = [ledger EXCEPT ![ingest.rec.result.skill] = Torn]
  /\ UNCHANGED <<disk, known>>

\* load_all_jobs skips what does not parse.
Restart ==
  /\ ~up /\ up' = TRUE
  /\ mem' = [j \in Jobs |-> IF disk[j] = Torn THEN NoRecord ELSE disk[j]]
  /\ UNCHANGED <<disk, known, ledger, ingest>>

\* What a client can send (client_daemon.rs): a scheduler state without data, a
\* final state with its report, a failure with or without one, and the
\* idempotent report of a finished job: its state with whatever data an earlier
\* run left beside it, null if there is none.
Message(j, c, state, perr, data) ==
  [job |-> j, client |-> c, state |-> state, protocol_error |-> perr, data |-> data]

Left(j, c, state) == {Message(j, c, state, FALSE, r) : r \in Reports \cup {NullData}}

ClientUpdates(j, c) ==
       {Message(j, c, st, FALSE, NoData) : st \in {"running", "cancelled", "paused", "failed"}}
  \cup {Message(j, c, "failed", TRUE, NoData)}
  \cup Left(j, c, "cancelled") \cup Left(j, c, "paused") \cup Left(j, c, "failed")
  \cup {Message(j, c, "succeeded", FALSE, r) : r \in {x \in Reports : ~x.paused}}
  \cup {Message(j, c, "failed", TRUE, r) : r \in Reports}

Next ==
  \/ \E j \in Jobs, c \in Clients, p \in Profiles, d \in Digests :
       Bind(j, c, p, d) \/ CrashInBind(j, c, p, d)
  \/ \E j \in Jobs, c \in Clients :
       Cancel(j, c) \/ \E u \in ClientUpdates(j, c) : IngestSave(u)
  \/ IngestRecord \/ RecordFails
  \/ \E d \in Digests : Repack(d)
  \/ Crash \/ CrashInRecord \/ Restart
  \/ \E j \in Jobs : CrashInSave(j)

Spec == Init /\ [][Next]_storeVars

-----------------------------------------------------------------------------
Readable(j) == disk[j] \notin {NoRecord, Torn}
Entries(s)  == IF ledger[s] = Torn THEN {} ELSE ledger[s].entries

\* "Success count = declared success:true, at most once per job" (README.md:120):
\* the number of a partition is the number of its successes, and no job has two
\* entries, not even in the partitions of two skills.
CountedAtMostOnce ==
  /\ \A s \in Skills : ledger[s] # Torn =>
       ledger[s].count = Cardinality({e \in Entries(s) : e.result.success})
  /\ \A s, t \in Skills : \A e \in Entries(s), f \in Entries(t) :
       e.job = f.job => s = t /\ e = f

\* The ledger never tells another story than the job: an entry repeats the
\* result in its job's file, as long as that file can be read.
LedgerBacked ==
  \A s \in Skills : \A e \in Entries(s) :
    /\ e.result.skill = s
    /\ disk[e.job] # Torn => Readable(e.job) /\ disk[e.job].result = e.result

\* A validated result is never changed or removed by later reports, cancels,
\* submits, failures or restarts: "conflicts do not overwrite"
\* (skill_status.rs:243).  Only a crash inside the save loses it.
ResultIsFinal ==
  [][\A j \in Jobs : Readable(j) /\ disk[j].result # NoResult =>
        disk'[j] = Torn \/ disk'[j].result = disk[j].result]_storeVars

\* A result is one the bound package declares, counted as it declares, and never
\* stands beside a protocol error ("without forging a skill failed").
Honest(r) ==
  IF r.result = NoResult
    THEN ~r.success_counted
    ELSE /\ r.result.status \in Vocabulary(r.result.digest)
         /\ r.result.success = (r.result.status \in Succeeds[r.result.digest])
         /\ r.success_counted = r.result.success
         /\ ~r.protocol_error

NoForgedResult == \A j \in Jobs : Readable(j) => Honest(disk[j])

Ended(r) == r \notin {NoRecord, Torn} /\ r.state \in Terminal

\* The running hub's index has missed the end of a job that its file tells of.
Missed(j) == /\ up /\ Ended(disk[j]) /\ ~Ended(mem[j])
             /\ ingest = NoIngest \/ ingest.job # j

\* A job whose file says that it has finished is not reopened by a late report,
\* a cancel, a second submit of its id or a restart, wherever the hub died,
\* unless the running index has missed its end; the index never reopens one it
\* has; and only a failed ledger write (master_hub.rs:657) makes it miss one.
FinishedStaysFinished ==
  [][\A j \in Jobs :
       /\ Ended(disk[j]) /\ ~Missed(j) => disk'[j] = Torn \/ Ended(disk'[j])
       /\ up /\ up' /\ Ended(mem[j]) => Ended(mem'[j])
       /\ Missed(j)' => Missed(j) \/ RecordFails]_storeVars

\* "if job_id already terminal on disk, do not re-dispatch" (master_hub.rs:709):
\* no step queues a job whose file says that it has finished.  submit_job looks
\* at the index only, so this fails once the index has missed the end.
TerminalNotRequeued ==
  [][\A j \in Jobs : Ended(disk[j]) => disk'[j] = Torn \/ disk'[j].state # "queued"]_storeVars

\* The store implements the abstract log.
VerdictOf(j) == IF disk[j] = Torn THEN Torn ELSE IF disk[j] = NoRecord THEN NoResult ELSE disk[j].result
BookOf(s)    == IF ledger[s] = Torn THEN Torn ELSE {e.job : e \in {x \in ledger[s].entries : x.result.success}}

Log == INSTANCE ResultLog
         WITH Results <- BusinessResult, Undecided <- NoResult, Lost <- Torn,
              verdict <- [j \in Jobs |-> VerdictOf(j)],
              book <- [s \in Skills |-> BookOf(s)]

ImplementsLog == Log!LogSpec
=============================================================================
