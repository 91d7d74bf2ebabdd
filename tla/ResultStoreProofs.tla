-------------------------- MODULE ResultStoreProofs --------------------------
(***************************************************************************)
(* What ResultStore guarantees for every set of jobs, packages and reports: *)
(* results are final and never forged, the ledger counts each success once *)
(* and tells the story of the job files, and the store implements          *)
(* ResultLog.  The lemmas on ApplyUpdate come first: they are what one     *)
(* client report can do to one record (skill_status.rs:286-455).           *)
(***************************************************************************)
EXTENDS ResultStore, SkillStatusProofs, FiniteSetTheorems, TLAPS

\* What every outcome of apply_update must satisfy.
Sound(r, res) ==
  /\ res.rec \in JobRecord
  /\ res.outcome = "Applied" => r.result = NoResult /\ res.rec.result \in BusinessResult
  /\ res.outcome # "Applied" => res.rec.result = r.result
  /\ Honest(r) => Honest(res.rec)

\* A scheduler state that ends nothing (skill_status.rs:303-317).
LEMMA ProgressSound ==
  ASSUME NEW r \in JobRecord, NEW state \in JobStates
  PROVE  Sound(r, Progress(r, state))
BY DEF Sound, Progress, Outcome, JobRecord, Honest

\* A protocol failure leaves a decided record alone (skill_status.rs:419-428).
LEMMA FailProtocolSound ==
  ASSUME NEW r \in JobRecord
  PROVE  Sound(r, FailProtocol(r))
BY DEF Sound, FailProtocol, Outcome, JobRecord, JobStates, Honest

\* So does a cancel (skill_status.rs:407-417).
LEMMA FinalizeCancelSound ==
  ASSUME NEW r \in JobRecord
  PROVE  Sound(r, FinalizeCancel(r))
BY DEF Sound, FinalizeCancel, Outcome, JobRecord, JobStates, Honest

\* So does an end without a business result (skill_status.rs:318-369).
LEMMA EndWithoutSound ==
  ASSUME NEW r \in JobRecord, NEW state \in JobStates, NEW perr \in BOOLEAN
  PROVE  Sound(r, EndWithout(r, state, perr))
BY DEF Sound, EndWithout, Outcome, JobRecord, Honest

\* The result that is made of an adapted report is an honest one.
LEMMA ResultOfHonest ==
  ASSUME NEW r \in JobRecord, NEW report \in Report, NEW published, Adapts(r, report, published)
  PROVE  /\ ResultOf(r, report) \in BusinessResult
         /\ ResultOf(r, report).status \in Vocabulary(r.digest)
         /\ ResultOf(r, report).success = (report.status \in Succeeds[r.digest])
<1>1. r.skill \in Skills /\ r.digest \in Digests \cup {NoDigest}
  BY DEF JobRecord, Adapts, Bound
<1>2. report.status \in Vocabulary(r.digest)
  BY DEF Adapts
<1>3. Vocabulary(r.digest) \subseteq Statuses
  BY <1>1, DeclarationAssumption DEF Vocabulary
<1> QED
  BY <1>1, <1>2, <1>3 DEF ResultOf, BusinessResult

\* A report is decided once; a second one changes nothing (skill_status.rs:430-455).
LEMMA FinalizeResultSound ==
  ASSUME NEW r \in JobRecord, NEW new \in BusinessResult,
         new.status \in Vocabulary(new.digest),
         new.success = (new.status \in Succeeds[new.digest])
  PROVE  Sound(r, FinalizeResult(r, new))
<1>1. CASE r.result # NoResult
  BY <1>1 DEF FinalizeResult, Sound, Outcome
<1>2. CASE r.result = NoResult
  <2> DEFINE rec == FinalizeResult(r, new).rec
  <2>1. rec = [r EXCEPT !.result = new, !.protocol_error = FALSE,
                        !.state = IF new.success THEN "succeeded" ELSE "failed",
                        !.success_counted = @ \/ new.success]
    BY <1>2 DEF FinalizeResult, Outcome
  <2>2. new.success \in BOOLEAN /\ new # NoResult
    BY NoRecordAssumption DEF BusinessResult
  <2>3. rec \in JobRecord /\ rec.result = new
    BY <2>1, <2>2 DEF JobRecord, JobStates
  <2>4. FinalizeResult(r, new).outcome = "Applied"
    BY <1>2 DEF FinalizeResult, Outcome
  <2>5. Honest(r) => Honest(rec)
    <3> SUFFICES ASSUME Honest(r) PROVE Honest(rec)
      OBVIOUS
    <3>1. ~r.success_counted
      BY <1>2 DEF Honest
    <3>2. rec.success_counted = (r.success_counted \/ new.success) /\ ~rec.protocol_error
      BY <2>1 DEF JobRecord
    <3>3. rec.success_counted = new.success
      BY <3>1, <3>2, <2>2
    <3> QED
      BY <3>2, <3>3, <2>3, <2>2 DEF Honest
  <2> HIDE DEF rec
  <2> QED
    BY <1>2, <2>3, <2>4, <2>5 DEF Sound, rec
<1> QED
  BY <1>1, <1>2

\* The body of a final state (skill_status.rs:330-360).
LEMMA ApplyReportSound ==
  ASSUME NEW r \in JobRecord, NEW data \in Data, NEW published
  PROVE  data # NoData => Sound(r, ApplyReport(r, data, published))
<1>1. r.protocol_error \in BOOLEAN /\ "paused" \in JobStates
  BY DEF JobRecord, JobStates
<1>2. CASE data \in Report /\ ~data.paused /\ Adapts(r, data, published)
  <2>1. ApplyReport(r, data, published) = FinalizeResult(r, ResultOf(r, data))
    BY <1>2, NoRecordAssumption DEF ApplyReport
  <2>2. ResultOf(r, data).digest = r.digest /\ ResultOf(r, data).status = data.status
    BY DEF ResultOf
  <2> QED
    BY <1>2, <2>1, <2>2, ResultOfHonest, FinalizeResultSound
<1>3. CASE data \in Report /\ data.paused
  BY <1>1, <1>3, EndWithoutSound, NoRecordAssumption DEF ApplyReport
<1>4. CASE data = NullData \/ (data \in Report /\ ~data.paused /\ ~Adapts(r, data, published))
  BY <1>4, FailProtocolSound, NoRecordAssumption DEF ApplyReport
<1>5. data \in Report => data.paused \in BOOLEAN
  BY DEF Report
<1> QED
  BY <1>2, <1>3, <1>4, <1>5 DEF Data

\* apply_update: whatever a client reports in whatever state of the record.
LEMMA ApplyUpdateSound ==
  ASSUME NEW r0 \in JobRecord, NEW u \in Update, NEW published
  PROVE  Sound(r0, ApplyUpdate(r0, u, published))
<1> DEFINE r == Stamp(r0, u)
<1>1. r \in JobRecord /\ r.result = r0.result
  BY DEF Stamp, JobRecord, Update
<1>2. Honest(r0) => Honest(r)
  BY DEF Stamp, JobRecord, Honest
<1>3. u.state \in JobStates /\ u.data \in Data /\ u.protocol_error \in BOOLEAN
  BY DEF Update
<1>4. r.protocol_error \in BOOLEAN
  BY <1>1 DEF JobRecord
<1> HIDE DEF r
<1>5. Sound(r, ApplyUpdate(r0, u, published))
  <2>1. CASE u.state \in {"running", "queued", "cancelling"}
    BY <2>1, <1>1, ProgressSound DEF ApplyUpdate, r, JobStates
  <2>2. CASE u.state = "paused"
    BY <2>2, <1>1, EndWithoutSound DEF ApplyUpdate, r, JobStates
  <2>3. CASE u.state = "cancelled"
    BY <2>3, <1>1, FinalizeCancelSound DEF ApplyUpdate, r
  <2>4. CASE u.state \in {"failed", "succeeded"}
    <3>1. ApplyUpdate(r0, u, published) = ApplyFinal(r, u, published)
      BY <2>4 DEF ApplyUpdate, r
    <3>2. CASE ~Misdispatched(r, u) /\ u.data # NoData
      BY <3>1, <3>2, <1>1, <1>3, ApplyReportSound DEF ApplyFinal
    <3>3. CASE ~Misdispatched(r, u) /\ u.data = NoData /\ ~u.protocol_error /\ u.state = "failed"
      BY <3>1, <3>3, <1>1, <1>4, EndWithoutSound DEF ApplyFinal, JobStates
    <3>4. CASE Misdispatched(r, u) \/ (u.data = NoData /\ (u.protocol_error \/ u.state # "failed"))
      BY <3>1, <3>4, <1>1, <1>3, FailProtocolSound DEF ApplyFinal
    <3> QED
      BY <3>2, <3>3, <3>4
  <2> QED
    BY <2>1, <2>2, <2>3, <2>4, <1>3 DEF JobStates
<1> QED
  BY <1>1, <1>2, <1>5 DEF Sound

\* What a client sends is an update (client_daemon.rs:190-196, 424-443, 454-715).
LEMMA ClientUpdatesTyped ==
  ASSUME NEW j \in Jobs, NEW c \in Clients, NEW u \in ClientUpdates(j, c)
  PROVE  u \in Update /\ u.job = j
<1> DEFINE Is(st, perr, d) == u = Message(j, c, st, perr, d)
<1>1. \/ \E st \in {"running", "cancelled", "paused", "failed"} : Is(st, FALSE, NoData)
      \/ Is("failed", TRUE, NoData)
      \/ \E r \in Reports \cup {NullData} :
           Is("cancelled", FALSE, r) \/ Is("paused", FALSE, r) \/ Is("failed", FALSE, r)
      \/ \E r \in Reports : Is("succeeded", FALSE, r) \/ Is("failed", TRUE, r)
  BY DEF ClientUpdates, Left
<1>2. PICK st \in JobStates, perr \in BOOLEAN, d \in Data : Is(st, perr, d)
  BY <1>1, FileAssumption DEF Data, JobStates
<1> QED
  BY <1>2 DEF Message, Update

\* A record written over another one keeps its result and forges none.
Keeps(old, new) ==
  /\ old # NoRecord /\ old.result # NoResult => new.result = old.result
  /\ old = NoRecord \/ Honest(old) => Honest(new)

\* jobs::upsert_state keeps what was decided (jobs.rs:90-135).
LEMMA UpsertSound ==
  ASSUME NEW old \in JobRecord \cup {NoRecord}, NEW c \in Clients, NEW s \in Skills \cup {NoSkill},
         NEW p \in Profiles \cup {NoProfile}, NEW state \in JobStates
  PROVE  /\ Upsert(old, c, s, p, state) \in JobRecord
         /\ Keeps(old, Upsert(old, c, s, p, state))
<1>1. CASE old = NoRecord
  BY <1>1, FileAssumption DEF Upsert, NewRecord, JobRecord, Data, JobStates, Honest, Keeps
<1>2. CASE old \in JobRecord
  BY <1>2, FileAssumption DEF Upsert, JobRecord, Honest, Keeps
<1> QED
  BY <1>1, <1>2

\* The record that an ingested report starts from (skill_status.rs:245-262).
LEMMA LoadedSound ==
  ASSUME TypeOK, NEW u \in Update, disk[u.job] # Torn
  PROVE  /\ Loaded(u) \in JobRecord
         /\ Readable(u.job) => Loaded(u) = disk[u.job]
         /\ disk[u.job] = NoRecord => Loaded(u).result = NoResult /\ Honest(Loaded(u))
<1>1. u.job \in Jobs /\ u.client \in Clients
  BY DEF Update
<1>2. CASE disk[u.job] = NoRecord
  BY <1>1, <1>2 DEF Loaded, Readable, NewRecord, JobRecord, Data, JobStates, Honest
<1>3. CASE disk[u.job] # NoRecord
  BY <1>1, <1>3 DEF Loaded, Readable, TypeOK
<1> QED
  BY <1>2, <1>3

\* ledger::record (ledger.rs:79-130).
LEMMA RecordedSound ==
  ASSUME NEW part \in Partition, NEW j \in Jobs, NEW res \in BusinessResult
  PROVE  Recorded(part, j, res) \in Partition
<1>1. [job |-> j, result |-> res] \in Entry /\ res.success \in BOOLEAN
  BY DEF Entry, BusinessResult
<1>2. part.count \in Nat /\ part.entries \subseteq Entry
  BY DEF Partition
<1> QED
  BY <1>1, <1>2 DEF Recorded, Partition

\* Every step of the store keeps the types.
LEMMA TypingStep ==
  ASSUME TypeOK, [Next]_storeVars
  PROVE  TypeOK'
<1> USE DEF TypeOK
<1>1. ASSUME NEW j \in Jobs, NEW c \in Clients, NEW p \in Profiles, NEW d \in Digests,
             Bind(j, c, p, d) \/ CrashInBind(j, c, p, d)
      PROVE  TypeOK'
  <2>1. SkillOf[d] \in Skills /\ "queued" \in JobStates
    BY DeclarationAssumption DEF JobStates
  <2>2. disk[j] \in JobRecord \cup {NoRecord}
    BY <1>1 DEF Bind, CrashInBind
  <2>3. Upsert(disk[j], c, SkillOf[d], p, "queued") \in JobRecord
    BY <2>1, <2>2, UpsertSound
  <2> DEFINE new == Upsert(disk[j], c, SkillOf[d], p, "queued")
             rec == [new EXCEPT !.digest = d]
  <2> HIDE DEF new
  <2>4. rec \in JobRecord
    BY <2>3 DEF JobRecord, new
  <2>5. CASE Bind(j, c, p, d)
    <3>1. disk' = [disk EXCEPT ![j] = rec] /\ mem' = [mem EXCEPT ![j] = rec]
      BY <2>5 DEF Bind, new
    <3> QED
      BY <3>1, <2>4, <2>5 DEF Bind
  <2>6. CASE CrashInBind(j, c, p, d)
    BY <2>3, <2>6 DEF CrashInBind, Stop
  <2> QED
    BY <1>1, <2>5, <2>6
<1>2. ASSUME NEW j \in Jobs, NEW c \in Clients, Cancel(j, c) PROVE TypeOK'
  <2>1. disk[j] # Torn => Upsert(disk[j], c, NoSkill, NoProfile, "cancelling") \in JobRecord
    BY UpsertSound DEF JobStates
  <2>2. disk' \in [Jobs -> JobRecord \cup {NoRecord, Torn}]
    BY <1>2, <2>1 DEF Cancel
  <2>3. mem[j] # NoRecord => [mem[j] EXCEPT !.state = "cancelling"] \in JobRecord
    BY DEF JobRecord, JobStates
  <2>4. mem' \in [Jobs -> JobRecord \cup {NoRecord}]
    BY <1>2, <2>3 DEF Cancel
  <2> QED
    BY <1>2, <2>2, <2>4 DEF Cancel
<1>3. ASSUME NEW j \in Jobs, NEW c \in Clients, NEW u \in ClientUpdates(j, c), IngestSave(u)
      PROVE  TypeOK'
  <2>1. u \in Update /\ u.job \in Jobs
    BY ClientUpdatesTyped DEF Update
  <2>2. Loaded(u) \in JobRecord
    BY <1>3, <2>1, LoadedSound DEF IngestSave
  <2>3. Sound(Loaded(u), ApplyUpdate(Loaded(u), u, known))
    BY <2>1, <2>2, ApplyUpdateSound
  <2> QED
    BY <1>3, <2>1, <2>3, NoRecordAssumption DEF IngestSave, Ingest, Sound
<1>4. CASE IngestRecord
  <2>1. ingest.job \in Jobs /\ ingest.rec \in JobRecord
    BY <1>4 DEF IngestRecord, Ingest
  <2>2. mem' \in [Jobs -> JobRecord \cup {NoRecord}]
    BY <1>4, <2>1 DEF IngestRecord
  <2>3. ASSUME ingest.outcome = "Applied"
        PROVE  ledger' \in [Skills -> Partition \cup {Torn}]
    <3>1. ingest.rec.result \in BusinessResult /\ ingest.rec.result.skill \in Skills
      BY <2>1, <2>3, <1>4 DEF IngestRecord, Ingest, JobRecord, BusinessResult
    <3>2. ledger[ingest.rec.result.skill] \in Partition
      BY <1>4, <2>3, <3>1 DEF IngestRecord
    <3>3. Recorded(ledger[ingest.rec.result.skill], ingest.job, ingest.rec.result) \in Partition
      BY <2>1, <3>1, <3>2, RecordedSound
    <3> QED
      BY <1>4, <2>3, <3>3 DEF IngestRecord
  <2> QED
    BY <1>4, <2>1, <2>2, <2>3 DEF IngestRecord
<1>5. CASE RecordFails
  BY <1>5 DEF RecordFails
<1>6. ASSUME NEW d \in Digests, Repack(d) PROVE TypeOK'
  BY <1>6 DEF Repack
<1>7. CASE Crash
  BY <1>7 DEF Crash, Stop
<1>8. CASE CrashInRecord
  BY <1>8 DEF CrashInRecord, Stop
<1>9. CASE Restart
  BY <1>9 DEF Restart
<1>10. ASSUME NEW j \in Jobs, CrashInSave(j) PROVE TypeOK'
  BY <1>10 DEF CrashInSave, Stop
<1>11. CASE UNCHANGED storeVars
  BY <1>11 DEF storeVars
<1> QED
  BY <1>1, <1>2, <1>3, <1>4, <1>5, <1>6, <1>7, <1>8, <1>9, <1>10, <1>11 DEF Next

\* The types, in every reachable state of the store.
THEOREM Typing == Spec => []TypeOK
<1>1. Init => TypeOK
  BY DEF Init, TypeOK, Partition, Entry
<1> QED
  BY <1>1, TypingStep, PTL DEF Spec

\* How a step may change a job file: tear it, or write a record over what can be
\* read.
Rewrites(j) ==
  /\ \A i \in Jobs \ {j} : disk'[i] = disk[i]
  /\ disk'[j] = Torn \/ (disk[j] # Torn /\ disk'[j] \in JobRecord /\ Keeps(disk[j], disk'[j]))

\* No step changes two files, and each changes one in this way only.
LEMMA DiskStep ==
  ASSUME TypeOK, [Next]_storeVars
  PROVE  disk' = disk \/ \E j \in Jobs : Rewrites(j) /\ ledger' = ledger
<1> USE DEF TypeOK
<1>1. ASSUME NEW j \in Jobs, NEW c \in Clients, NEW p \in Profiles, NEW d \in Digests,
             Bind(j, c, p, d) \/ CrashInBind(j, c, p, d)
      PROVE  Rewrites(j) /\ ledger' = ledger
  <2>1. SkillOf[d] \in Skills /\ "queued" \in JobStates
    BY DeclarationAssumption DEF JobStates
  <2>2. disk[j] \in JobRecord \cup {NoRecord}
    BY <1>1 DEF Bind, CrashInBind
  <2> DEFINE new == Upsert(disk[j], c, SkillOf[d], p, "queued")
             rec == [new EXCEPT !.digest = d]
  <2>3. new \in JobRecord /\ Keeps(disk[j], new)
    BY <2>1, <2>2, UpsertSound
  <2> HIDE DEF new
  <2>4. rec \in JobRecord /\ Keeps(disk[j], rec)
    BY <2>3 DEF JobRecord, Keeps, Honest
  <2>5. disk' = [disk EXCEPT ![j] = rec] \/ disk' = [disk EXCEPT ![j] = new]
    BY <1>1 DEF Bind, CrashInBind, new
  <2>6. ledger' = ledger
    BY <1>1 DEF Bind, CrashInBind
  <2> QED
    BY <2>2, <2>3, <2>4, <2>5, <2>6, FileAssumption DEF Rewrites
<1>2. ASSUME NEW j \in Jobs, NEW c \in Clients, Cancel(j, c)
      PROVE  Rewrites(j) /\ ledger' = ledger
  <2>1. CASE disk[j] = Torn
    BY <1>2, <2>1 DEF Cancel, Rewrites
  <2>2. CASE disk[j] # Torn
    <3> DEFINE new == Upsert(disk[j], c, NoSkill, NoProfile, "cancelling")
    <3>1. new \in JobRecord /\ Keeps(disk[j], new)
      BY <2>2, UpsertSound DEF JobStates
    <3>2. disk' = [disk EXCEPT ![j] = new] /\ ledger' = ledger
      BY <1>2, <2>2 DEF Cancel
    <3> HIDE DEF new
    <3> QED
      BY <2>2, <3>1, <3>2 DEF Rewrites
  <2> QED
    BY <2>1, <2>2
<1>3. ASSUME NEW j \in Jobs, NEW c \in Clients, NEW u \in ClientUpdates(j, c), IngestSave(u)
      PROVE  Rewrites(j) /\ ledger' = ledger
  <2>1. u \in Update /\ u.job = j /\ disk[j] # Torn
    BY <1>3, ClientUpdatesTyped DEF IngestSave
  <2> DEFINE res == ApplyUpdate(Loaded(u), u, known)
  <2>2. /\ Loaded(u) \in JobRecord
        /\ disk[j] # NoRecord => Loaded(u) = disk[j]
        /\ disk[j] = NoRecord => Honest(Loaded(u))
    BY <2>1, LoadedSound DEF Readable
  <2>3. Sound(Loaded(u), res)
    BY <2>1, <2>2, ApplyUpdateSound
  <2>4. disk' = [disk EXCEPT ![j] = res.rec] /\ ledger' = ledger
    BY <1>3, <2>1 DEF IngestSave
  <2> HIDE DEF res
  <2>5. res.rec \in JobRecord /\ Keeps(disk[j], res.rec)
    BY <2>2, <2>3 DEF Sound, Keeps
  <2> QED
    BY <2>1, <2>4, <2>5 DEF Rewrites
<1>4. ASSUME NEW j \in Jobs, CrashInSave(j) PROVE Rewrites(j) /\ ledger' = ledger
  BY <1>4 DEF CrashInSave, Rewrites
<1>5. CASE IngestRecord \/ RecordFails \/ Crash \/ CrashInRecord \/ Restart
  BY <1>5 DEF IngestRecord, RecordFails, Crash, CrashInRecord, Restart
<1>6. ASSUME NEW d \in Digests, Repack(d) PROVE disk' = disk
  BY <1>6 DEF Repack
<1>7. CASE UNCHANGED storeVars
  BY <1>7 DEF storeVars
<1> QED
  BY <1>1, <1>2, <1>3, <1>4, <1>5, <1>6, <1>7 DEF Next

\* A validated result survives every later report, cancel, submit, failure and
\* restart; only a torn file loses it (skill_status.rs:430-455, 407-428).
THEOREM ResultsAreFinal == Spec => ResultIsFinal
<1>1. ASSUME TypeOK, [Next]_storeVars, NEW j \in Jobs, Readable(j), disk[j].result # NoResult
      PROVE  disk'[j] = Torn \/ disk'[j].result = disk[j].result
  BY <1>1, DiskStep DEF Rewrites, Keeps, Readable
<1>2. TypeOK /\ [Next]_storeVars
        => [\A j \in Jobs : Readable(j) /\ disk[j].result # NoResult =>
              disk'[j] = Torn \/ disk'[j].result = disk[j].result]_storeVars
  BY <1>1
<1> QED
  BY <1>2, Typing, PTL DEF Spec, ResultIsFinal

\* Results are always among the declared ones, counted as declared, and never
\* beside a protocol error (skill_status.rs:96-182, 419-455).
THEOREM ResultsAreHonest == Spec => []NoForgedResult
<1>1. Init => NoForgedResult
  BY DEF Init, NoForgedResult, Readable
<1>2. ASSUME TypeOK, NoForgedResult, [Next]_storeVars PROVE NoForgedResult'
  <2> SUFFICES ASSUME NEW i \in Jobs, Readable(i)' PROVE Honest(disk'[i])
    BY DEF NoForgedResult, Honest, Vocabulary
  <2>1. disk[i] # NoRecord /\ disk[i] # Torn => Honest(disk[i])
    BY <1>2 DEF NoForgedResult, Readable
  <2> QED
    BY <1>2, <2>1, DiskStep DEF Rewrites, Keeps, Readable
<1> QED
  BY <1>1, <1>2, Typing, PTL DEF Spec

\* The strengthening under which the counting is inductive.  A ledger entry is
\* written from the record of the ingest that is under way: that record is the one
\* in the file, and if it has just been decided no partition knows its job yet.
Unbooked(j) == \A s \in Skills : \A e \in Entries(s) : e.job # j

FiniteAndCounted(part) ==
  /\ IsFiniteSet(part.entries)
  /\ part.count = Cardinality({e \in part.entries : e.result.success})

Counts == \A s \in Skills : ledger[s] # Torn => FiniteAndCounted(ledger[s])

OneEntry ==
  \A s, t \in Skills : \A e \in Entries(s), f \in Entries(t) : e.job = f.job => s = t /\ e = f

IngestInv ==
  ingest # NoIngest =>
    /\ disk[ingest.job] = ingest.rec
    /\ ingest.outcome = "Applied" => Unbooked(ingest.job)

BookInv == Counts /\ OneEntry /\ LedgerBacked /\ IngestInv

\* Rewriting a job file contradicts no ledger entry.
LEMMA RewriteKeepsLedger ==
  ASSUME TypeOK, LedgerBacked, NEW j \in Jobs, Rewrites(j), ledger' = ledger
  PROVE  LedgerBacked'
<1> SUFFICES ASSUME NEW s \in Skills, NEW e \in Entries(s)
             PROVE  /\ e.result.skill = s
                    /\ disk'[e.job] # Torn => Readable(e.job)' /\ disk'[e.job].result = e.result
  BY DEF LedgerBacked, Entries
<1>1. e \in Entry /\ e.job \in Jobs /\ e.result # NoResult
  BY NoRecordAssumption DEF Entries, TypeOK, Partition, Entry
<1>2. /\ e.result.skill = s
      /\ disk[e.job] # Torn => Readable(e.job) /\ disk[e.job].result = e.result
  BY DEF LedgerBacked
<1>3. CASE e.job # j
  BY <1>1, <1>2, <1>3 DEF Rewrites, Readable
<1>4. CASE e.job = j
  BY <1>1, <1>2, <1>4, FileAssumption DEF Rewrites, Keeps, Readable
<1> QED
  BY <1>3, <1>4

\* A decision is made where there was none: no partition knows the job.
LEMMA AppliedIsUnbooked ==
  ASSUME TypeOK, LedgerBacked, NEW u \in Update, disk[u.job] # Torn,
         ApplyUpdate(Loaded(u), u, known).outcome = "Applied"
  PROVE  Unbooked(u.job)
<1>1. Loaded(u) \in JobRecord /\ (Readable(u.job) => Loaded(u) = disk[u.job])
  BY LoadedSound
<1>2. Loaded(u).result = NoResult
  BY <1>1, ApplyUpdateSound DEF Sound
<1> SUFFICES ASSUME NEW s \in Skills, NEW e \in Entries(s), e.job = u.job PROVE FALSE
  BY DEF Unbooked
<1>3. e.result # NoResult
  BY NoRecordAssumption DEF Entries, TypeOK, Partition, Entry
<1> QED
  BY <1>1, <1>2, <1>3 DEF LedgerBacked

\* Adding the entry of a job that has none keeps count and set in step.
LEMMA RecordingCounts ==
  ASSUME NEW part \in Partition, FiniteAndCounted(part),
         NEW j \in Jobs, NEW res \in BusinessResult, \A e \in part.entries : e.job # j
  PROVE  /\ Recorded(part, j, res).entries = part.entries \cup {[job |-> j, result |-> res]}
         /\ FiniteAndCounted(Recorded(part, j, res))
<1> DEFINE n    == [job |-> j, result |-> res]
           new  == Recorded(part, j, res)
           wins == {e \in part.entries : e.result.success}
<1>1. /\ new.entries = part.entries \cup {n}
      /\ new.count = part.count + (IF res.success THEN 1 ELSE 0)
  BY DEF Recorded
<1>5. n.result = res /\ n \notin part.entries
  OBVIOUS
<1> HIDE DEF new, n
<1>2. IsFiniteSet(part.entries) /\ part.count = Cardinality(wins) /\ part.count \in Nat
  BY DEF FiniteAndCounted, Partition
<1>3. IsFiniteSet(new.entries)
  BY <1>1, <1>2, FS_AddElement
<1>4. IsFiniteSet(wins) /\ n \notin wins
  BY <1>2, <1>5, FS_Subset
<1>6. CASE res.success
  <2>1. {e \in new.entries : e.result.success} = wins \cup {n}
    BY <1>1, <1>5, <1>6
  <2>2. Cardinality(wins \cup {n}) = part.count + 1
    BY <1>2, <1>4, FS_AddElement
  <2> QED
    BY <1>1, <1>3, <1>6, <2>1, <2>2 DEF FiniteAndCounted, new, n
<1>7. CASE ~res.success
  <2>1. {e \in new.entries : e.result.success} = wins
    BY <1>1, <1>5, <1>7
  <2>2. new.count = part.count
    BY <1>1, <1>2, <1>7
  <2> QED
    BY <1>1, <1>2, <1>3, <2>1, <2>2 DEF FiniteAndCounted, new, n
<1> QED
  BY <1>6, <1>7

\* ledger::record as the last step of an ingest.
LEMMA RecordKeepsBook ==
  ASSUME TypeOK, BookInv, IngestRecord, ingest.outcome = "Applied"
  PROVE  BookInv'
<1>1. ingest # NoIngest /\ disk' = disk /\ ingest' = NoIngest
  BY DEF IngestRecord
<1>2. PICK j \in Jobs, res \in BusinessResult :
        ingest.job = j /\ ingest.rec.result = res /\ disk[j].result = res /\ Readable(j)
  <2>1. ingest.job \in Jobs /\ ingest.rec \in JobRecord /\ ingest.rec.result # NoResult
    BY <1>1 DEF TypeOK, Ingest
  <2>2. disk[ingest.job] = ingest.rec
    BY <1>1 DEF BookInv, IngestInv
  <2> QED
    BY <2>1, <2>2, FileAssumption DEF JobRecord, Readable
<1> DEFINE k == res.skill
           n == [job |-> j, result |-> res]
<1>k. k \in Skills
  BY DEF BusinessResult
<1>3. Unbooked(j)
  BY <1>1, <1>2 DEF BookInv, IngestInv
<1>4. ledger' = [ledger EXCEPT ![k] = Recorded(ledger[k], j, res)] /\ ledger[k] # Torn
  BY <1>2 DEF IngestRecord
<1>5. ledger[k] \in Partition /\ ledger[k].entries = Entries(k)
  BY <1>4, <1>k DEF TypeOK, Entries
<1> HIDE DEF k
<1> DEFINE new == Recorded(ledger[k], j, res)
<1>6. new.entries = Entries(k) \cup {n} /\ FiniteAndCounted(new) /\ new # Torn
  <2>1. FiniteAndCounted(ledger[k])
    BY <1>4, <1>k DEF BookInv, Counts
  <2>2. \A e \in ledger[k].entries : e.job # j
    BY <1>k, <1>3, <1>5 DEF Unbooked
  <2> QED
    BY <1>2, <1>5, <2>1, <2>2, RecordingCounts, RecordedSound, MarkerAssumption
<1> HIDE DEF new
<1>7. ledger'[k] = new
  BY <1>k, <1>4 DEF TypeOK, new
<1>8. \A s \in Skills : s # k => ledger'[s] = ledger[s] /\ Entries(s)' = Entries(s)
  BY <1>k, <1>4 DEF TypeOK, Entries
<1>9. Entries(k)' = Entries(k) \cup {n}
  BY <1>6, <1>7 DEF Entries
<1>10. Counts'
  <2> SUFFICES ASSUME NEW s \in Skills, ledger'[s] # Torn PROVE FiniteAndCounted(ledger'[s])
    BY DEF Counts, FiniteAndCounted
  <2> QED
    BY <1>6, <1>7, <1>8 DEF BookInv, Counts
<1>11. OneEntry'
  <2>1. n.job = j
    OBVIOUS
  <2> HIDE DEF n
  <2> QED
    BY <1>k, <1>3, <1>8, <1>9, <2>1 DEF BookInv, OneEntry, Unbooked
<1>12. LedgerBacked'
  <2> SUFFICES ASSUME NEW s \in Skills, NEW e \in Entries(s)'
               PROVE  /\ e.result.skill = s
                      /\ disk[e.job] # Torn => Readable(e.job) /\ disk[e.job].result = e.result
    BY <1>1 DEF LedgerBacked, Readable
  <2>1. CASE e \in Entries(s)
    BY <2>1 DEF BookInv, LedgerBacked
  <2>2. CASE e \notin Entries(s)
    BY <1>2, <1>k, <1>8, <1>9, <2>2 DEF k
  <2> QED
    BY <2>1, <2>2
<1> QED
  BY <1>1, <1>10, <1>11, <1>12 DEF BookInv, IngestInv

\* Every step keeps the counting invariant.
LEMMA BookStep ==
  ASSUME TypeOK, BookInv, [Next]_storeVars
  PROVE  BookInv'
<1>1. ASSUME ledger' = ledger PROVE Counts' /\ OneEntry' /\ LedgerBacked'
  <2>1. Counts' /\ OneEntry'
    BY <1>1 DEF BookInv, Counts, OneEntry, Entries, FiniteAndCounted
  <2>2. LedgerBacked'
    <3>1. CASE disk' = disk
      BY <1>1, <3>1 DEF BookInv, LedgerBacked, Entries, Readable
    <3>2. CASE \E j \in Jobs : Rewrites(j)
      BY <1>1, <3>2, RewriteKeepsLedger DEF BookInv
    <3> QED
      BY <3>1, <3>2, DiskStep
  <2> QED
    BY <2>1, <2>2
<1>2. CASE ledger' = ledger /\ ingest' = NoIngest
  BY <1>1, <1>2 DEF BookInv, IngestInv
<1>3. CASE UNCHANGED <<disk, ledger, ingest>>
  BY <1>1, <1>3 DEF BookInv, IngestInv, Unbooked, Entries
<1>4. ASSUME NEW j \in Jobs, NEW c \in Clients, NEW u \in ClientUpdates(j, c), IngestSave(u)
      PROVE  BookInv'
  <2>1. u \in Update /\ u.job = j
    BY ClientUpdatesTyped
  <2> DEFINE res == ApplyUpdate(Loaded(u), u, known)
  <2>2. /\ disk' = [disk EXCEPT ![j] = res.rec] /\ ledger' = ledger /\ disk[j] # Torn
        /\ ingest' = [job |-> j, rec |-> res.rec,
                      outcome |-> IF res.outcome = "Applied" THEN "Applied" ELSE "Other"]
    BY <1>4, <2>1 DEF IngestSave
  <2>3. res.outcome = "Applied" => Unbooked(j)
    BY <2>1, <2>2, AppliedIsUnbooked DEF BookInv
  <2> HIDE DEF res
  <2>4. Unbooked(j) => Unbooked(j)'
    BY <2>2 DEF Unbooked, Entries
  <2>5. IngestInv'
    <3>1. /\ ingest'.job = j /\ disk'[j] = ingest'.rec
          /\ ingest'.outcome = "Applied" => Unbooked(j)'
      BY <2>2, <2>3, <2>4 DEF TypeOK
    <3> QED
      BY <3>1 DEF IngestInv, Unbooked, Entries
  <2> QED
    BY <1>1, <2>2, <2>5 DEF BookInv
<1>5. CASE CrashInRecord
  <2>1. \A s \in Skills : \/ ledger'[s] = Torn /\ Entries(s)' = {}
                          \/ ledger'[s] = ledger[s] /\ Entries(s)' = Entries(s)
    BY <1>5 DEF CrashInRecord, Entries, TypeOK
  <2>2. disk' = disk /\ ingest' = NoIngest
    BY <1>5 DEF CrashInRecord, Stop
  <2>3. Counts'
    BY <2>1 DEF BookInv, Counts, FiniteAndCounted
  <2>4. OneEntry'
    BY <2>1 DEF BookInv, OneEntry
  <2>5. LedgerBacked'
    BY <2>1, <2>2 DEF BookInv, LedgerBacked, Readable
  <2> QED
    BY <2>2, <2>3, <2>4, <2>5 DEF BookInv, IngestInv
<1>6. CASE IngestRecord
  BY <1>2, <1>6, RecordKeepsBook DEF IngestRecord
<1>7. CASE RecordFails \/ Crash
  BY <1>2, <1>7 DEF RecordFails, Crash, Stop
<1>8. CASE Restart \/ (\E d \in Digests : Repack(d)) \/ UNCHANGED storeVars
  BY <1>3, <1>8 DEF Restart, Repack, storeVars
<1>9. ASSUME NEW j \in Jobs, NEW c \in Clients, NEW p \in Profiles, NEW d \in Digests,
             Bind(j, c, p, d) \/ CrashInBind(j, c, p, d)
      PROVE  BookInv'
  BY <1>2, <1>9 DEF Bind, CrashInBind, Free, Stop
<1>10. ASSUME NEW j \in Jobs, NEW c \in Clients, Cancel(j, c) PROVE BookInv'
  BY <1>2, <1>10 DEF Cancel, Free
<1>11. ASSUME NEW j \in Jobs, CrashInSave(j) PROVE BookInv'
  BY <1>2, <1>11 DEF CrashInSave, Free, Stop
<1> QED
  BY <1>4, <1>5, <1>6, <1>7, <1>8, <1>9, <1>10, <1>11 DEF Next

\* The counting invariant holds in every reachable state.
LEMMA BookInvariant == Spec => []BookInv
<1>1. Init => BookInv
  <2> SUFFICES ASSUME Init PROVE BookInv
    OBVIOUS
  <2>1. \A s \in Skills : ledger[s] = [count |-> 0, entries |-> {}]
    BY DEF Init
  <2>2. Counts
    BY <2>1, FS_EmptySet DEF Counts, FiniteAndCounted
  <2>3. \A s \in Skills : Entries(s) = {}
    BY <2>1 DEF Entries
  <2> QED
    BY <2>2, <2>3 DEF Init, BookInv, OneEntry, LedgerBacked, IngestInv
<1> QED
  BY <1>1, BookStep, Typing, PTL DEF Spec

\* "at most once per job" (README.md:120): every partition counts its successes,
\* and a job has one entry in all of them, whatever crashed on the way.
THEOREM CountingIsExact == Spec => []CountedAtMostOnce
<1>1. BookInv => CountedAtMostOnce
  BY DEF BookInv, Counts, OneEntry, CountedAtMostOnce, FiniteAndCounted, Entries
<1> QED
  BY <1>1, BookInvariant, PTL

\* The ledger repeats what the job files say (skill_status.rs:265-282).
THEOREM LedgerAgreesWithJobs == Spec => []LedgerBacked
<1>1. BookInv => LedgerBacked
  BY DEF BookInv
<1> QED
  BY <1>1, BookInvariant, PTL

\* A store step is a step of the abstract log or leaves it alone.
LEMMA LogStep ==
  ASSUME TypeOK, BookInv, TypeOK', [Next]_storeVars
  PROVE  [Log!LogNext]_(Log!logVars)
<1> DEFINE V == [j \in Jobs |-> VerdictOf(j)]
           B == [s \in Skills |-> BookOf(s)]
<1>1. CASE disk' = disk /\ ledger' = ledger
  BY <1>1 DEF Log!logVars, VerdictOf, BookOf
<1>2. ASSUME NEW j \in Jobs, Rewrites(j), ledger' = ledger
      PROVE  [Log!LogNext]_(Log!logVars)
  <2>1. B' = B
    BY <1>2 DEF BookOf
  <2>2. V' = [V EXCEPT ![j] = VerdictOf(j)']
    BY <1>2 DEF Rewrites, VerdictOf
  <2>3. CASE disk'[j] = Torn
    <3>1. VerdictOf(j)' = Torn
      BY <2>3 DEF VerdictOf
    <3> QED
      BY <2>1, <2>2, <3>1 DEF Log!LogNext, Log!LoseVerdict
  <2>4. CASE disk'[j] # Torn
    <3>1. disk[j] # Torn /\ disk'[j] \in JobRecord /\ Keeps(disk[j], disk'[j])
      BY <1>2, <2>4 DEF Rewrites
    <3>2. VerdictOf(j)' = disk'[j].result
      BY <3>1, <2>4, FileAssumption DEF VerdictOf
    <3>3. disk'[j].result \in BusinessResult \cup {NoResult}
      BY <3>1 DEF JobRecord
    <3>4. CASE VerdictOf(j) = NoResult /\ disk'[j].result # NoResult
      <4>1. PICK r \in BusinessResult : VerdictOf(j)' = r
        BY <3>2, <3>3, <3>4
      <4>2. Log!Decide(j, r)
        BY <2>1, <2>2, <3>4, <4>1 DEF Log!Decide
      <4> QED
        BY <4>1, <4>2 DEF Log!LogNext
    <3>5. CASE VerdictOf(j)' = VerdictOf(j)
      <4>1. V' = V
        BY <2>2, <3>5
      <4> QED
        BY <2>1, <4>1 DEF Log!logVars
    <3> QED
      BY <3>1, <3>2, <3>4, <3>5 DEF VerdictOf, Keeps
  <2> QED
    BY <2>3, <2>4
<1>3. CASE CrashInRecord
  <2>1. PICK k : k = ingest.rec.result.skill /\ ledger[k] # Torn
                 /\ ledger' = [ledger EXCEPT ![k] = Torn] /\ disk' = disk
    BY <1>3 DEF CrashInRecord
  <2>2. CASE k \in Skills
    <3>1. V' = V /\ B' = [B EXCEPT ![k] = Torn]
      BY <2>1, <2>2 DEF VerdictOf, BookOf, TypeOK
    <3> QED
      BY <2>2, <3>1 DEF Log!LogNext, Log!LoseBook
  <2>3. CASE k \notin Skills
    BY <1>1, <2>1, <2>3 DEF TypeOK
  <2> QED
    BY <2>2, <2>3
<1>4. CASE IngestRecord /\ ingest.outcome = "Applied"
  <2>1. disk' = disk /\ ingest # NoIngest
    BY <1>4 DEF IngestRecord
  <2>2. PICK j \in Jobs, res \in BusinessResult :
          ingest.job = j /\ ingest.rec.result = res /\ VerdictOf(j) = res
    <3>1. ingest.job \in Jobs /\ ingest.rec \in JobRecord /\ ingest.rec.result # NoResult
      BY <1>4, <2>1 DEF TypeOK, Ingest
    <3>2. disk[ingest.job] = ingest.rec
      BY <2>1 DEF BookInv, IngestInv
    <3> QED
      BY <3>1, <3>2, FileAssumption DEF JobRecord, VerdictOf
  <2> DEFINE k == res.skill
  <2>3. k \in Skills /\ res.success \in BOOLEAN
    BY DEF BusinessResult
  <2>4. ledger[k] # Torn /\ ledger' = [ledger EXCEPT ![k] = Recorded(ledger[k], j, res)]
    BY <1>4, <2>2 DEF IngestRecord
  <2>5. ledger[k] \in Partition /\ Unbooked(j)
    BY <1>4, <2>1, <2>2, <2>3, <2>4 DEF TypeOK, BookInv, IngestInv
  <2> HIDE DEF k
  <2>6. \A e \in ledger[k].entries : e.job # j
    BY <2>3, <2>4, <2>5 DEF Unbooked, Entries
  <2>7. Recorded(ledger[k], j, res).entries = ledger[k].entries \cup {[job |-> j, result |-> res]}
    BY <2>6 DEF Recorded
  <2>8. ledger'[k] = Recorded(ledger[k], j, res) /\ ledger'[k] # Torn
    BY <2>3, <2>4, <2>5, RecordedSound, MarkerAssumption DEF TypeOK
  <2>9. BookOf(k)' = BookOf(k) \cup (IF res.success THEN {j} ELSE {})
    <3> DEFINE n    == [job |-> j, result |-> res]
               wins == {e \in ledger[k].entries : e.result.success}
    <3>1. n.job = j /\ n.result = res
      OBVIOUS
    <3> HIDE DEF n
    <3>2. ledger'[k].entries = ledger[k].entries \cup {n}
      BY <2>7, <2>8 DEF n
    <3>3. {e \in ledger'[k].entries : e.result.success} = wins \cup (IF res.success THEN {n} ELSE {})
      BY <3>1, <3>2
    <3>4. BookOf(k)' = {e.job : e \in wins \cup (IF res.success THEN {n} ELSE {})}
      BY <2>8, <3>3 DEF BookOf
    <3>5. BookOf(k) = {e.job : e \in wins}
      BY <2>4 DEF BookOf
    <3> QED
      BY <3>1, <3>4, <3>5
  <2>10. B' = [B EXCEPT ![k] = BookOf(k)'] /\ V' = V
    BY <2>1, <2>3, <2>4 DEF BookOf, VerdictOf, TypeOK
  <2>11. CASE res.success
    <3>1. BookOf(k) # Torn
      BY <2>4, <2>5, MarkerAssumption DEF BookOf, Partition, Entry
    <3>2. \A s \in Skills : BookOf(s) # Torn => j \notin BookOf(s)
      BY <2>5 DEF Unbooked, BookOf, Entries
    <3>3. Log!Count(j)
      BY <2>2, <2>3, <2>9, <2>10, <2>11, <3>1, <3>2 DEF Log!Count, k
    <3> QED
      BY <3>3 DEF Log!LogNext
  <2>12. CASE ~res.success
    <3>1. B' = B
      BY <2>9, <2>10, <2>12
    <3> QED
      BY <2>10, <3>1 DEF Log!logVars
  <2> QED
    BY <2>3, <2>11, <2>12
<1>5. ASSUME ledger' = ledger PROVE [Log!LogNext]_(Log!logVars)
  BY <1>1, <1>2, <1>5, DiskStep
<1>6. CASE IngestRecord /\ ingest.outcome # "Applied"
  BY <1>5, <1>6 DEF IngestRecord
<1> QED
  BY <1>3, <1>4, <1>5, <1>6 DEF Next, Bind, CrashInBind, Cancel, IngestSave, RecordFails, Repack,
     Crash, Restart, CrashInSave, storeVars

\* The store implements the abstract log: verdicts are given once and never
\* replaced, and a success is booked at most once, after its verdict.
THEOREM StoreImplementsLog == Spec => ImplementsLog
<1>1. Init => Log!LogInit
  <2>1. [count |-> 0, entries |-> {}] # Torn
    BY MarkerAssumption DEF Partition
  <2> QED
    BY <2>1, FileAssumption DEF Init, Log!LogInit, VerdictOf, BookOf
<1>2. TypeOK /\ BookInv /\ TypeOK' /\ [Next]_storeVars => [Log!LogNext]_(Log!logVars)
  BY LogStep
<1> QED
  BY <1>1, <1>2, Typing, BookInvariant, PTL DEF Spec, ImplementsLog, Log!LogSpec

-----------------------------------------------------------------------------
\* The index never says more than the files: a job that has ended in memory has
\* ended on disk, and so has the record that is about to replace it.
EndInv ==
  /\ up => \A j \in Jobs : Ended(mem[j]) => disk[j] = Torn \/ Ended(disk[j])
  /\ ingest # NoIngest =>
       /\ up /\ disk[ingest.job] = ingest.rec
       /\ Ended(mem[ingest.job]) => Ended(ingest.rec)

\* What FinishedStaysFinished says of one job.
StaysEnded(j) ==
  /\ Ended(disk[j]) /\ ~Missed(j) => disk'[j] = Torn \/ Ended(disk'[j])
  /\ up /\ up' /\ Ended(mem[j]) => Ended(mem'[j])
  /\ Missed(j)' => Missed(j) \/ RecordFails

\* One step, for the invariant and for the property.
LEMMA EndStep ==
  ASSUME TypeOK, EndInv, [Next]_storeVars
  PROVE  EndInv' /\ \A j \in Jobs : StaysEnded(j)
<1> DEFINE Goal == EndInv' /\ \A j \in Jobs : StaysEnded(j)
<1> USE DEF TypeOK, EndInv, StaysEnded
<1>0. \A j \in Jobs : mem[j] # Torn
  BY FileAssumption
<1>1. ASSUME NEW j \in Jobs, NEW c \in Clients, NEW p \in Profiles, NEW d \in Digests, Bind(j, c, p, d)
      PROVE  Goal
  <2>1. PICK rec : disk' = [disk EXCEPT ![j] = rec] /\ mem' = [mem EXCEPT ![j] = rec]
    BY <1>1 DEF Bind
  <2>2. ~Ended(mem[j]) /\ UNCHANGED ingest /\ ingest = NoIngest /\ UNCHANGED up /\ up
    BY <1>0, <1>1 DEF Bind, MayBind, Active, Ended, Free
  <2>3. EndInv'
    BY <2>1, <2>2
  <2>4. \A k \in Jobs \ {j} : StaysEnded(k)
    BY <2>1, <2>2 DEF Missed
  <2>5. StaysEnded(j)
    BY <2>1, <2>2 DEF Missed
  <2> QED
    BY <2>3, <2>4, <2>5
<1>2. ASSUME NEW j \in Jobs, NEW c \in Clients, Cancel(j, c) PROVE Goal
  <2>1. ~Ended(mem[j]) /\ ingest = NoIngest /\ UNCHANGED <<ingest, up>> /\ up
    BY <1>2 DEF Cancel, Ended, Free
  <2>2. \A k \in Jobs \ {j} : mem'[k] = mem[k] /\ disk'[k] = disk[k]
    BY <1>2 DEF Cancel
  <2>3. ~Ended(mem'[j])
    <3>1. CASE mem[j] = NoRecord
      BY <1>2, <3>1 DEF Cancel, Ended
    <3>2. CASE mem[j] # NoRecord
      <4>1. mem'[j] = [mem[j] EXCEPT !.state = "cancelling"] /\ mem[j] \in JobRecord
        BY <1>2, <3>2 DEF Cancel
      <4> QED
        BY <4>1 DEF Ended, JobRecord, Terminal
    <3> QED
      BY <3>1, <3>2
  <2>4. ~Ended(disk'[j])
    <3>1. CASE disk[j] = Torn
      BY <1>2, <3>1 DEF Cancel, Ended
    <3>2. CASE disk[j] # Torn
      <4>1. disk'[j] = Upsert(disk[j], c, NoSkill, NoProfile, "cancelling")
        BY <1>2, <3>2 DEF Cancel
      <4>2. disk'[j].state = "cancelling"
        <5>1. CASE disk[j] = NoRecord
          BY <4>1, <5>1 DEF Upsert, NewRecord
        <5>2. CASE disk[j] # NoRecord
          <6>1. disk[j] \in JobRecord
            BY <3>2, <5>2
          <6> QED
            BY <4>1, <5>2, <6>1 DEF Upsert, JobRecord
        <5> QED
          BY <5>1, <5>2
      <4> QED
        BY <4>2 DEF Ended, Terminal
    <3> QED
      BY <3>1, <3>2
  <2> QED
    BY <2>1, <2>2, <2>3, <2>4 DEF Missed
<1>3. ASSUME NEW j \in Jobs, NEW c \in Clients, NEW u \in ClientUpdates(j, c), IngestSave(u)
      PROVE  Goal
  <2> DEFINE rec == ApplyUpdate(Loaded(u), u, known).rec
  <2>1. u \in Update /\ u.job \in Jobs
    BY ClientUpdatesTyped DEF Update
  <2>2. Loaded(u) \in JobRecord /\ disk[u.job] # Torn
    BY <1>3, <2>1, LoadedSound DEF IngestSave
  <2>3. Follows(Loaded(u), rec, Delivers(u.data)) 
    BY <2>1, <2>2, ApplyUpdateFollows
  <2>4. Ended(disk[u.job]) => Ended(rec)
    <3>1. Ended(disk[u.job]) => Loaded(u) = disk[u.job]
      BY DEF Ended, Loaded
    <3> QED
      BY <2>3, <3>1, NoRecordAssumption, FileAssumption DEF Follows, Ended
  <2>5. /\ disk' = [disk EXCEPT ![u.job] = rec] /\ UNCHANGED <<mem, up>>
        /\ ingest'.job = u.job /\ ingest'.rec = rec /\ up
        /\ ingest = NoIngest /\ ingest' # NoIngest
    <3>1. Sound(Loaded(u), ApplyUpdate(Loaded(u), u, known))
      BY <2>1, <2>2, ApplyUpdateSound
    <3>2. ingest' \in Ingest
      BY <1>3, <2>1, <3>1, NoRecordAssumption DEF IngestSave, Ingest, Sound
    <3>3. ingest' # NoIngest
      BY <3>2, MarkerAssumption
    <3>4. ingest'.job = u.job /\ ingest'.rec = rec
      BY <1>3 DEF IngestSave
    <3> QED
      BY <1>3, <3>3, <3>4 DEF IngestSave, Free
  <2> HIDE DEF rec
  <2>6. EndInv'
    BY <2>1, <2>2, <2>4, <2>5
  <2>7. ASSUME NEW k \in Jobs PROVE StaysEnded(k)
    BY <2>1, <2>4, <2>5 DEF Missed
  <2> QED
    BY <2>6, <2>7
<1>4. CASE IngestRecord
  <2>1. ingest.job \in Jobs /\ mem' = [mem EXCEPT ![ingest.job] = ingest.rec]
        /\ ingest # NoIngest /\ ingest' = NoIngest /\ UNCHANGED <<disk, up>>
    BY <1>4 DEF IngestRecord, Ingest
  <2>2. disk[ingest.job] = ingest.rec /\ mem'[ingest.job] = disk'[ingest.job]
    BY <2>1
  <2> QED
    BY <2>1, <2>2 DEF Missed
<1>5. CASE RecordFails \/ \E d \in Digests : Repack(d)
  BY <1>5 DEF RecordFails, Repack, Missed
<1>6. CASE Crash \/ CrashInRecord \/ \E j \in Jobs : CrashInSave(j)
  BY <1>6 DEF Crash, CrashInRecord, CrashInSave, Stop, Missed
<1>7. ASSUME NEW j \in Jobs, NEW c \in Clients, NEW p \in Profiles, NEW d \in Digests,
             CrashInBind(j, c, p, d)
      PROVE  Goal
  <2>1. up /\ ingest = NoIngest /\ ~Ended(mem[j]) /\ up' = FALSE /\ ingest' = NoIngest
    BY <1>0, <1>7 DEF CrashInBind, Stop, Free, MayBind, Active, Ended
  <2>2. \A k \in Jobs \ {j} : disk'[k] = disk[k]
    BY <1>7 DEF CrashInBind
  <2> QED
    BY <2>1, <2>2 DEF Missed
<1>8. CASE Restart
  <2>1. ~up /\ UNCHANGED <<disk, ingest>>
    BY <1>8 DEF Restart
  <2>2. \A j \in Jobs : mem'[j] = IF disk[j] = Torn THEN NoRecord ELSE disk[j]
    BY <1>8 DEF Restart
  <2> QED
    BY <2>1, <2>2 DEF Ended, Missed
<1>9. CASE UNCHANGED storeVars
  BY <1>9 DEF storeVars, Missed
<1> QED
  BY <1>1, <1>2, <1>3, <1>4, <1>5, <1>6, <1>7, <1>8, <1>9 DEF Next

\* A finished job is not reopened, on file or in the index, by a late report, a
\* cancel, a second submit of its id or a restart, unless the index has missed
\* its end, which only a failed ledger write brings about.
THEOREM FinishedIsFinished == Spec => FinishedStaysFinished
<1>1. Init => EndInv
  BY DEF Init, EndInv, Ended
<1>2. TypeOK /\ EndInv /\ [Next]_storeVars => EndInv'
  BY EndStep
<1>3. TypeOK /\ EndInv /\ [Next]_storeVars =>
        [\A j \in Jobs :
           /\ Ended(disk[j]) /\ ~Missed(j) => disk'[j] = Torn \/ Ended(disk'[j])
           /\ up /\ up' /\ Ended(mem[j]) => Ended(mem'[j])
           /\ Missed(j)' => Missed(j) \/ RecordFails]_storeVars
  BY EndStep DEF StaysEnded
<1> QED
  BY <1>1, <1>2, <1>3, Typing, PTL DEF Spec, FinishedStaysFinished
=============================================================================
