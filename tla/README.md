# TLA+ development of cloakCLI

cloakCLI runs browser jobs on a fleet of machines and lets a person teach a job
by driving a browser together with a model. This directory holds a TLA+ model of
the parts of it that are concurrent, distributed or crash-prone, the TLC
configurations that check the model, and TLAPS proofs of its main invariants.
Paths are relative to the repository; `master_hub.rs:1094` means line 1094 of
`src/master_hub.rs`. `PROJECT.json` lists, for every definition, the lines it
stands for, and for every hazard, the line where it bites.

## 1. The system

### Components

| component | code | state | operations | module |
|---|---|---|---|---|
| profile lock | `locks.rs` | a directory `<profile>.lock` with a pid file | acquire, stale check and removal, drop | `ProfileLock` |
| skill status protocol | `skill_status.rs` | a job record: state, validated result, protocol error | what a client's update does to the record | `SkillStatus` |
| job store, ledger | `jobs.rs`, `ledger.rs` | `data/jobs/<id>.json`, ledger partition per skill, hub index | upsert, ingest, finalize, load at start | `ResultStore` |
| master hub, jobs | `master_hub.rs`, `ops.rs`, `protocol.rs` | job index, sender per client, online flags | submit, cancel, ingest, disconnect | `FleetJobs` |
| client daemon, jobs | `client_daemon.rs` | session, cancel flags, its own job files | receive, handle_job, job_cancel, reconnect | `FleetJobs` |
| job runners | `skill_pkg.rs`, `worker.rs` | a child process, its pipes | start, wait, cancel, timeout, kill | `RunnerPipes`; from outside in `FleetJobs` |
| skill packages and releases | `skill_pkg.rs` | skill directory, catalog, package files | pack, publish, resolve, send | `SkillPackage`, `SkillReleases` |
| skill and config sync | hub, client, `skill_pkg.rs` | sessions, desired and observed revision, install cache and index, one slot for an acknowledgement | hello, heartbeat, config_update, skill_sync, acknowledge, reap | `SkillSync` |
| retry, park and batch | `master_hub.rs`, `ops.rs` | cooldown table, dispositions file, dispatch interval | retry, park, submit a batch | `FleetRetry`, `FleetPark` |
| worker daemon | `worker.rs` | pid file and socket of a browser worker | ensure, start, status, request, stop | `WorkerDaemon` |
| teach hub, requests | `teach_hub.rs`, `teach_protocol.rs` | timeline, waiters, takeover state, export | route actions and results, takeover, normalize, confirm, replay | `TeachHub` |
| teach hub, connections | `teach_hub.rs` | pairing slots, generations, senders, buffers | accept, register, reply, hear, end; cut lines and frames | `TeachPairing`, `TeachFrames` |
| teach chat | `tui/chat.rs` | phase, recording, pending confirmation | send, take over, resume, confirm, cancel | `TeachHub` |
| teach turn | `teach_events.rs`, `teach_chat.rs` | busy and cancel flags, phase, waiter, snapshot, what was shown | plan, dispatch, cancel, stop, start, stream | `TeachPlan`, `TeachTurn`, `TeachStream` |
| teach worker | `python/cloakcli_worker/teach_hub.py`, `teach.py` | pause, takeover and cancel flags, action queue | receive, execute, normalize, reconnect | `TeachHub` |
| teach session | `teach.rs` | lock, hub, staged extension, browser, counters of help | start, serve, end on every path | `TeachSession` |
| recording, draft, optimization | `teach.rs`, `skills.rs`, `teach_optimize.rs` | none: functions | denoise, coalesce, map; prepare and check a draft; apply a patch | `TeachRecord`, `TeachDraft`, `TeachOptimize` |
| skill directories | `skills.rs` | `skills/<name>`, staging, backups | export, import, list | `SkillExport` |
| profiles and cookies | `profiles.rs`, `cookies.rs` | metadata in two layouts, `cookie.json` | create, update, delete, migrate, import, clear, open, count | `ProfileStore`, `CookieFile` |
| model choice and list | `llm.rs`, `llm_client.rs`, `tui/mod.rs` | `llm.json`, cached list, picker | set, configure, fetch, page, pick, save | `ModelChoice`, `ModelList`, `ModelUrl` |
| console | `tui/mod.rs` | rows, selection, one pending task | draw, take a result, refresh, close | `TuiConsole` |
| desktop, teach and history | `desktop/.../teach.rs`, `runs.rs`, `teach_event.rs` | session slot, reader threads, history file | start, read, stop, ask, record | `DesktopTeach` |
| desktop, terminal | `desktop/.../pty.rs` | session slot, process group, pids ever seen | start, watch, end | `DesktopPty` |
| desktop, fleet page | `desktop/.../fleet.rs`, `catalog.rs` | keys in flight | resolve, submit, retry, park | `FleetClicks`, `FleetPark` |
| desktop, catalog | `desktop/.../catalog.rs` | none | its own reading of profiles and cookies | in `ProfileStore`, `CookieFile` |
| teach extension | `extensions/teach/*.js` | session token, recording flag | pair, come back, send events | a client of `TeachPairing`; its recording is the input of `TeachRecord` |
| recover loop | `python/.../recover/loop.py` | budget, rounds, cancel | observe, plan, act, stop | not modelled |
| python worker | `runner.py`, `actions.py`, ... | a page | drive a page | only its cancel and pause checks, in `TeachHub` |
| command line, TUI drawing, site skills | rest | arguments, layout | parsing, printing | not modelled |

### How they interact

A job enters at the hub. `submit_job` checks under a read lock that the job may
run and that its profile is free, awaits, records the job under the write lock
and sends `job_submit` to the client over the TCP connection the client dialled.
The daemon starts a task (`handle_job`) per submit: it looks at its own job file,
registers a cancel flag, announces `running`, takes the profile lock, runs a
child process, stores the end in its own file and writes a final `job_update`.
The hub ingests the update under its write lock: the status protocol decides
what it does to the record, the record is saved, a success enters the ledger and
the index is replaced. Everything shares files, and any process may die.

A teach session is a star around the teach hub. The chat calls the hub as a
library; worker and extension dial it. Every connection has a task of its own
under one lock. The worker has a thread that receives and a thread that owns the
page, which share flags and a queue. A worker that reconnects is sent the stored
timeline again. The desktop is a third way in: it starts `cloakcli teach chat
--events` as a child and reads its lines, runs `cloakcli tui` in a
pseudo-terminal, and reads the catalog, the profiles and the dispositions from
the files the others write.

Releases travel from an author's directory through the catalog to the cache of
a client, over the connection the jobs use. What a human does in a recording,
and what the model does in a chat, becomes a skill through a chain of
conversions that ends in an export of the skill's directory.

### What is hard here

* Two critical sections with an await between them (submit, retry, dispatch
  interval), and one flag for several uses (the worker's cancel flag, the
  session's cancel map).
* Files as shared state: mkdir as a lock, `fs::write` that may be torn, a job
  file and a ledger that are written one after the other.
* A message that is late, lost or repeated: final updates, cancels,
  acknowledgements, normalize results, the replay to a worker.
* Timeouts that race with the answer, and a caller that gives up while its call
  goes on.
* Readers that outlive what they read for: an old connection's task, the thread
  of an ended child, a fetch for a base that has been changed.
* Two programs with their own rules for one file: desktop and command line.
* Processes that must not stay behind: runners, workers, browsers.
* Conversions that have to lose something, secrets, and nothing else.

### What makes each part correct

* Lock: two owners are never inside together; the lock of a live owner is not
  taken away; a dead owner's lock is reclaimed; whoever waits is answered.
* Store: a result is only ever one the package declares, is set once, survives
  cancels and repetitions, and is counted in the ledger exactly when it is a
  success, once.
* Fleet jobs: one unfinished job per profile; what the master shows was really
  executed; a finished job stays finished; a cancelled one stops; a dispatched
  one ends.
* Teach session: an answer belongs to its question; the agent keeps off the page
  while the human has it; what the human did is exported once and executed never;
  whoever waits is answered; what is cancelled in time stays cancelled; a client
  that comes back is the newest and is heard once.
* Packages: what is published can be sent and installs; an acknowledged digest is
  installed; a published version changes by way of a draft only; an export
  leaves the old skill or the new one.
* Operator: retries and dispatches keep their distances, a click submits what was
  confirmed, a park stays.
* Processes: what ends leaves none behind, and nobody waits for one in vain.
* Conversions: the skill does what was recorded, without its secrets.

## 2. Modules

`SkillStatus` is a library of operators on job records; `ResultStore` and
`FleetJobs` both extend it, so both run the same translation of
`ingest_client_update`, `apply_update`, `finalize_result` and
`finalize_cancel`. The first puts it on a disk that fails, the second in a network that fails.
`ResultLog` is the abstract specification `ResultStore` implements. `MC*` modules
give constants. `*Proofs` modules hold theorems.

Definitions that start with `Mutant` are plausible bugs of the definition that
follows them. They are not reachable from any specification; `PROJECT.json` names
the property that finds each of them when it takes the place of the correct one,
which shows that the property depends on the code.

### ProfileLock

`dir` and `pid` are the lock directory and its pid file, `alive` is
`/proc/<pid>`, `pc` where each call of `acquire` is. One file-system call is one
action: `CreateDir`, `WritePid`, the verdict (`FoundStale`, `FoundLive`),
`Unlink` and `Rmdir` of `remove_dir_all`, the same two in `Drop`. `Wake`
is the 200 ms sleep; `Deadline` the timeout, which the code looks at only after a
live verdict. `Crash` ends a process at any point. A pid is not reused.

### SkillStatus

`Report`, `BusinessResult`, `JobRecord` and `Update` keep the fields that decide
something; labels, texts and times are left out. A report is its paused
flag, the identity it states (a digest, or none) and a status. `Adapts` is
`adapt_*_report` as the master applies it, `Vocabulary`, `Required` and `Succeeds`
are what a package declares. `ApplyUpdate` is the whole of `ingest_client_update`
on a record: stamp of the client, progress states, paused and failed ends,
protocol failures, cancels and results. Its result carries the outcome
(`Applied` or not) on which the ledger write depends.

### ResultStore and ResultLog

`disk`, `mem`, `ledger` and `known` are the job files, the hub's index, the ledger
partitions and the digests with a release record; `ingest` is a report whose job
file is saved and whose ledger entry is not. Handlers run under the write lock
and do not interleave, so each is one or two actions, and the actions in between
are crashes (`CrashIn...`, which leave a torn file) and failures (a ledger write
that fails leaves the index as it was). A restart reads what parses. Clients may send any
update their code can produce, in any order, any number of times:
`ClientUpdates` enumerates them. The read phases of `submit_job` are left to
`FleetJobs`. A draft that is packed over a published version removes its release
(`DraftOver`).

`ResultLog` has two variables. `verdict` is the first validated result of a job,
`book` the jobs whose success a skill's ledger counts. A verdict is given once
and never replaced; a success is counted once, after it was given; either may be
lost with its file. The refinement maps a readable file to its result and a torn
one to `Lost`.

### FleetJobs

Hub: `jobs`, `handle` (the registered sender of each client), `online`, `conn`
(connections whose handler still reads) and the phase of each `submit_job`.
Network: `down` and `wire`, FIFO per connection, cut at any time (`Cut`).
Clients: current session, own job files, the `cancels` map of the session, and for
each task its `pc`, session, cancel flag and end. `SubmitCheck`, `SubmitRecord` and
`SubmitDispatch` are the three critical sections of `submit_job`; its three read
phases are taken as one check. `Load`, `Register`, `Announce`, `Start`, `TakeLock`,
`Spawn`, `RunEnds`, `RunKilled`, `Unregister`, `Store`, `SendFinal` are the awaits of
`handle_job` in order. `HubRestart` and `ClientDies` lose memory, and keep files.

Abstractions: hello and hello_ok are one step; a cancel is addressed to the client the job
was dispatched to, and the hub's write and send of it are one step; the
fallback for a failing `set_binding` is left out; the profile lock is exclusive
here (section 5 says what that is worth); the job file is not torn here.

### TeachHub

Hub: `paused` (executor_paused), `takeover`, `tid`, `buffer` (takeover_events),
`pending` (pending_normalize), `waiters`, `normWaiters`, `exported` (how often each
step is in export_steps), `timeline` (the stored events a worker acts on),
`outbound` (the registered connection). Worker: `wpaused`, `wactive`, `wcancel`, `queue`,
`run` (the batch in the page thread, with the value of executor_paused it was
started with). Chat: what its one task awaits, `recording`, `held` (the phase
HumanTakeover), `confirm` (a question to the human is open), and `reply`, the
oneshot channel it listens to.

Chat actions are keys and the calls they make: `Send`, `Answered`, `Timeout`,
`Cancelled` (dispatch and its three ends), `StartTakeover`, `StopTakeover`,
`NormalizeShown`, `NormalizeTimeout`, `ResumeAgent`, `Confirm`, `CancelKey`. The hub's
handlers are `HubResult`, `HubNormalized`, `HubEvent`. The worker's receive thread is
`Receive*`, its page thread `Begin`, `Check`, `Act`, `ActFails`, `Normalize`. A
connection goes `Dial`, `Accept`, `RegisterOutbound`, `Replay` and ends in `Drop`,
`HubEof` or `HubReset`; accepting copies the timeline under one lock,
registering takes the lock again, and the copies are sent after that, so live
messages may come before, between and after.

Abstractions: the session starts paired. `TeachMachine` is only displayed. A
batch is two steps; a batch that ends early with `done` is as long as what it
performs. What the human did is one or two steps per takeover, one with a stable
selector and one that needs confirmation, drawn in one action and delivered one
by one. Of a request's `told`, "ok" is an answer that reports success, "done" one that does not (the
chat shows the status done for both), "failed" a refusal, an error or a timeout. The 256-event cap of
the timeline is left out; that the pairing may lose a prefix of the replay
(`Pair`) stands for it. A replayed human batch of more than three steps is refused
by the worker, and none of the model is that long. Messages the worker is echoed
and does nothing with are left out, as is quitting.

### SkillPackage and SkillReleases

`SkillPackage` has no state: `Packs` is what `pack_skill` makes of a directory,
`Installs` what `install_package` says of the result, with the rules of each side
for paths, manifests and declared statuses. A file is its path and kind, and a
digest stands for the content it is made of. `SkillReleases` puts `pack_skill`
and `publish_skill` of several processes on one catalog and one set of package files:
`PackWrite` and `PublishRead` read and prepare, `Save` writes the catalog that was read,
`Crash` may come between, and the author edits in between (`Edit`).

### SkillSync

A client and the hub over sessions: `Connect`, `HelloOk`, `HeartbeatRead` and
`HeartbeatSend` (the revision is read before the lock of the writer is awaited), `ConfigUpdate`,
`SyncReceived` and an install in its steps `Check`, `Rename`, `LoadIndex`, `SaveIndex`,
`SendAck`, one task per sync. The hub reads each connection in a task of its own (`Hello`,
`Heartbeat`, `SyncAck`, `ConfigAck`, `End`), pushes (`PushConfig`, `PushSkill`) and waits on the
one slot of the client (`PushAnswered`, `PushTimesOut`); `Reap` marks the silent offline.
Left out: the backoff before a reconnection, and the bytes of a frame.

### RunnerPipes and WorkerDaemon

`RunnerPipes` counts what is in the pipes between the daemon and the child it
runs, in both ways it runs one: `run_python_runner` writes all, waits for the end and
reads then; the worker in its one-shot form is asked and read line by line.
The child reads, prints or hangs, in either order. `RunnerCancelled`,
`RunnerLate` and `Killer` are the ways to end it.

`WorkerDaemon` has the processes of an installation, its socket and its pid
file, and callers in `ensure_daemon`, `daemon_stop` and a request, one file-system call or
one answer per action. A process or a caller may die at any point. A pid is not
used again.

### FleetRetry, FleetPark and FleetClicks

`FleetRetry` has the clock, the time of the last dispatch and of the last retry: each is read under one lock
(`Retry`, `WakesAt`) and written under a later one (`NoteRetry`, `Stamp`), by callers side by
side, of which one is a batch that submits in turn.

`FleetPark` has the dispositions file and its two writers, the hub's task and the
desktop, which writes itself when its request fails or times out (`FallBack`). A
write truncates and then writes; a process may end in between (`Cut`).

`FleetClicks` is the fleet page in front of the hub: `Submit` resolves the digest
from the catalog on the disk, `Ask` sends, `TimesOut` gives up after 25 s while `Resolve`, `Wait`,
`Record` and `Send` of the hub go on; `Pack`, `Publish` and `Sync` change the catalog
and what the client has meanwhile.

### TeachPlan, TeachTurn and TeachStream

`TeachPlan` is the way from a model's answer to the actions of a turn, as a function
(`Plan`): parsing, the validation of each action, the plan. A text is what validation asks of it.

`TeachTurn` has the two tasks of `teach chat --events`: the loop, which reads commands and
ticks (`Send`, `Tick`, the steps of `cancel_inflight`, `Joined`), and the turn (`Begin`,
`Planned`, `Apply`, `Dispatch`, `Post`, `Answered`, `SeesCancel`, `TimesOut`, `End`). They share
the cancel flag, the busy flag and the waiter at the hub. `Restart` keeps the snapshot.

`TeachStream` feeds a text in pieces, cut anywhere, through the redactor
(`Increment`, `Hold`, `Display`), as reasoning and as content. A text is a sequence of pieces of
which a label in two halves, its sign, a quote, a colon and a secret matter. `Redacted` is
`redact_for_log`: four rounds of quoted keys (`Keyed`) and labels (`Labelled`), of which only
the first finds a label that has not its mark yet, so that the model has one.

### TeachPairing and TeachFrames

`TeachPairing` has the connections of extensions and workers: `AcceptCode`, `AcceptToken`,
`Register`, `Reply` are the awaits of a pairing, each under the hub's lock, `End` the
end of the task of a connection, which may come long after its client has left (`Leave`).
Registered connections send pages, origins, messages, confirmations and cancels, and are sent
requests. What the check of a page's URL says is left out.

`TeachFrames` counts bytes: messages of given lengths arrive in pieces, and the hub cuts
them as lines or as frames, with `MAX_MESSAGE_BYTES` scaled down.

### TeachSession, DesktopTeach and DesktopPty

`TeachSession` is `teach start` and `teach chat` as a sequence of acquisitions (`Checks`,
`Lock`, `Hub`, `Stage`, `Spawn`) of which each may fail, with what each path gives back
(`Clear`, `Kill`), and the handlers of the export server, whose read of the counters
(`ReadCalls`, `ReadLast`), question (`Ask`) and count (`Count`, `Note`) are not under one lock.

`DesktopTeach` has the slot of the desktop, the children ever started, the
lines in their pipes and a reader thread for each, which outlives its child's
time in the slot: it notes a session for the start (`ReadSession`) and, under another lock, puts it in
whatever the slot holds by then (`PutSession`). A reader also writes the history file (`RecordLoad`, `SaveTruncates`,
`SaveWrites`).

`DesktopPty` has processes that fork, leave their group and note themselves in
`worker.pid`, and the steps of `reclaim_unix`: look, SIGTERM, look again, SIGKILL, while the
forking goes on; the stop and a watching thread may both come to it.

### TeachRecord, TeachDraft, TeachOptimize and SkillExport

Three functions and a directory. `Mapped` is `map_events_to_skill`: denoise,
coalesce, one step per event, variables for secret fields; each loop of it is a recursive function over
the events, and its body an operator (`Quieter`, `Shorter`, `Taken`). `Draft` is `prepare_teach_export_steps`:
classification, canonical form, parameterization, and the refusal of what looks like a secret.
`Optimized` is `maybe_optimize`: what a model's patch may change, and the steps as they were when it
may not. `SkillExport` has a skill's directory, a staging directory and backups, one file-system call per
action, each of which may fail (`Fails`) or be the last (`Cut`): `Stage`, `Look`, `Move`,
`Backup`, `Install` and, in the guards, one call for each file, `Undo`, `Restore` and `Drop`, and `Tidy`. Of the
latter the code drops the error and goes on; what they could not see to is `left`.

### ProfileStore and CookieFile

`ProfileStore` has the metadata of a profile in its two layouts and its cookie file, and the
commands that create, update, migrate, import, clear, open and delete, one
call to the file system per action, of several processes, with cuts. `Listed` and
`DesktopLists` are the two programs' lists. `CookieFile` is the functions that parse, check and
count cookies, those of the desktop beside those of the command line.

### ModelChoice, ModelList, ModelUrl and TuiConsole

`ModelChoice` has the configuration, the cached list and the picker, with the
commands and the console's fetch, which may end after the base has changed. `ModelList` is the
loop over the pages of a provider that may answer anything. `ModelUrl` is the normal form of a
base URL, as a function on path segments.

`TuiConsole` is the loop of the console: draw, take a result, refresh, a key.
The list of sessions is read by one pending task and again between the drawing and the
key; others open and close sessions meanwhile.

### MCProgress and Records

The modules from `SkillPackage` on share no variable with each other. Two modules
instantiate them: `MCProgress` those with liveness, `Records` the others. Of a pure part (what is
converted, not kept) `Records` has an input, the shape that its inputs have (`InputsOf`) and what is to
hold of their conversion; `MCRecords` extends it with the inputs that TLC tries and with the other sets that
the configuration names. A behaviour is one
of one part, which `part` names from the first state on, and the parts that do not
move stay in a fixed initial state; so the states of a run are the sum of those of its parts, and
a property that says `part = "sync" => ...` says what it would say of `SkillSync` alone.
The properties are stated in the modules and gathered by what they are about; each
module's has a `Mutant` beside the definition that could break it, of which `PROJECT.json`
lists one per gathered property.
The sizes of the parts that are proved about are constants of the two modules, with values in the
`.cfg`; `MCProgressProofs` and `RecordsProofs` (the latter by way of `PartsProofs`) extend `MCProgress` and
`Records` and prove the gathered properties for every value.

## 3. What the runs show

| run | instance | question |
|---|---|---|
| `profile_lock` | two tasks of one process, one of another, crashes | exclusion as far as it goes, no theft of an established lock, waiters answered, dead owners reclaimed |
| `profile_lock_exclusion` | same | violated: two owners |
| `result_store` | two jobs, two profiles, one skill, one client | honest, final, counted once, finished jobs stay so, implements `ResultLog` |
| `fleet_jobs` | two submits, two clients, one profile, one cancel | race of submits, one unfinished job per profile, results executed, client and master agree |
| `fleet_sessions` | one submit, two sessions, cancel, hub restart, client death | tasks and jobs end, flagged runs do not report |
| `finished_not_rerun` | two submits of one id | violated: the second run starts after success |
| `cancel_stops_work` | one submit, one cancel | violated: the run starts after the cancel |
| `teach_hub` | two requests, two takeovers, two connections, three moves | answers, exports, pause flags, takeover |
| `teach_answers` | one connection, fairness | what the chat awaits is answered |
| `human_steps_never_executed` | as `teach_hub` | violated: a human step is executed |
| `progress` | six parts, one at a time, fairness | what is waited for ends, what was cancelled stays so, processes and packages are what they are said to be |
| `records` | eighteen parts, one at a time | what is kept, converted or passed on is what was meant |

### Properties

* `ExclusiveUntilReclaim`: two tasks are inside together only after some task
  has found the lock stale. With `MutualExclusion` violated, this says where the
  blame lies: mkdir itself excludes, reclaiming does not.
* `EstablishedIsKept`: a lock whose pid is on disk, at a moment when nobody is
  inside an acquisition or a removal, is lost only by its owner's drop or death.
* `WaiterAnswered`, `DeadOwnerReclaimed`: no task waits forever; a lock
  left behind by a dead process ends.
* `NoForgedResult`, `ResultWasExecuted`: a stored result is declared by the
  package, judged as declared, and came out of a run of that very job.
* `ResultIsFinal`, `FinishedStaysFinished`: no late report, repetition, cancel or
  second submit changes a result or reopens a finished job. The
  first is stated on the files, where only a torn write may lose a result. The
  second is stated on the files and on the index: a job whose file is finished
  stays so, over restarts too, unless the running index has missed its end
  (`Missed`), and only a failed ledger write makes it miss one. What a submit then
  does is stated as `TerminalNotRequeued`, below.
* `CountedAtMostOnce`, `LedgerBacked`: a partition's count is the number of its
  successes, one per job, and each agrees with the job's file.
* `OneActivePerProfile`: in the index, for all interleavings of two submits.
* `ReportsAgree`: for python runners (of skill steps the two sides judge by different rules), the client's and the master's different
  readings of one report end the job the same way.
* `FlaggedNeverReports`, `TaskEnds`, `DispatchedJobEnds`: a flag set before the run
  suppresses its result; a task ends under any broken connection; a job sent over
  a connection that then stays up ends on the master.
* `AnswerIsOwn`: a batch whose answer the chat took as ok was performed to its last
  step, whatever late results of other batches arrive. The word done on the screen
  (`tui/chat.rs:864`) says only that a result came.
* `HumanExportedOnce`: however often a takeover is stopped, replayed, normalized
  and confirmed, what the human did is exported at most once.
* `PausedAgree`: when nothing is on its way, hub and worker agree on pause and
  takeover.
* `NormalizeAnswersItsStop`: the steps shown for a stop are those of its takeover.
* `NoActionStartsInTakeover`: the worker begins no action while it knows of a
  takeover, also under replay.
* `AnswersCome`: the chat is answered without the help of a timeout.

`PausedAgree`, `NormalizeAnswersItsStop` and `AnswersCome` are stated for a first
connection that holds (`Undisturbed`): a worker that has been away is sent old
pauses, stops and requests again, and what was on its way to it is lost.

The properties of `progress` gather those of the modules:

* `InstalledAsSaid`: `ClaimedIsInstalled` (a digest the hub lists of a client is in its
  cache) and `SyncedIsInstalled` (a push told as a success has installed its package, whichever
  push's answer it took from the slot).
* `LinkConverges`: a client that stays connected is in the end shown online, with what it has
  installed, however late the end of an older connection is noticed.
* `NothingHangs`: `RunIsAnswered`, `CallerEnds`, `ChatIsFreed`, `KeysComeBack`, `ExitIsSeen`: a
  run, a command, a chat, a console and a window are not held up for good, full
  pipes, dead daemons, stops and lost answers included.
* `CancelIsKept`: a cancel that comes while the model answers keeps the turn from sending
  anything, after a stop no request shown as running is left with the worker, and one shown as
  cancelled is never shown done. Only a cancel before the turn has reset the flag, or after
  its last look at it (`teach_events.rs:1317`), is lost.
* `ProcessesAreOwned`: `OneDaemon` (as long as callers come one after the other and none dies on the
  way there is one daemon, and both files lead to it), `AnsweredLeavesNoChild` and `RunnerReportFits` (what is reported was
  read whole, and no child is left), `SessionReclaimed` and `ToldOnce` (the terminal leaves only
  what left its group before any look; its end is told once), `AllOnlyIfNone` (all sessions are
  closed only when none is listed).

And those of `records`:

* `PackagesAreWhole`: `PublishedCanBeSent` (a published record and the package file beside it are of
  one content, unless calls overlapped or were cut), `PackedInstalls` (what packs installs,
  but for the two cases named there), `FoundIsCommitted` (no staging directory is
  taken for a skill).
* `ReplacedWhole`: `PublishedChangesByDraftOnly`, and `AllOrNothing`: an export that no other
  command met leaves the directory as it was, or all of its own; of a file its guards could not see to
  the old content is in the backup, and a backup or a staging directory stays only where its own
  removal failed.
* `OperatorIsObeyed`: `Paced` (the jobs of one caller leave the interval apart, whoever sends
  beside it; two retries come within the cooldown only when both were between check and note), `NoRetarget` and `ClicksShareNoProfile` (a click
  submits the release that was resolved for it, and one per profile),
  `ParkStays` (an answered park stays unless writes overlapped or one was cut).
* `SessionIsOne`: `OneTeachChild`, `OnlyEndedIntrude` (what the slot tells is of its child, or of an
  older one that has ended, whose reader came late), `BrowserUnderLock`.
* `ConversationIsOwn`: `PairedOnce`, `NewestKeepsOutbound`, `GuessesBounded`,
  `EventOncePerConnection` (who is paired, who is sent what), `MessagesHeard` (each message
  within the limit is answered once, in order, however it is cut), `AssistBounded`, `StreamIsRedacted`
  (what was shown of a text without a quoted key is the beginning of the redacted text, however it was
  cut; of one with such a key see `NothingUnchecked`, below).
* `InputsConvert`: `PlaysAsRecorded`, `RecordedSecretsOut`, `DraftIsStable`, `DraftSecretsOut`,
  `OptimizeOnlyTrims`, `ImportedOpens`, `CountsAgree`, `BaseSettles`: what goes in, a recording, a
  draft, a patch, a cookie file or a URL, means the same when it comes out. `DraftSecretsOut` says of each
  field what the code looks for in it, `OptimizeOnlyTrims` that the steps of a patch that was taken pass
  the checks and that a fill of a secret goes only by a merge into a neighbour that has one.
* `FilesAreTold`: `MadeStays`, `CookiesGoWithProfile`, `ListedAlike`, `HistoryKept`, `ChosenIsListed`,
  `FailedFetchForgets`, `WholeUnlessTold`: what is in a file is what each program shows and uses of it.

Several of these hold only outside an overlap or a crash the code does not guard
against, and say so with an observation variable (`torn`, `overlap`, `mixed`, `spoilt`,
`clash`, `unseen`, `alone`). The exception names the window the code leaves open, and the
property says that nothing else breaks it: it does not speak of the race itself. Where the
repository says something of such a window, what it says is stated too, and TLC has a trace of what comes of it
(`SameDaemon`, `PublishedIsRefused`, `CooldownRefuses`, `RunsPersist`, in the next section); the dispatch interval of several callers
(`master_hub.rs:980`), two parks at once (`ops.rs:125`) and the lost final update (`client_daemon.rs:643`) are left
as they are, and `PROJECT.json` says so at the hazard.

### Where code and documentation disagree

* `locks.rs:1` promises that concurrent jobs of one profile exclude each other.
  `is_stale` takes a directory without a pid file for stale, so a second task
  removes it between the owner's mkdir and its write.
* `jobs.rs:2` promises that a finished job is not run again. `handle_job` looks
  for the finished record before it waits for the lock.
* `master_hub.rs:1094` promises that a cancel stops work on the client. One that comes
  before the flag is registered marks the file cancelled; the task overwrites it.
* `teach.py:209` says human steps are never executed. `handle_normalize_result` and
  `confirm_normalize` store them as `action_request`, and a worker that reconnects
  after a resume executes what is replayed.

Thirteen more are stated as definitions beside the others, without a run of their own; TLC finds each of them
violated when it is asked. For those that `Records` and `MCProgress` name as well, and for
`TerminalNotRequeued`, put the name alone in the place of the properties of `MCRecords.cfg`, `MCProgress.cfg` or
`MCResultStore.cfg`, under `PROPERTY` if it speaks of steps; a trace comes within a minute.

* `ResultStore!TerminalNotRequeued` (`master_hub.rs:709`, a job that is terminal on disk is not dispatched
  again): `submit_job` looks at the index, which misses an end when the ledger cannot be
  written (657), so the finished job is written as queued.
* `WorkerDaemon!SameDaemon` (`FIXES-FOR-ASTRA.md:18`, commands of different processes talk to one daemon):
  two that both find none start two (`worker.rs:335`), and both serve.
* `SkillReleases!PublishedIsRefused` (`skill_pkg.rs:526`, a version is published once): two packs that read
  the catalog before either writes it both publish, the second in the place of the first.
* `FleetRetry!CooldownRefuses` (`master_hub.rs:873`, no retry within the cooldown): two that read it before
  either is noted both pass.
* `DesktopTeach!RunsPersist` (`desktop/README.md:11`, runs are persisted): two readers that load the
  history before either saves lose one (`runs.rs:235`).
* `TeachDraft!PlaintextRefused` (`skills.rs:585`, plaintext secrets are refused): outside a fill only bearer
  tokens and cookies are looked for, so a draft with a key in the value of a select is exported.
* `TeachOptimize!SecretFillsKept` (`teach_optimize.rs:256`, a fill with secrets is never dropped): two of
  them merged into each other are both dropped (276).
* `TeachStream!NothingUnchecked` (`teach_events.rs:664`, nothing unchecked is shown of a stream): after a chunk that ends
  inside the quoted value of a secret key the mark is shown, and then the value (`teach_protocol.rs:737`).
* `TeachHub!BatchStopsOnCancel` (`actions.py:669`, a batch stops on cancel): the flag is cleared by the
  next request (`teach_hub.py:405`), also while the cancelled batch still runs.
* `TeachSession!AssistCapped` (`teach_optimize.rs:8`, help is capped at two calls): calls are
  counted when they have been answered, and those that fail are not.
* `TeachOptimize!OnlyGotoKept` (`teach_optimize.rs:256`, the only goto is never dropped): only steps
  with variables are looked at.
* `FleetClicks!DuplicateClickIgnored` (`fleet.rs:556`): a click that times out gives its key back, while
  its call goes on in the hub.
* `TuiConsole!ClosesShown` (`ui.rs:699`, x closes the selected session): the list is read again between the
  drawing and the key (`tui/mod.rs:786`).

Seen while reading and not turned into runs: after a cancel the index and the
file may differ (`master_hub.rs:1103`); a conflicting report is refused and its
raw data stored (`skill_status.rs:295`); after a failed ledger write the index
shows an unfinished job whose file is finished (`master_hub.rs:659`); for skill_steps packages client and master ask for
different identities (`skill_status.rs:362`, `:87`); a profile may be rebound
while its job is in flight (`master_hub.rs:774`); a submit whose send fails has saved
the job as queued, and its profile stays occupied (`master_hub.rs:831`); a second session of the
master finds the flag of a job in an earlier session's map and not in its own
(`client_daemon.rs:79`); Ctrl-R in a recording is
refused by `apply_cmd_local` (`chat.rs:383`) and performed by its caller
(`chat.rs:721`); a replayed stop has no events, so its result is empty and clears
an open question (`teach_hub.rs:1825`); a normalize result that comes after its
timeout leaves a question that the chat never shows; an event logged between the
copy of the timeline and `register_outbound` reaches no worker; a title is cut at a byte,
which may lie inside a character (`teach_protocol.rs:595`), and the URL of a page is
kept with its query (`teach_protocol.rs:454`).

## 4. Bounds and fairness

Every bound is a constant of a `.cfg`, or of an `INSTANCE` in `MCProgress`, `Records` and `MCRecords`.

* `profile_lock`: three tasks are the owner, the one that reclaims and the one
  that comes in between; two processes are needed for a death that leaves tasks
  of the other one behind. A task asks once; a second call is a second task.
* `result_store`: one skill with declared statuses, a success and a failure; two
  jobs and two profiles, so that a job may be bound to a profile it does not have;
  the updates of one client, unlimited in number. No counter is bounded.
* `fleet_jobs`: two submits are the race; two clients are needed for one profile
  to be asked for in two places. `MaxCancels` 1. `fleet_sessions`
  adds reconnection, restart and death, each once, with one job: a second session is
  enough for a stale sender, a stale flag and a late message.
* `teach_hub`: `MaxMoves` 3 is one budget for sends, takeovers, idle keys and
  broken connections. Three is what the counterexamples need (takeover, resume,
  drop), and what a late answer needs (send, drop or cancel, send). Timeouts, answers,
  stops, confirmations and human events are not counted. `teach_answers` needs
  one connection only, since its property ends with the first.
* `progress`. Sync: two sessions (an old one read beside the new), two pushes of two
  digests of one skill (a late answer taken by the other), two revisions, three
  breaks, reaps or pushes in all. Pipes: of two units, with payloads and outputs that fit and that do
  not. Turn: two turns, two cancels, two starts. Daemon: two callers, two
  daemons, one death. Console: two sessions. Terminal: three processes and two sessions, the
  second for a thread left over by the first.
* `records`. Two of everything that races (calls, callers, processes, clicks, children, handlers,
  connections, bases) and one cut or crash, since the second of two adds nothing the
  code tells apart from the first; of an export two calls fail (`MaxFails` 2), one that starts
  the undo and one inside it, whose error the code drops; three edits of the catalog, which is what a
  retarget would need; a recording of three events, which coalescing and denoising look at two
  at a time; timelines and cookie files of two entries; skills of three steps, so that two
  neighbours may be merged beside a third; streamed texts with and without a quoted key; a URL path of five segments,
  two of which an endpoint has; two ids of at most three in a list, over three pages of
  two. Times are counted up to the first moment after a window.

Symmetry is used where the constants are interchangeable and no liveness is
checked in that run (`result_store`, `fleet_jobs`).

Deadlock is not checked where the system may be idle for good: all locks
released, all jobs ended, the bounds used up. `ResultStore` can always take a step and checks it.

Fairness:

* `ProfileLock!FairSpec`: threads run, so each step of an acquisition is weakly
  fair; a job ends, by its timeout (`Release`). `Deadline` is strongly fair: a waiter
  that finds the lock live again and again looks at the clock each time. That the removal
  of a stale directory succeeds is an assumption; when it keeps failing,
  the code never looks at the deadline (`locks.rs:30`), as the mutant of
  `WaiterAnswered` shows.
* `FleetJobs!FairSpec`: the tokio tasks and connection handlers are polled; a run
  ends by itself, by its timeout or by being killed. Submitting, cancelling,
  connecting, cutting, crashing and restarting need not happen.
* `TeachHub!FairSpec`: one weak fairness for all steps of hub handlers, worker threads and
  the chat reading its answer. Each uses up a message or a batch, so a sequence of
  them ends, and fairness to their disjunction implies that each is served. Keys,
  timeouts and connections get none.
* `MCProgress!Fairness`: of each part, the tasks of the program that are polled
  and the clocks that run: the client's reader, its installer and the hub's readers
  (weakly), the heartbeat (strongly, since a session that ends and a sync in between disable it
  again and again); the caller of a run, its timeout and the child's reading; the loop and
  the turn of a chat; each step of a command and of a daemon that starts; the
  console's loop and its task; the thread that watches a terminal and the two seconds of its end.
  None for users, operators, deaths, breaks, or what a child prints.

## 5. Proofs

`tlapm` checks the modules below for every value of the constants under the
assumptions the modules name. Most say that the bounds of the model are
numbers, so that nothing else of the instances of section 4 is used. TLC evaluates each of
them on the run's values.

* `ProfileLockProofs`. From `ProcOfAssumption` alone. `Typing` is inductive as it stands. The
  invariant of the exclusion says, until the first
  reclaim, that at most one task is past its mkdir, that its directory exists, so
  that a second mkdir fails, and that nobody removes a stale directory.
  `ExclusionUntilReclaim` follows. `EstablishedLockIsKept` is an action property; it
  needs that whoever is inside an acquisition belongs to a live process
  (`LiveTasks`), so that no contender finds the lock stale.
* `ResultStoreProofs`. From the assumptions on declarations and markers. First a chain of
  lemmas on `SkillStatus`: `Sound(r, res)` says that an operation keeps types, sets a
  result only where there is none and keeps an honest record honest; each operation
  of the protocol is sound, so `ApplyUpdate` is. Then the steps of the store:
  `Typing`, `ResultsAreFinal`, `ResultsAreHonest`; `CountingIsExact` and
  `LedgerAgreesWithJobs` need the strengthening that a report between its two writes
  has its result on disk and is in no partition. `StoreImplementsLog` combines
  them: each action is one of the log's or a stutter. `FinishedIsFinished` needs that
  the index never says more than the files: a job that has ended there has ended on
  disk, and so has the record a report between its two writes is about to put in its
  place (`EndInv`). A failed ledger write breaks off between the two. That the file ends no later
  than the index holds unless the index has missed the end of a job (`Missed`), which only a failed ledger
  write brings about.
* `SkillStatusProofs`. A second chain over the same operations, for the origin of a result:
  `Follows(r, q, S)` says that the record `q` after a message keeps the profile of `r`, stays
  finished if `r` is, and keeps the result of `r` or has one whose status is in `S`; for `ApplyUpdate` that set is
  `Delivers(data)`, what the data of the message adapt to. Both modules on the
  fleet and the store use it.
* `FleetJobsProofs`. From `FleetAssumption`.
  - `Typing`: the type invariant with queues as sequences (`Typed`). It needs `Belongs`: a
    message in a queue, and a task, belong to a request that was made.
  - `ProfilesAreNotShared`: `OneActivePerProfile` is inductive, over an abstraction of the hub's
    steps (`IndexStep`): a step changes no record, or one record, which it leaves finished,
    without a profile, with the profile it had and unfinished as it was, or with a
    profile nobody else occupies. That `submit_job` looks at the index again under the lock in which
    it writes is what puts its write in the last case; its first check, under an earlier
    lock, gives nothing.
  - `ResultsWereExecuted`: not inductive. `Once` says that a request is in one place (not
    dispatched, or one message in one queue, or one task), so nothing overwrites the
    outcome of a run; `Produced` says that every report on a wire, every job file and every
    result on the master has a run of that job behind it. Together they are.
  - `FlaggedTasksNeverReport`: a task whose flag is up before its run is `Doomed`, and stays so:
    `Once` keeps its request from being delivered a second time with a fresh flag.
  - `ReportsAreJudgedAlike` (`ReportsAgree`): the client's adapter and the master's judge a report
    each by itself; that they judge a runner's alike is a fact about the operators of the
    protocol. It carries over to the fleet by three invariants: a message and a task belong to the
    client and the session they name (`Delivery`); the index has the record of a job asked for once,
    bound as its request asked, with state, digest and result in keeping (`Index`); and a
    success the client took is on the wire of a first connection that stands, or the job
    has succeeded (`Arrives`). Of a job asked for twice, perhaps with another package, none of this
    holds, hence `AskedOnce` in the property; the run has two requests, of one job or of two.
* `TeachHubProofs`. From `TeachAssumption`. Six invariants, each resting on those before it:
  - `CancelHeld` (`wactive => wcancel`) is inductive because a request, the only
    message that clears the cancel flag without clearing `wactive`, is refused while
    `wactive` holds. The page thread reads the flag before every action, hence
    `NoActionStartsInTakeover`. The flag `executor_paused`, which the comment names,
    would not be enough: it is read once per batch.
  - `TypeInv` says of each queue, log, buffer and batch what may be in it; `TypeOK`, which TLC
    checks, is weaker. Batches are whole: what is sent under a request's id are both of its steps,
    so that "the last step" has one meaning.
  - `AnswerInv`: every "ok" on its way from the worker, held by the worker or by the chat, is of a batch
    performed to its last step. Late results of other batches are on their way at any time; the
    chat's comparison of ids is what makes them harmless (`AnswerIsOwn`).
  - `CommandInv`: on the first connection, the last command on its way (`Heeded`) would set the
    worker's flags to what the hub's are; without one they are that already. `FirstLink` says what
    an undisturbed connection is: never dialled again, and no other beside it. `PausedAgree` is the
    case of an empty wire.
  - `NormInv`: as long as the first connection lasts, a takeover is announced by one message, in
    one place (on its way down, queued, on its way up), has its waiter registered, and is
    over; so the fallback of the hub to other waiters is not used, and a reply the chat
    holds is of the last takeover (`NormalizeAnswersItsStop`).
  - `HumanInv`, for `HumanExportedOnce`: every step of the human is at one stage (`StepAt`: with the
    extension, in the buffer, in messages, pending, exported) and once there (`StepOne`); no
    message or buffer holds a step twice (`LoadsInv`). Connections may break and be
    replayed here: no replayed log holds a step of the human.
* `MCProgressProofs`. From `ProgressAssumption`. One invariant for each part and their
  composition: a behaviour moves one part, and a part that stands still keeps its
  invariant (`Still`). Four theorems: `TypesCorrect`, `SaidIsInstalled`, `NothingIsLeft` and
  `CancelStands`, the last an action property.
  - `DaemonInv`: while callers do not meet there is one process at most, and the files, or the caller
    that has just spawned it, lead to it (`OneAtATime`).
  - `PipesInv`: what a caller has not answered it has not read; a process that ended
    by itself has printed everything.
  - `PtyInv`: a living process of a session is in its group, or was seen, or had left before any
    look (`ProcInv`); an end is told once (`ToldInv`).
  - `ConsoleInv`: a list with rows has a selected one, so that "all" is asked of an empty one only.
  - `TurnInv`: a turn that has not sent its request is not what a cancel is after (`NamedInv`); a
    cancel in time holds while the turn may still look (`HeldInv`); the hub shows as running only what
    the turn waits for (`OpenInv`).
  - `SyncInv` says of everything that is written or under way (the index, the read index of each
    install, the heartbeat that waits, each message, the hub's record and slot) that it speaks of
    cached packages, and has its type. The cache only grows, so no message is too old to be true; that
    installs overwrite each other's index entries does no harm to this. A push may take another
    push's answer only when that names its digest.
* `RecordsProofs`, which extends `PartsProofs`. From `RecordsAssumption`, in the same way, for all
  thirteen parts that move, and from `InputsAssumption` for the five that convert an input:
  `PartsProofs` has the invariants of releases, exports, retries, parks, clicks,
  sessions and the desktop, with the conversions of recordings and drafts, `RecordsProofs` those of the others
  and the composition. The theorems
  are `OperatorObeyed`, `OneSession`, `WholePackages`, `FilesTold`, `Shapes` (the types), `Converts`,
  `OwnConversation`, which has an action property in it, and `WholeOrBefore`, which is one.
  - `ReleasesInv`: every record of the catalog, and of a call's copy, is `Made` from some
    directory, and a version has one record (`Shelved`); `InStep`: while calls neither overlap nor are cut,
    one call at most holds a catalog, the tar of each record is stored (`Backed`), and what a call will save
    keeps the content of what is published (`Agrees`). `MadeInstalls` is about the operators
    alone: what packs installs, but for the two cases the property names.
  - `ExportInv`: what a command has staged, by where it is, and which backups it has made (`Own`),
    whoever else writes; when no other command met it (`Sole`), where each file of the directory it
    found is now (`Differs`): in place, in its backup, or replaced, or among those a guard's own call failed to remove or to
    rename back (`left`), which the property names too. A plan holds no file twice
    (`PlansFit`), so no step of a promotion meets what an earlier one put there. `ExportEnds` reads `AllOrNothing`
    off it at each step an export ends with.
  - `RetryInv`: a caller not about to stamp has had its dispatch stamped, by itself or by a later one,
    so that it wakes an interval after the last (`Spaced`); while no two retries are between check
    and note, what one has checked still stands (`OneNotes`).
  - `ParkInv`: while writes neither overlap nor are cut, the one writer has read every park that
    was answered, and the file holds them unless it is just being written (`OneParks`).
  - `ClicksInv`: a call of the hub is of its click's release, and past its resolution the client has
    acknowledged that (`Asked`); a recorded job is of its call (`Recorded`).
  - `SessionInv`: what the command holds and has staged by where it is (`PlaceInv`); the questions put and
    not yet counted, with what may still be put or counted, stay in the limit (`CountInv`), which needs
    the cardinality of sets of handlers; after a noted slow answer every handler reads it
    (`SettledInv`). It implies `AssistBounded` too.
  - `PairingInv`: a generation is given once for a role, and to the connections that have registered
    (`Generations`), so that of two tasks that end only the newest takes the sender away; a role's sender
    is that of a connection that has registered (`Senders`); the events a connection was sent
    and those still to be replayed to it are different and have all been stored (`Numbered`), which is why
    none comes twice; the codes compared are those that failed, fewer than the limit while the
    code is not locked (`GuessesCounted`).
  - `HubInv` adds to it what the types need: each generation that a role has given is that of a
    connection that has registered as it, so there are no more of them than connections (`Spent`) and
    none is above `MaxConns`; and the events are within their bound (`Bounded`).
  - `FramesInv`: `MessagesHeard`, every answer is to a message before the next one, and what
    is buffered is no more than was sent from there on. What was sent is measured by a
    recursive function over the messages (`Bytes`), which grows with each by its size.
  - `StreamInv`: of a text without a quoted key, what was emitted is what the redactors show of what has
    arrived, of all of it once they were flushed (`Emitted`), and thinking is noted before the answer only (`Said`). It rests on a lemma about
    the redactor alone: what it shows of a text is the beginning of what it shows of a longer
    one, because an end of the text that may be the beginning of a label is held back. A text without a quoted key
    is cut into such texts (`PlainCut`), and of those `Redacted` is `Labelled` (`PlainIs`), a recursive function over the positions of a text, so
    that this is an induction over them.
  - `DesktopInv`: the child alive is the slot's or the start's, and a session noted for
    the slot from another child's reader is that of an ended one (`Slotted`); children are born in their
    order and the slot's is the last (`InOrder`); a child tells its session once and first (`ToldOnce`); one
    reader of the history holds what the file held, with its run put first (`OneReader`). It implies
    `HistoryKept` and the part's types too.
  - `ProfileInv`: while a profile is made nobody deletes it and what is being copied of it is still
    there; while no two commands have met, a command is alone, what it updates, imports to, clears or
    opens is there, and the old file of a profile is removed last, after the cookies (`Doing`).
    Files of the directory layout need the directory (`Housed`).
  - `ChoiceInv`: every list under way, cached or shown, and every model in use, was served by the base
    it is kept with, or chosen without a list (`Given`, `InUse`); after a fetch that failed the
    picker is empty until another is asked for (`Forgotten`).
  - `ListInv`: while nothing was marked, all that pages have offered is listed, and none was
    hidden (`AllListed`). It rests on what a page's loop makes of its items: each accepted id, once, as long as there is
    room, by induction over the positions (`OnceIs`, `PageIsWhole`).

  - The conversions, of any input, with no bound on its length. A recording (`RecordingPlays`): each pass
    over the events keeps, of every control, what was typed last into it (`Keeps`), whether it leaves an
    event out, appends it or puts it in the place of the one before (`Follows`); the steps made of what is kept hold
    it in the same order (`Played`), since a click is left out only before a fill of its
    control. A draft (`DraftSettles`): which actions become steps is said without the order
    in which the code asks (`Becomes`), and the step an action becomes is one that becomes itself
    (`StepStays`). A patch (`PatchTrims`): the steps after its selectors and names differ from those
    recorded in these only (`Kin`), and those not dropped come in their order, which the model picks by
    counting (`KthIs`). A base (`BaseIsSettled`): what is left after the endpoints are dropped and a doubled
    v1 is collapsed has neither (`Settled`), and what has neither stays as it is.
    `CookiesAreKept` is about the operators alone.

What `SelectSeq` and the folds return is opaque to the prover: their definitions are
recursive in a parameter. Where a proof needs them the model has a recursive function over numbers
instead (`TeachHub!Kept`, the loops of `TeachRecord`, `TeachDraft`, `TeachOptimize` and `ModelUrl`), of which
facts are proved by induction over a set of numbers (`Least`, `SetInduction`), or the parts of a
sequence (`Without` of `FleetClicks` and `DesktopTeach`). That such a function is there at all is the first
thing to prove of it (`CalmUnfolds`, `KeptUnfolds` and the like). Of `SelectSeq` on the candidates of a patch
nothing is needed: whatever it returns, a patch only trims.

What the lock gives to the rest: exclusion up to the first reclaim. `FleetJobs`
takes exclusion for granted, so its properties are about runs in which no lock is
found stale.

Model-checked only: all liveness (`WaiterAnswered`, `DeadOwnerReclaimed`, `TaskEnds`,
`DispatchedJobEnds`, `AnswersCome`, `LinkConverges`, `NothingHangs`), which with ENABLED is out of
the prover's reach. Every safety property that a passing run checks is proved.

## 6. What is left to do

* The recover loop of the worker (`recover/loop.py`): a bound on rounds and calls beside a
  cancel; sequential, and small.
* The framing of the control connection: `read_line` inside a select loses the part of a line it
  has read (`client_daemon.rs:145`). It needs bytes as `TeachFrames` has them, with a
  reader that is dropped.
* The backoff of the client (`client_daemon.rs:49`), which is reset only by a session that ends
  without an error.

## 7. Not modelled, and why

Path checks, rendering, argument parsing and the catalog's redaction (`ui.rs`, `cli.rs`,
`paths.rs`, `lib.rs`) have no state over time. The model client's requests and Playwright are outside
the program; what they do is a free choice where it matters (a run's report, an
action that fails, a page of models, an answer with or without a plan). The streaming parser of
a chat completion is left out with them. The bundled site skills are packages the
system runs. The worker that drives a page (`runner.py`, `actions.py`, `observe.py`) is modelled as far
as hub and chat depend on it. The desktop's web front end shows what its commands answer.
