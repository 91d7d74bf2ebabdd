---------------------------- MODULE DesktopTeach ----------------------------
(***************************************************************************)
(* The desktop's teach chat (src/desktop/src-tauri/src/teach.rs) and the   *)
(* history it keeps (runs.rs).  The main thread runs one command at a time *)
(* (lib.rs: none is async): it starts a child `cloakcli teach chat         *)
(* --events', ends it, and asks after it.  A thread reads the lines of each*)
(* child: the session line, which the start waits for outside the lock of  *)
(* the slot, status lines, which go to whoever is in the slot, and job     *)
(* lines, which are written to the history, outside any lock.              *)
(*                                                                         *)
(* Abstracted: the texts, their redaction, stderr, the browser events and   *)
(* the other processes of a child's group.                                 *)
(***************************************************************************)
EXTENDS Naturals, Sequences, FiniteSets, Functions

CONSTANTS Profiles,
          MaxKids,      \* bound: children started
          MaxLines,     \* bound: lines in a child's pipe
          MaxHistory    \* MAX_RUNS

VARIABLES
  slot,    \* [child, session, status]: the children these are of, 0: none
  kid,     \* child |-> [at, profile, said, read]: its session line
  pipe,    \* child |-> the lines not yet read
  starting,\* the child the start command waits for, 0 when it does not
  history, \* [runs, torn, was]: the file; torn: truncated and not yet written;
           \* was: observation, its runs before the last writing
  writing, \* child |-> [at, runs]: what its reader is in the middle of: a session
           \* line, or the load, modify and save of the history
  overlap  \* observation: two readers have been at the file at a time

vars == <<slot, kid, pipe, starting, history, writing, overlap>>

Kids == 1..MaxKids
None == [child |-> 0, session |-> 0, status |-> 0]
Unborn == [at |-> "unborn", profile |-> CHOOSE p \in Profiles : TRUE, said |-> FALSE, read |-> FALSE]
Lines == {"session", "status", "job"}

TypeOK ==
  /\ slot \in [child : 0..MaxKids, session : 0..MaxKids, status : 0..MaxKids]
  /\ kid \in [Kids -> [at : {"unborn", "up", "dead"}, profile : Profiles,
                       said : BOOLEAN, read : BOOLEAN]]
  /\ \A k \in Kids : Len(pipe[k]) <= MaxLines /\ \A i \in DOMAIN pipe[k] : pipe[k][i] \in Lines
  /\ starting \in 0..MaxKids
  /\ history.torn \in BOOLEAN /\ Len(history.was) <= MaxHistory /\ Len(history.runs) <= MaxHistory
  /\ \A k \in Kids : writing[k].at \in {"no", "noted", "loaded", "truncated"} /\ Len(writing[k].runs) <= MaxHistory
  /\ overlap \in BOOLEAN

Init ==
  /\ slot = None /\ starting = 0 /\ overlap = FALSE
  /\ kid = [k \in Kids |-> Unborn] /\ pipe = [k \in Kids |-> <<>>]
  /\ history = [runs |-> <<>>, torn |-> FALSE, was |-> <<>>]
  /\ writing = [k \in Kids |-> [at |-> "no", runs |-> <<>>]]

-----------------------------------------------------------------------------
(* The child *)

\* The events of a child come in any number, its session line before the others.
Emit(k, line) ==
  /\ kid[k].at = "up" /\ Len(pipe[k]) < MaxLines
  /\ (line = "session") = ~kid[k].said
  /\ pipe' = [pipe EXCEPT ![k] = Append(@, line)]
  /\ kid' = [kid EXCEPT ![k].said = TRUE]
  /\ UNCHANGED <<slot, starting, history, writing, overlap>>

\* It ends by itself.
ChildEnds(k) ==
  /\ kid[k].at = "up" /\ kid' = [kid EXCEPT ![k].at = "dead"]
  /\ UNCHANGED <<slot, pipe, starting, history, writing, overlap>>

\* terminate_session (teach.rs:575): the group is asked to end, and the child
\* is killed when it does not; the slot is locked for all of it.
Terminated(k) == [kid EXCEPT ![k].at = "dead"]

-----------------------------------------------------------------------------
(* The commands *)

\* start (teach.rs:200): the child in the slot is kept when it is alive, is of
\* the same profile and has told its session.
Keeps(p) == /\ slot.child # 0 /\ kid[slot.child].at = "up"
            /\ kid[slot.child].profile = p /\ slot.session # 0
Spawned(ks, p) == LET k == CHOOSE x \in Kids : kid[x].at = "unborn" /\ \A y \in 1..(x - 1) : kid[y].at # "unborn"
                  IN  <<k, [ks EXCEPT ![k].at = "up", ![k].profile = p]>>
MutantStart(p) ==
  /\ starting = 0 /\ ~Keeps(p) /\ \E k \in Kids : kid[k].at = "unborn"
  /\ LET new == Spawned(kid, p) IN starting' = new[1] /\ kid' = new[2]
  /\ slot' = None
  /\ UNCHANGED <<pipe, history, writing, overlap>>
Start(p) ==
  /\ starting = 0 /\ ~Keeps(p) /\ \E k \in Kids : kid[k].at = "unborn"
  /\ LET new == Spawned(IF slot.child = 0 THEN kid ELSE Terminated(slot.child), p)
     IN  starting' = new[1] /\ kid' = new[2]
  /\ slot' = None
  /\ UNCHANGED <<pipe, history, writing, overlap>>

\* The wait of the start (teach.rs:366): the session line has been read, or the
\* child has ended, or eight seconds have passed, when only the child is killed;
\* the line may be read after the start has looked for it and before it fails.
\* (Asking after a child nobody else waits for does not fail: 404 is not met.)
MutantStarted == starting # 0
Started == starting # 0 /\ kid[starting].read
StartAnswers ==
  /\ Started
  /\ slot' = [child |-> starting, session |-> starting, status |-> 0]
  /\ starting' = 0
  /\ UNCHANGED <<kid, pipe, history, writing, overlap>>
StartFails ==
  /\ starting # 0
  /\ kid' = [kid EXCEPT ![starting].at = "dead"] /\ starting' = 0
  /\ UNCHANGED <<slot, pipe, history, writing, overlap>>

\* stop, the closing of the window and the end of the application
\* (teach.rs:543, lib.rs:308), and a status command that finds the child gone
\* (teach.rs:503).
Stop ==
  /\ starting = 0 /\ slot.child # 0
  /\ kid' = Terminated(slot.child)
  /\ slot' = None
  /\ UNCHANGED <<pipe, starting, history, writing, overlap>>
RequestStatus == slot.child # 0 /\ kid[slot.child].at = "dead" /\ Stop

-----------------------------------------------------------------------------
(* The reader of a child (teach.rs:288) *)

Next1(k, line) == pipe[k] # <<>> /\ Head(pipe[k]) = line /\ writing[k].at = "no"

\* A session line is noted for the start (332), and then, under the lock of the
\* slot, put in whatever is there by that time (335).
ReadSession(k) ==
  /\ Next1(k, "session") /\ pipe' = [pipe EXCEPT ![k] = Tail(@)]
  /\ kid' = [kid EXCEPT ![k].read = TRUE]
  /\ writing' = [writing EXCEPT ![k].at = "noted"]
  /\ UNCHANGED <<slot, starting, history, overlap>>
PutSession(k) ==
  /\ writing[k].at = "noted" /\ writing' = [writing EXCEPT ![k].at = "no"]
  /\ slot' = IF slot.child = 0 THEN slot ELSE [slot EXCEPT !.session = k]
  /\ UNCHANGED <<kid, pipe, starting, history, overlap>>
\* A status line too (status_from_event).
ReadStatus(k) ==
  /\ Next1(k, "status") /\ pipe' = [pipe EXCEPT ![k] = Tail(@)]
  /\ slot' = IF slot.child = 0 THEN slot ELSE [slot EXCEPT !.status = k]
  /\ UNCHANGED <<kid, starting, history, writing, overlap>>

\* record_teach_run (runs.rs:179): load, put the run first or in its place,
\* sort by second, keep MAX_RUNS, truncate the file and write it.  The runs are
\* named for the child they are of, which has one at most.  A
\* file that cannot be read has no runs.
Busy(k) == writing[k].at \in {"loaded", "truncated"}
Without(runs, k) ==
  IF k \notin Range(runs) THEN runs
  ELSE LET i == CHOOSE i \in DOMAIN runs : runs[i] = k
       IN  SubSeq(runs, 1, i - 1) \o SubSeq(runs, i + 1, Len(runs))
Upsert(runs, k)  == LET all == <<k>> \o Without(runs, k)
                    IN  SubSeq(all, 1, IF Len(all) < MaxHistory THEN Len(all) ELSE MaxHistory)
MutantLoaded == <<>>
Loaded == IF history.torn THEN <<>> ELSE history.runs
RecordLoad(k) ==
  /\ Next1(k, "job") /\ pipe' = [pipe EXCEPT ![k] = Tail(@)]
  /\ writing' = [writing EXCEPT ![k] = [at |-> "loaded", runs |-> Upsert(Loaded, k)]]
  /\ overlap' = (overlap \/ \E j \in Kids : Busy(j))
  /\ UNCHANGED <<slot, kid, starting, history>>
SaveTruncates(k) ==
  /\ writing[k].at = "loaded" /\ writing' = [writing EXCEPT ![k].at = "truncated"]
  /\ history' = [runs |-> <<>>, torn |-> TRUE, was |-> history.runs]
  /\ UNCHANGED <<slot, kid, pipe, starting, overlap>>
SaveWrites(k) ==
  /\ writing[k].at = "truncated"
  /\ history' = [history EXCEPT !.runs = writing[k].runs, !.torn = FALSE]
  /\ writing' = [writing EXCEPT ![k] = [at |-> "no", runs |-> <<>>]]
  /\ UNCHANGED <<slot, kid, pipe, starting, overlap>>

Next ==
  \/ \E k \in Kids, line \in Lines : Emit(k, line)
  \/ \E k \in Kids : \/ ChildEnds(k) \/ ReadSession(k) \/ PutSession(k) \/ ReadStatus(k)
                     \/ RecordLoad(k) \/ SaveTruncates(k) \/ SaveWrites(k)
  \/ \E p \in Profiles : Start(p)
  \/ StartAnswers \/ StartFails \/ Stop \/ RequestStatus

Spec == Init /\ [][Next]_vars

-----------------------------------------------------------------------------
(* Properties *)

\* At most one teach chat is alive, and it is the one in the slot or the one a
\* start waits for: neither a start that gave up nor the end of a session
\* leaves a child that no command can reach (start, stop and request_status in
\* teach.rs, each of which leaves the lock between looking and putting).
OneTeachChild == \A k \in Kids : kid[k].at = "up" => k = slot.child \/ k = starting

\* What a start that keeps the child, or a status command, answers with is the
\* slot's child's own, or comes from a child that was started before it and has
\* ended, whose reader came to the slot late (teach.rs:335): never from one that
\* is up, or that was started after it.
OnlyEndedIntrude ==
  slot.child # 0 => \A k \in {slot.session, slot.status} \ {0, slot.child} :
                      k < slot.child /\ kid[k].at = "dead"

\* The file a reader leaves holds the runs the file held before, unless there
\* are more than MAX_RUNS or two readers were at it together (runs.rs:235).
HistoryKept ==
  ~overlap /\ ~history.torn =>
    \A i \in DOMAIN history.was : i < MaxHistory => history.was[i] \in Range(history.runs)

\* "persists redacted teach/job runs" (desktop/README.md:11): a file written
\* anew holds what it held before.  Two readers that load it before either
\* saves lose the run of the first, and one that loads it torn loses all.
RunsPersist ==
  ~history.torn =>
    \A i \in DOMAIN history.was : i < MaxHistory => history.was[i] \in Range(history.runs)
=============================================================================
