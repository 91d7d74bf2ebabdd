----------------------------- MODULE FleetPark -----------------------------
(***************************************************************************)
(* The dispositions file: which jobs an operator has parked.  The hub      *)
(* writes it for a park request (src/src/ops.rs, park_job), each request   *)
(* in a task of its own; the desktop writes it itself whenever the request *)
(* fails (fleet_park, desktop fleet.rs:705), and a request that times out  *)
(* fails while the hub is still at it.  Both read the file, add an entry   *)
(* and write it anew, and neither takes a lock.                            *)
(***************************************************************************)
EXTENDS Integers, FiniteSets

CONSTANTS Jobs, Calls, MaxCuts

VARIABLES
  file,     \* [whole, parked]: data/ops/dispositions.json; torn while it is written
  writer,   \* <<call, who>> |-> [at, seen]: the hub's task and the desktop's
  job,      \* call |-> the job it parks
  parks,    \* observation: jobs whose park was answered
  spoilt,   \* observation: parks overlapped by another write, or written after one cut short
  cuts      \* bound: processes that ended between truncating and writing

vars == <<file, writer, job, parks, spoilt, cuts>>

Writers == Calls \X {"hub", "desktop"}
Idle    == [at |-> "idle", seen |-> {}]

TypeOK ==
  /\ file \in [whole : BOOLEAN, parked : SUBSET Jobs]
  /\ writer \in [Writers -> [at : {"idle", "load", "truncate", "write", "done"}, seen : SUBSET Jobs]]
  /\ job \in [Calls -> Jobs] /\ parks \subseteq Jobs /\ spoilt \in BOOLEAN /\ cuts \in 0..MaxCuts

Init ==
  /\ file = [whole |-> TRUE, parked |-> {}] /\ writer = [w \in Writers |-> Idle]
  /\ job \in [Calls -> Jobs] /\ parks = {} /\ spoilt = FALSE /\ cuts = 0

AtWork(w)  == writer[w].at \notin {"idle", "done"}
To(w, l)   == writer' = [writer EXCEPT ![w].at = l]
\* What a reader makes of the file: one it cannot parse has no entries
\* (load_dispositions, ops.rs:60; park_on_disk, fleet.rs:744; fleet.rs:819).
Read       == IF file.whole THEN file.parked ELSE {}
\* The disposition a row of the ledger page shows (load_ledger_file, fleet.rs:857).
Shown(j)   == j \in Read

\* A writer starts; noted when another is at work.
Starts(w) ==
  /\ writer[w].at = "idle" /\ To(w, "load")
  /\ spoilt' = (spoilt \/ \E v \in Writers \ {w} : AtWork(v))

-----------------------------------------------------------------------------
\* The desktop asks the hub ("park", master_hub.rs:348).
Request(c) == Starts(<<c, "hub">>) /\ writer[<<c, "desktop">>].at = "idle" /\ UNCHANGED <<file, job, parks, cuts>>

\* The hub does not answer, or not in time: the desktop writes (fleet_park,
\* fleet.rs:712), and what the hub answers now is not read.
FallBack(c) == Starts(<<c, "desktop">>) /\ UNCHANGED <<file, job, parks, cuts>>

Load(w) ==
  /\ writer[w].at = "load" /\ writer' = [writer EXCEPT ![w] = [at |-> "truncate", seen |-> Read]]
  /\ UNCHANGED <<file, job, parks, spoilt, cuts>>

Truncate(w) ==
  /\ writer[w].at = "truncate" /\ To(w, "write") /\ file' = [whole |-> FALSE, parked |-> {}]
  /\ UNCHANGED <<job, parks, spoilt, cuts>>

\* An entry of the job is replaced, the others are kept.
MutantWith(w) == IF w[2] = "desktop" THEN {job[w[1]]} ELSE writer[w].seen \cup {job[w[1]]}
With(w) == writer[w].seen \cup {job[w[1]]}
Write(w) ==
  /\ writer[w].at = "write" /\ To(w, "done") /\ file' = [whole |-> TRUE, parked |-> With(w)]
  /\ parks' = IF w[2] = "desktop" \/ writer[<<w[1], "desktop">>].at = "idle"
              THEN parks \cup {job[w[1]]} ELSE parks
  /\ UNCHANGED <<job, spoilt, cuts>>

\* A process ends in the middle: the file stays torn.  A hub that ends fails
\* the request, a desktop takes its click with it.
Cut(w) ==
  /\ writer[w].at = "write" /\ cuts < MaxCuts /\ To(w, "done") /\ cuts' = cuts + 1
  /\ UNCHANGED <<file, job, parks, spoilt>>

Next ==
  \/ \E c \in Calls : Request(c) \/ FallBack(c)
  \/ \E w \in Writers : Load(w) \/ Truncate(w) \/ Write(w) \/ Cut(w)

Spec == Init /\ [][Next]_vars

-----------------------------------------------------------------------------
(* Properties *)

\* A park that was answered stays in the file and on the ledger page, whoever
\* wrote it, while no two writes overlap and none is cut short; two that do
\* overlap, a click the hub is slow to answer among them, lose parks of other
\* jobs (ops.rs:125, fleet.rs:744).
ParkStays ==
  ~spoilt /\ cuts = 0 => \A j \in parks : Shown(j) \/ \E w \in Writers : writer[w].at = "write"
=============================================================================
