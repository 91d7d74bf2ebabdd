------------------------------ MODULE ResultLog ------------------------------
(***************************************************************************)
(* What the master promises about results, whatever its clients send and   *)
(* whenever it dies: a job gets at most one validated result, which never  *)
(* changes, and a success enters the book of its skill at most once, and   *)
(* only after it was decided.  ("late cancel does not wipe a counted       *)
(* result", "Success count = declared success:true, at most once per       *)
(* job".)  A verdict or a book may be lost with its file, but is never     *)
(* replaced by another one.                                                *)
(***************************************************************************)
CONSTANTS Jobs, Skills,
          Results,      \* records with fields skill and success
          Undecided, Lost

VARIABLES verdict,      \* job |-> its result
          book          \* skill |-> the jobs whose success was counted

logVars == <<verdict, book>>

LogInit ==
  /\ verdict = [j \in Jobs |-> Undecided]
  /\ book = [s \in Skills |-> {}]

Decide(j, r) ==
  /\ verdict[j] = Undecided
  /\ verdict' = [verdict EXCEPT ![j] = r]
  /\ UNCHANGED book

Count(j) ==
  /\ verdict[j] \in Results /\ verdict[j].success
  /\ book[verdict[j].skill] # Lost
  /\ \A s \in Skills : book[s] # Lost => j \notin book[s]
  /\ book' = [book EXCEPT ![verdict[j].skill] = @ \cup {j}]
  /\ UNCHANGED verdict

LoseVerdict(j) == verdict' = [verdict EXCEPT ![j] = Lost] /\ UNCHANGED book
LoseBook(s)    == book' = [book EXCEPT ![s] = Lost] /\ UNCHANGED verdict

LogNext ==
  \/ \E j \in Jobs : Count(j) \/ LoseVerdict(j) \/ (\E r \in Results : Decide(j, r))
  \/ \E s \in Skills : LoseBook(s)

LogSpec == LogInit /\ [][LogNext]_logVars
=============================================================================
