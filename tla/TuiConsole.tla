----------------------------- MODULE TuiConsole -----------------------------
(***************************************************************************)
(* The operator's console (src/src/tui/mod.rs): its loop, the one task it  *)
(* waits for, and the list of the browser sessions of the local daemon,    *)
(* which others open and close meanwhile.  The loop draws, takes the       *)
(* result of a task that has ended, refreshes when idle, and handles at    *)
(* most one key; a row is selected by its place in the list.               *)
(*                                                                         *)
(* Profiles, skills and clients are listed the same way and only by the    *)
(* console's own keys; the picker of models is in ModelChoice.             *)
(***************************************************************************)
EXTENDS Integers, Sequences, SequencesExt

CONSTANT Sessions   \* ids, none of which is "all"

VARIABLES
  up,     \* the worker daemon answers
  open,   \* its sessions, in the order it lists them
  rows,   \* session_rows
  sel,    \* session_state: the selected row, 0 when there is none
  screen, \* [rows, sel]: as they were drawn last
  loop,   \* "draw", "pending", "refresh", "key" or "left"
  busy,   \* BusyKind, or "none"
  task,   \* [at, rows]: "none", "runs" or "ended", with the sessions it found
  hit     \* observation: [target, rows, screen] of a close, until the next drawing

vars == <<up, open, rows, sel, screen, loop, busy, task, hit>>

Kinds == {"HubConnect", "WorkerStart", "SessionsLoad", "SkillRun", "TeachStart", "LlmFetch"}
Lists == {l \in Seq(Sessions) : IsInjective(l)}
NoHit == [target |-> "none", rows |-> <<>>, screen |-> "none"]

TypeOK ==
  /\ up \in BOOLEAN /\ open \in Lists /\ rows \in Lists /\ sel \in 0..Len(rows)
  /\ screen.rows \in Lists /\ screen.sel \in 0..Len(screen.rows)
  /\ loop \in {"draw", "pending", "refresh", "key", "left"} /\ busy \in Kinds \cup {"none"}
  /\ task.at \in {"none", "runs", "ended"} /\ task.rows \in Lists
  /\ hit.target \in Sessions \cup {"all", "none"} /\ hit.rows \in Lists

\* The sessions listed now: none when the daemon does not answer
\* (list_sessions_async, tui/mod.rs:1240).
Found == IF up THEN open ELSE <<>>
Without(l, s) == IF s \in ToSet(l) THEN RemoveAt(l, CHOOSE i \in DOMAIN l : l[i] = s) ELSE l

\* A row stays selected while there are rows (ensure_selections, tui/mod.rs:526).
MutantEnsured(i, l) == IF i > Len(l) THEN 0 ELSE i
Ensured(i, l) == IF i > Len(l) THEN Len(l) ELSE IF i = 0 /\ l # <<>> THEN 1 ELSE i
MutantShow(l) == rows' = l /\ sel' = IF sel = 0 /\ l # <<>> THEN 1 ELSE sel
Show(l) == rows' = l /\ sel' = Ensured(sel, l)

\* The console starts by waiting for the hub (App::new and start_boot).
Init ==
  /\ up \in BOOLEAN /\ open \in {<<>>} \cup {<<s>> : s \in Sessions} /\ rows = <<>> /\ sel = 0
  /\ screen = [rows |-> <<>>, sel |-> 0] /\ loop = "draw" /\ hit = NoHit
  /\ busy = "HubConnect" /\ task = [at |-> "runs", rows |-> <<>>]

Begins(kind) == busy' = kind /\ task' = [at |-> "runs", rows |-> <<>>]
Quiets       == busy' = "none" /\ task' = [at |-> "none", rows |-> <<>>]

-----------------------------------------------------------------------------
(* Others *)

\* Sessions are opened and closed by the command line and by jobs, and the
\* daemon ends or is started.
Other ==
  /\ \/ up /\ \E s \in Sessions \ ToSet(open) : open' = Append(open, s) /\ UNCHANGED up
     \/ \E s \in ToSet(open) : open' = Without(open, s) /\ UNCHANGED up
     \/ up' = ~up /\ open' = <<>>
  /\ UNCHANGED <<rows, sel, screen, loop, busy, task, hit>>

\* The task ends, in its own time: the hub answers or three seconds are over,
\* the daemon has been started or not, a run, a teach session or a fetch is
\* over; the sessions are those listed then (tui/mod.rs:285, 297, 629, 708).
TaskEnds ==
  /\ task.at = "runs"
  /\ task' = [at |-> "ended", rows |-> IF busy \in {"SessionsLoad", "SkillRun"} THEN Found ELSE <<>>]
  /\ up' \in (IF busy = "WorkerStart" THEN {up, TRUE} ELSE {up})
  /\ UNCHANGED <<open, rows, sel, screen, loop, busy, hit>>

-----------------------------------------------------------------------------
(* The loop (event_loop, tui/mod.rs:1331) *)

Draw ==
  /\ loop = "draw" /\ loop' = "pending" /\ screen' = [rows |-> rows, sel |-> sel]
  /\ hit' = NoHit /\ UNCHANGED <<up, open, rows, sel, busy, task>>

\* apply_pending (tui/mod.rs:334): the boot goes on from one task to the next.
MutantApply ==
  /\ CASE busy = "HubConnect"   -> Begins("WorkerStart") /\ UNCHANGED <<rows, sel>>
       [] busy = "WorkerStart"  -> Begins("SessionsLoad") /\ UNCHANGED <<rows, sel>>
       [] busy = "SessionsLoad" -> Quiets /\ Show(task.rows)
       [] busy = "SkillRun"     -> Show(task.rows) /\ task' = [at |-> "none", rows |-> <<>>] /\ UNCHANGED busy
       [] OTHER                 -> Quiets /\ UNCHANGED <<rows, sel>>
Apply ==
  /\ CASE busy = "HubConnect"  -> Begins("WorkerStart") /\ UNCHANGED <<rows, sel>>
       [] busy = "WorkerStart" -> Begins("SessionsLoad") /\ UNCHANGED <<rows, sel>>
       [] busy \in {"SessionsLoad", "SkillRun"} -> Quiets /\ Show(task.rows)
       [] OTHER                -> Quiets /\ UNCHANGED <<rows, sel>>
Pending ==
  /\ loop = "pending" /\ loop' = "refresh"
  /\ IF task.at = "ended" THEN Apply ELSE UNCHANGED <<rows, sel, busy, task>>
  /\ UNCHANGED <<up, open, screen, hit>>

\* Every two seconds while nothing is waited for or typed in (refresh_live,
\* tui/mod.rs:507).
Refresh ==
  /\ loop = "refresh" /\ loop' = "key"
  /\ \/ busy = "none" /\ Show(Found)
     \/ UNCHANGED <<rows, sel>>
  /\ UNCHANGED <<up, open, screen, busy, task, hit>>

-----------------------------------------------------------------------------
(* The keys; all but quit wait while the console is busy *)

Pressed == loop = "key" /\ loop' = "draw"
Free    == Pressed /\ busy = "none"

NoKey == Pressed /\ UNCHANGED <<up, open, rows, sel, screen, busy, task, hit>>
Quit  == loop = "key" /\ loop' = "left" /\ UNCHANGED <<up, open, rows, sel, screen, busy, task, hit>>

\* r, Enter, T and f (begin_sessions_load, begin_skill_run, begin_teach, begin_llm_fetch).
Start ==
  /\ Free /\ \E k \in {"SessionsLoad", "SkillRun", "TeachStart", "LlmFetch"} : Begins(k)
  /\ UNCHANGED <<up, open, rows, sel, screen, hit>>

\* move_sel (tui/mod.rs:1744).
Move ==
  /\ Free /\ rows # <<>> /\ sel' \in {1 + (sel % Len(rows)), 1 + ((sel + Len(rows) - 2) % Len(rows))}
  /\ UNCHANGED <<up, open, rows, screen, busy, task, hit>>

\* o (open_browser, tui/mod.rs:743), in a session of its own.
OpenBrowser ==
  /\ Free
  /\ IF up THEN \E s \in Sessions \ ToSet(open) : open' = Append(open, s) /\ Show(Append(open, s))
     ELSE UNCHANGED <<open, rows, sel>>
  /\ UNCHANGED <<up, screen, busy, task, hit>>

\* x (close_selected_session, tui/mod.rs:785).
Target(l, i) == IF i = 0 THEN "all" ELSE l[i]
Close ==
  /\ Free
  /\ hit' = [target |-> Target(rows, sel), rows |-> rows, screen |-> Target(screen.rows, screen.sel)]
  /\ IF up
     THEN /\ open' = (IF sel = 0 THEN <<>> ELSE Without(open, rows[sel]))
          /\ Show(open')
     ELSE UNCHANGED <<open, rows, sel>>
  /\ UNCHANGED <<up, screen, busy, task>>

Next ==
  \/ Other \/ TaskEnds \/ Draw \/ Pending \/ Refresh \/ NoKey \/ Quit \/ Start \/ Move \/ OpenBrowser \/ Close

Spec == Init /\ [][Next]_vars
\* The loop goes on, and what it waits for ends.
Fairness == WF_vars(TaskEnds) /\ WF_vars(Draw \/ Pending \/ Refresh \/ NoKey)
FairSpec == Spec /\ Fairness

-----------------------------------------------------------------------------
(* Properties *)

\* All sessions are closed at once only when the console lists none, whatever
\* lists have come and gone (tui/mod.rs:786, ui.rs:699).
AllOnlyIfNone == hit.target = "all" => hit.rows = <<>>

\* A console that waits, in its boot or for a task, takes keys again.
Takes == busy = "none" \/ loop = "left"
KeysComeBack == busy # "none" ~> Takes

\* "x = close selected (or all if none)" (ui.rs:699): what is closed is what
\* the screen shows as selected.  The code does not keep it: the list is read
\* again between the drawing and the key.
ClosesShown == hit.target = hit.screen
=============================================================================
