------------------------------ MODULE SkillExport ------------------------------
(***************************************************************************)
(* How a skill's directory is written (src/src/skills.rs): an export puts  *)
(* every file into a staging directory beside it and promotes them, either *)
(* by one rename or one file at a time over the files in place, with a     *)
(* backup of each; on a failure its guards undo what was done, as far as   *)
(* their calls succeed, for no error of theirs is looked at.  An import     *)
(* makes the directory and writes into it.  The listings look at every     *)
(* directory under skills/, the staging ones too.                          *)
(*                                                                         *)
(* One skill name.  A file is the number of the command that wrote it, 1   *)
(* for one of old, 0 for none.  Every call to the file system is a step,   *)
(* may fail while failures are left, and other processes may run between.  *)
(***************************************************************************)
EXTENDS Naturals, Sequences, FiniteSets

CONSTANTS Procs, Sidecars,       \* the files beside skill.json, in the order they are written
          MaxRuns, MaxFails, MaxCuts   \* bounds: commands, failing calls, ended processes

VARIABLES
  dest,    \* [there, file]: the skill's directory
  proc,    \* process |-> [at, num, plan, next, over, backups, installed, left]:
           \* left has the files a guard failed to remove or to rename back
  staging, \* process |-> its staging directory: file |-> number, or Gone
  bak,     \* process |-> file |-> its backup in the skill's directory, 0 when none
  lost,    \* staging directories, backups and files no process is left to remove
  runs, fails, cuts,
  before,  \* observation: process |-> the directory when its command began
  alone,   \* observation: process |-> no other command ran since it began, and none was cut
  ended    \* observation: process |-> how its last command ended

vars == <<dest, proc, staging, bak, lost, runs, fails, cuts, before, alone, ended>>

Main  == "skill.json"
Files == {Main} \cup {Sidecars[i] : i \in DOMAIN Sidecars}
Nums  == 0..(MaxRuns + 1)
None  == [f \in Files |-> 0]
Gone  == [f \in Files |-> MaxRuns + 2]
Quiet == [at |-> "idle", num |-> 0, plan |-> <<>>, next |-> 1, over |-> FALSE, backups |-> {}, installed |-> {},
          left |-> {}]
\* skill.json first, then the sidecars there are (skills.rs:807).
Before(f, g) == \E i, j \in DOMAIN Sidecars : i < j /\ Sidecars[i] = f /\ Sidecars[j] = g
Ordered == {s \in UNION {[1..n -> Files \ {Main}] : n \in 0..Len(Sidecars)} :
              \A i, j \in DOMAIN s : i < j => Before(s[i], s[j])}
Plans == {<<Main>> \o s : s \in Ordered}

TypeOK ==
  /\ dest \in [there : BOOLEAN, file : [Files -> Nums]]
  /\ ~dest.there => dest.file = None
  /\ \A p \in Procs :
       /\ proc[p].at \in {"idle", "stage", "look", "move", "backup", "install", "undo", "restore",
                          "drop", "clear", "tidy", "import"}
       /\ proc[p].num \in Nums /\ proc[p].plan \in Plans \cup {<<>>}
       /\ proc[p].backups \subseteq Files /\ proc[p].installed \subseteq Files /\ proc[p].left \subseteq Files
       /\ staging[p] \in [Files -> Nums] \cup {Gone} /\ bak[p] \in [Files -> Nums]
       /\ ended[p] \in {"none", "ok", "failed"}
  /\ lost \in BOOLEAN /\ runs \in 0..MaxRuns /\ fails \in 0..MaxFails /\ cuts \in 0..MaxCuts

\* No directory, or one with any of the files of old.
Init ==
  /\ dest \in {[there |-> FALSE, file |-> None]} \cup
              {[there |-> TRUE, file |-> [f \in Files |-> IF f \in q THEN 1 ELSE 0]] : q \in SUBSET Files}
  /\ proc = [p \in Procs |-> Quiet] /\ staging = [p \in Procs |-> Gone]
  /\ bak = [p \in Procs |-> None] /\ lost = FALSE
  /\ runs = 0 /\ fails = 0 /\ cuts = 0
  /\ before = [p \in Procs |-> dest] /\ alone = [p \in Procs |-> TRUE]
  /\ ended = [p \in Procs |-> "none"]

Goto(p, l) == proc' = [proc EXCEPT ![p].at = l]
Fails      == fails < MaxFails /\ fails' = fails + 1
\* A call that takes something away, and one whose failure nobody looks at.
Succeeds   == UNCHANGED <<fails, lost>>
Leaves     == Fails /\ lost' = TRUE
Keep       == UNCHANGED <<runs, cuts, before, alone>>
Still      == Keep /\ UNCHANGED lost
Busy       == {p \in Procs : proc[p].at # "idle"}
Planned(p) == proc[p].plan[proc[p].next]
\* The command of p is over.
Over(p, how) == proc' = [proc EXCEPT ![p] = Quiet] /\ ended' = [ended EXCEPT ![p] = how]

\* Its staging directory and its backups have names of their own.
Begins(p, q) ==
  /\ proc[p].at = "idle" /\ runs < MaxRuns /\ runs' = runs + 1
  /\ proc' = [proc EXCEPT ![p] = [q EXCEPT !.num = runs + 2]]
  /\ before' = [before EXCEPT ![p] = dest]
  /\ alone' = [o \in Procs |-> (o = p \/ o \notin Busy) /\ Busy = {} /\ cuts = 0]
  /\ ended' = [ended EXCEPT ![p] = "none"] /\ bak' = [bak EXCEPT ![p] = None]
  /\ UNCHANGED <<lost, fails, cuts>>

-----------------------------------------------------------------------------
(* Export *)

\* commit_skill_export (skills.rs:755): an existing skill.json needs the
\* permission to overwrite it.
Export(p, over, plan) ==
  /\ dest.file[Main] # 0 => over
  /\ Begins(p, [Quiet EXCEPT !.at = "stage", !.plan = plan, !.over = over])
  /\ staging' = [staging EXCEPT ![p] = None] /\ UNCHANGED dest

\* The files are written to the staging directory (write_export_file, skills.rs:698).
Stage(p) ==
  /\ proc[p].at = "stage"
  /\ \/ /\ staging' = [staging EXCEPT ![p][Planned(p)] = proc[p].num]
        /\ proc' = IF proc[p].next = Len(proc[p].plan)
                   THEN [proc EXCEPT ![p].at = "look", ![p].next = 1]
                   ELSE [proc EXCEPT ![p].next = @ + 1]
        /\ UNCHANGED fails
     \/ Fails /\ Goto(p, "tidy") /\ UNCHANGED staging
  /\ UNCHANGED <<dest, bak, ended>> /\ Still

\* dest.exists() (skills.rs:825) decides, and the rename comes after; it takes
\* the place of an empty directory, and of no other.
Look(p) ==
  /\ proc[p].at = "look" /\ Goto(p, IF dest.there THEN "backup" ELSE "move")
  /\ UNCHANGED <<dest, staging, bak, fails, ended>> /\ Still
Bare == dest.file = None /\ \A q \in Procs : bak[q] = None
Move(p) ==
  /\ proc[p].at = "move"
  /\ \/ /\ Bare /\ dest' = [there |-> TRUE, file |-> staging[p]]
        /\ staging' = [staging EXCEPT ![p] = Gone] /\ Over(p, "ok") /\ UNCHANGED fails
     \/ /\ ~Bare \/ (dest.there /\ lost)
        /\ Goto(p, "tidy") /\ UNCHANGED <<dest, staging, fails, ended>>
     \/ Fails /\ Goto(p, "tidy") /\ UNCHANGED <<dest, staging, ended>>
  /\ UNCHANGED bak /\ Still

\* promote_into_existing (skills.rs:855): a file in place is renamed to its
\* backup, one that is new is noted, then the staged file is renamed to it.
Backup(p) ==
  LET f == Planned(p) IN
  /\ proc[p].at = "backup"
  /\ \/ /\ dest.file[f] # 0
        /\ dest' = [dest EXCEPT !.file[f] = 0] /\ bak' = [bak EXCEPT ![p][f] = dest.file[f]]
        /\ proc' = [proc EXCEPT ![p].at = "install", ![p].backups = @ \cup {f}]
        /\ UNCHANGED fails
     \/ /\ dest.file[f] = 0
        /\ proc' = [proc EXCEPT ![p].at = "install", ![p].installed = @ \cup {f}]
        /\ UNCHANGED <<dest, bak, fails>>
     \/ dest.file[f] # 0 /\ Fails /\ Goto(p, "undo") /\ UNCHANGED <<dest, bak>>
  /\ UNCHANGED <<staging, ended>> /\ Still
Install(p) ==
  LET f == Planned(p) IN
  /\ proc[p].at = "install"
  /\ \/ /\ dest' = [dest EXCEPT !.file[f] = staging[p][f]]
        /\ staging' = [staging EXCEPT ![p][f] = 0]
        /\ proc' = IF proc[p].next = Len(proc[p].plan) THEN [proc EXCEPT ![p].at = "drop"]
                   ELSE [proc EXCEPT ![p].at = "backup", ![p].next = @ + 1]
        /\ UNCHANGED fails
     \/ Fails /\ Goto(p, "undo") /\ UNCHANGED <<dest, staging>>
  /\ UNCHANGED <<bak, ended>> /\ Still

\* PromoteGuard (skills.rs:724) on a failure: what was new is removed, then
\* the backups are renamed back, one by one; what cannot be stays behind.
MutantUndo(p) ==
  /\ proc[p].at = "undo" /\ Goto(p, "restore")
  /\ UNCHANGED <<dest, staging, bak, fails, ended>> /\ Still
Undo(p) ==
  /\ proc[p].at = "undo"
  /\ \/ proc[p].installed = {} /\ Goto(p, "restore") /\ Succeeds /\ UNCHANGED dest
     \/ \E f \in proc[p].installed :
          \/ /\ dest' = [dest EXCEPT !.file[f] = 0] /\ Succeeds
             /\ proc' = [proc EXCEPT ![p].installed = @ \ {f}]
          \/ /\ dest.file[f] # 0 /\ Leaves /\ UNCHANGED dest
             /\ proc' = [proc EXCEPT ![p].installed = @ \ {f}, ![p].left = @ \cup {f}]
  /\ UNCHANGED <<staging, bak, ended>> /\ Keep
Restore(p) ==
  /\ proc[p].at = "restore"
  /\ \/ proc[p].backups = {} /\ Goto(p, "tidy") /\ Succeeds /\ UNCHANGED <<dest, bak>>
     \/ \E f \in proc[p].backups :
          \/ /\ dest' = [dest EXCEPT !.file[f] = bak[p][f]] /\ bak' = [bak EXCEPT ![p][f] = 0]
             /\ proc' = [proc EXCEPT ![p].backups = @ \ {f}] /\ Succeeds
          \/ /\ proc' = [proc EXCEPT ![p].backups = @ \ {f}, ![p].left = @ \cup {f}]
             /\ Leaves /\ UNCHANGED <<dest, bak>>
  /\ UNCHANGED <<staging, ended>> /\ Keep
\* On success the backups are removed.
Drop(p) ==
  /\ proc[p].at = "drop"
  /\ \/ proc[p].backups = {} /\ Goto(p, "clear") /\ Succeeds /\ UNCHANGED bak
     \/ \E f \in proc[p].backups :
          \/ /\ bak' = [bak EXCEPT ![p][f] = 0] /\ Succeeds
             /\ proc' = [proc EXCEPT ![p].backups = @ \ {f}]
          \/ /\ proc' = [proc EXCEPT ![p].backups = @ \ {f}, ![p].left = @ \cup {f}]
             /\ Leaves /\ UNCHANGED bak
  /\ UNCHANGED <<dest, staging, ended>> /\ Keep
\* Last the staging directory is removed, by the command or by StagingGuard
\* (skills.rs:711); where that fails, part of it stays.
Tidy(p) ==
  /\ proc[p].at \in {"clear", "tidy"}
  /\ \/ staging' = [staging EXCEPT ![p] = Gone] /\ Succeeds
     \/ \E q \in SUBSET Files :
          staging' = [staging EXCEPT ![p] = [f \in Files |-> IF f \in q THEN 0 ELSE @[f]]] /\ Leaves
  /\ Over(p, IF proc[p].at = "clear" THEN "ok" ELSE "failed")
  /\ UNCHANGED <<dest, bak>> /\ Keep

-----------------------------------------------------------------------------
(* Import, and the end of a process *)

\* import (skills.rs:145) of a name that has no directory: the directory is
\* made, then skill.json is written; nothing undoes the former.
Import(p) ==
  /\ ~dest.there /\ Begins(p, [Quiet EXCEPT !.at = "import", !.plan = <<Main>>])
  /\ dest' = [dest EXCEPT !.there = TRUE] /\ UNCHANGED staging
ImportWrite(p) ==
  /\ proc[p].at = "import"
  /\ \/ dest' = [dest EXCEPT !.file[Main] = proc[p].num] /\ Over(p, "ok") /\ UNCHANGED fails
     \/ Fails /\ Over(p, "failed") /\ UNCHANGED dest
  /\ UNCHANGED <<staging, bak>> /\ Still

\* A process ends half-way; what it staged and backed up stays.
Cut(p) ==
  /\ proc[p].at # "idle" /\ cuts < MaxCuts /\ cuts' = cuts + 1
  /\ proc' = [proc EXCEPT ![p] = Quiet] /\ alone' = [o \in Procs |-> FALSE]
  /\ ended' = [ended EXCEPT ![p] = "none"] /\ lost' = TRUE
  /\ UNCHANGED <<dest, staging, bak, runs, fails, before>>

Next ==
  \E p \in Procs :
    \/ \E over \in BOOLEAN, plan \in Plans : Export(p, over, plan)
    \/ Stage(p) \/ Look(p) \/ Move(p) \/ Backup(p) \/ Install(p)
    \/ Undo(p) \/ Restore(p) \/ Drop(p) \/ Tidy(p)
    \/ Import(p) \/ ImportWrite(p) \/ Cut(p)

Spec == Init /\ [][Next]_vars

-----------------------------------------------------------------------------
(* Listing *)

\* collect_skills and list_with_errors (skills.rs:92, 65): of the directories
\* with a skill.json that says this name, the first met counts.
Found == ({dest.file[Main]} \cup {staging[p][Main] : p \in {q \in Procs : staging[q] # Gone}}) \ {0}

-----------------------------------------------------------------------------
(* Properties *)

\* "All-or-nothing skill-dir commit" (skills.rs:749): an export that no other
\* command met left the directory as it found it when it failed, at whatever
\* call, and when it succeeded every file planned is its own, every other file
\* as before.  The calls that undo and tidy may fail too, unseen: of a file they
\* could not see to, the content it had is still there, in the backup, and what
\* has its place is nothing or the command's own; no other backup stays, and the
\* staging directory only when its own removal failed.
Ends(p) == proc[p].at \notin {"idle", "import"} /\ proc'[p].at = "idle" /\ ended'[p] # "none"
Whole(p) ==
  LET w == proc[p]
      b == before[p] IN
  /\ staging'[p] = Gone \/ fails' # fails
  /\ \A f \in Files \ w.left : bak'[p][f] = 0
  /\ ended'[p] = "failed" =>
       /\ dest'.there = b.there
       /\ \A f \in Files : IF f \in w.left THEN bak'[p][f] = b.file[f] /\ dest'.file[f] \in {0, w.num}
                           ELSE dest'.file[f] = b.file[f]
  /\ ended'[p] = "ok" => \A f \in Files :
       dest'.file[f] = IF \E i \in DOMAIN w.plan : w.plan[i] = f THEN w.num ELSE b.file[f]
AllOrNothing == [][\A p \in Procs : Ends(p) /\ alone[p] => Whole(p)]_vars

\* With no command under way, and none cut or unable to tidy, a skill is found
\* in its own directory only: no staging directory is left to be taken for it
\* (skills.rs:92 passes over no name).
FoundIsCommitted == Busy = {} /\ ~lost => Found \subseteq {dest.file[Main]}
=============================================================================
