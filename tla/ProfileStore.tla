---------------------------- MODULE ProfileStore ----------------------------
(***************************************************************************)
(* The files of one profile (src/src/profiles.rs, cookies.rs): its         *)
(* metadata, in profiles/<name>/profile.json or, of old, in                *)
(* profiles/<name>.json, and its cookies, beside the former.  The commands *)
(* of several processes meet on them, since nothing locks them; each step  *)
(* is one call to the file system, and a process may end between two.      *)
(* The desktop reads the same files with rules of its own (catalog.rs).    *)
(*                                                                         *)
(* Abstracted: proxies, notes and cookie values, of which a file keeps     *)
(* whether it is whole, and for the cookies which import they are of; the  *)
(* browser's own directory, which no command removes.                      *)
(***************************************************************************)
EXTENDS Naturals, FiniteSets

CONSTANTS Procs, MaxImports, MaxCuts    \* bounds: cookie files imported, processes ended

VARIABLES
  disk,     \* [dir, json, flat, cookie]: cookie is the number of the import, 0 when none
  proc,     \* process |-> [op, at, cookie]
  imports,  \* imports begun
  cuts,     \* processes ended half-way
  made,     \* observation: a profile has been made, and no delete begun since
  mixed     \* observation: two commands have overlapped, or one was cut

vars == <<disk, proc, imports, cuts, made, mixed>>

Ops == {"create", "update", "delete", "import", "clear", "open"}
Quiet == [op |-> "none", at |-> "idle", cookie |-> 0]

TypeOK ==
  /\ disk \in [dir : BOOLEAN, json : {"none", "torn", "whole"}, flat : {"none", "whole"}, cookie : 0..MaxImports]
  /\ proc \in [Procs -> [op : Ops \cup {"none"}, cookie : 0..MaxImports,
                         at : {"idle", "layout", "copying", "copied", "ready", "torn", "emptying", "flat"}]]
  /\ imports \in 0..MaxImports /\ cuts \in 0..MaxCuts /\ made \in BOOLEAN /\ mixed \in BOOLEAN

\* Nothing yet, or a profile of the old layout.
Init ==
  /\ disk \in {[dir |-> FALSE, json |-> "none", flat |-> f, cookie |-> 0] : f \in {"none", "whole"}}
  /\ proc = [p \in Procs |-> Quiet] /\ imports = 0 /\ cuts = 0
  /\ made = (disk.flat = "whole") /\ mixed = FALSE

\* meta_path_existing (profiles.rs:37) and get (profiles.rs:167), which reads it.
Exists   == disk.json # "none" \/ disk.flat # "none"
Readable == IF disk.json # "none" THEN disk.json = "whole" ELSE disk.flat = "whole"

Goto(p, l)  == proc' = [proc EXCEPT ![p].at = l]
Leaves(p)   == proc' = [proc EXCEPT ![p] = Quiet]
Keep        == UNCHANGED <<imports, cuts, made, mixed>>

-----------------------------------------------------------------------------
(* A command begins *)

Others(p) == \E q \in Procs \ {p} : proc[q].op # "none"
Begins(p, op, at, c) ==
  /\ proc[p].op = "none" /\ proc' = [proc EXCEPT ![p] = [op |-> op, at |-> at, cookie |-> c]]
  /\ mixed' = (mixed \/ Others(p)) /\ UNCHANGED <<disk, cuts>>

\* create (profiles.rs:83) and update (profiles.rs:105).
Create(p) == ~Exists /\ Begins(p, "create", "layout", 0) /\ UNCHANGED <<imports, made>>
Update(p) == Readable /\ Begins(p, "update", "layout", 0) /\ UNCHANGED <<imports, made>>

\* import (cookies.rs:225), once the file given is found valid, clear
\* (cookies.rs:348), and the readers: open, status and export.
Import(p) ==
  /\ Readable /\ imports < MaxImports /\ imports' = imports + 1
  /\ Begins(p, "import", "layout", imports + 1) /\ UNCHANGED made
Clear(p) == Readable /\ Begins(p, "clear", "layout", 0) /\ UNCHANGED <<imports, made>>
Open(p)  == Readable /\ Begins(p, "open", "layout", 0) /\ UNCHANGED <<imports, made>>

\* delete (profiles.rs:173).
Delete(p) ==
  /\ disk.dir \/ disk.flat # "none"
  /\ Begins(p, "delete", IF disk.dir THEN "emptying" ELSE "flat", 0)
  /\ made' = FALSE /\ UNCHANGED imports

-----------------------------------------------------------------------------
(* Its steps *)

\* ensure_dir_layout (profiles.rs:52): the old file is moved, or copied and
\* removed; with neither file the directory is made for the caller.
AtLayout(p) == proc[p].at = "layout"
LayoutFound(p) == AtLayout(p) /\ disk.json # "none" /\ Goto(p, "ready") /\ UNCHANGED disk /\ Keep
Migrate(p) ==
  /\ AtLayout(p) /\ disk.json = "none" /\ disk.flat # "none"
  /\ disk' = [disk EXCEPT !.dir = TRUE, !.json = disk.flat, !.flat = "none"]
  /\ Goto(p, "ready") /\ Keep
MutantCopied(p) ==
  /\ proc[p].at = "copying" /\ Goto(p, "ready")
  /\ disk' = [disk EXCEPT !.json = IF @ = "torn" THEN "whole" ELSE @] /\ Keep
\* fs::copy truncates the new file, and then fills it from the old one it has open.
Copy(p) ==
  /\ AtLayout(p) /\ disk.json = "none" /\ disk.flat # "none"
  /\ disk' = [disk EXCEPT !.dir = TRUE, !.json = "torn"]
  /\ Goto(p, "copying") /\ Keep
Copied(p) ==
  /\ proc[p].at = "copying" /\ Goto(p, "copied")
  /\ disk' = [disk EXCEPT !.json = IF @ = "torn" THEN "whole" ELSE @] /\ Keep
Remove(p) ==
  /\ proc[p].at = "copied"
  /\ IF disk.flat = "none" THEN Leaves(p) /\ UNCHANGED disk
     ELSE Goto(p, "ready") /\ disk' = [disk EXCEPT !.flat = "none"]
  /\ Keep
MakeDir(p) ==
  /\ AtLayout(p) /\ disk.json = "none" /\ disk.flat = "none"
  /\ disk' = [disk EXCEPT !.dir = TRUE] /\ Goto(p, "ready") /\ Keep

\* write_profile (profiles.rs:76): the file is truncated, and then written.
Truncate(p) ==
  /\ proc[p].at = "ready" /\ proc[p].op \in {"create", "update"}
  /\ IF disk.dir THEN disk' = [disk EXCEPT !.json = "torn"] /\ Goto(p, "torn")
     ELSE Leaves(p) /\ UNCHANGED disk
  /\ Keep
Write(p) ==
  /\ proc[p].at = "torn" /\ Leaves(p)
  /\ disk' = IF disk.json = "torn" THEN [disk EXCEPT !.json = "whole"] ELSE disk
  /\ made' = (made \/ (disk.json = "torn" /\ \A q \in Procs \ {p} : proc[q].op # "delete"))
  /\ UNCHANGED <<imports, cuts, mixed>>

\* atomic_write_0600 (cookies.rs:487): the directory is made again if need be,
\* and the whole file is put in place by one rename.
WriteCookie(p) ==
  /\ proc[p].at = "ready" /\ proc[p].op = "import" /\ Leaves(p)
  /\ disk' = [disk EXCEPT !.dir = TRUE, !.cookie = proc[p].cookie] /\ Keep
RemoveCookie(p) ==
  /\ proc[p].at = "ready" /\ proc[p].op = "clear" /\ Leaves(p)
  /\ disk' = [disk EXCEPT !.cookie = 0] /\ Keep
\* cookie_file_for_open, status, export (cookies.rs:71, 122, 245).
ReadCookie(p) == proc[p].at = "ready" /\ proc[p].op = "open" /\ Leaves(p) /\ UNCHANGED disk /\ Keep

\* remove_dir_all takes the files in any order, and fails when one has come
\* since; then the old file is removed.
MutantEmpty(p) ==
  /\ proc[p].at = "emptying" /\ disk' = [disk EXCEPT !.json = "none"] /\ Goto(p, "flat") /\ Keep
Empty(p) ==
  /\ proc[p].at = "emptying"
  /\ \/ disk.json # "none" /\ disk' = [disk EXCEPT !.json = "none"] /\ UNCHANGED proc
     \/ disk.cookie # 0 /\ disk' = [disk EXCEPT !.cookie = 0] /\ UNCHANGED proc
     \/ disk.json = "none" /\ disk.cookie = 0 /\ disk' = [disk EXCEPT !.dir = FALSE] /\ Goto(p, "flat")
     \/ (disk.json # "none" \/ disk.cookie # 0) /\ mixed /\ Leaves(p) /\ UNCHANGED disk
  /\ Keep
RemoveFlat(p) ==
  /\ proc[p].at = "flat" /\ Leaves(p) /\ disk' = [disk EXCEPT !.flat = "none"] /\ Keep

\* The process ends half-way.
Cut(p) ==
  /\ proc[p].op # "none" /\ cuts < MaxCuts /\ cuts' = cuts + 1
  /\ Leaves(p) /\ mixed' = TRUE /\ UNCHANGED <<disk, imports, made>>

Next ==
  \E p \in Procs :
    \/ Create(p) \/ Update(p) \/ Import(p) \/ Clear(p) \/ Open(p) \/ Delete(p)
    \/ LayoutFound(p) \/ Migrate(p) \/ Copy(p) \/ Copied(p) \/ Remove(p) \/ MakeDir(p)
    \/ Truncate(p) \/ Write(p) \/ WriteCookie(p) \/ RemoveCookie(p) \/ ReadCookie(p)
    \/ Empty(p) \/ RemoveFlat(p) \/ Cut(p)

Spec == Init /\ [][Next]_vars

-----------------------------------------------------------------------------
(* The two listings *)

\* list (profiles.rs:123) and load_path (profiles.rs:213), and list_profiles
\* and load_profile_dto of the desktop (catalog.rs:107, 217): the directory,
\* then the old file, and one that cannot be read is passed over.
Listed        == disk.json = "whole" \/ disk.flat = "whole"
MutantDesktopLists == disk.json = "whole"
DesktopLists  == IF disk.dir /\ disk.json = "whole" THEN TRUE ELSE disk.flat = "whole"
\* cookie_counts (catalog.rs:342) looks beside profile.json, whatever the layout.
DesktopCookie == disk.cookie

-----------------------------------------------------------------------------
(* Properties *)

\* A profile that has been made stays while nobody deletes it, whatever
\* commands meet on it and wherever one is cut: its metadata is in one place or
\* the other through a migration, and is unreadable only while a command
\* writes or copies it, or after one was cut there (profiles.rs:52, 76).
MadeStays ==
  /\ made => Exists
  /\ disk.json = "torn" => mixed \/ \E p \in Procs : proc[p].at \in {"torn", "copying"}

\* No cookies without their profile: deleting takes both, so a profile made
\* again under the name starts without any, unless a command met the delete or
\* was cut (profiles.rs:173, cookies.rs:487).
CookiesGoWithProfile ==
  ~mixed /\ disk.cookie # 0 => Exists \/ \E p \in Procs : proc[p].op = "delete"

\* The desktop lists a profile exactly when the command line does
\* (catalog.rs:107 keeps its own copy of the rules of profiles.rs:123).
ListedAlike == Listed = DesktopLists
=============================================================================
