---------------------------- MODULE ModelChoice ----------------------------
(***************************************************************************)
(* Which model of which provider is used: config/llm.json, the list that   *)
(* was last fetched (llm_models_cache.json), and those who change them:    *)
(* the commands llm models, configure and set (src/src/llm.rs) and the     *)
(* console's picker (src/src/tui/mod.rs), which fetches in a task.  Both   *)
(* files are replaced by a rename, and read and written under no lock.     *)
(*                                                                         *)
(* Bases are normalized (ModelUrl), models acceptable ids.  A configuration*)
(* is its base and its model; alone notes that the base was set without a  *)
(* model, as llm set may.                                                  *)
(***************************************************************************)
EXTENDS Integers, FiniteSets

CONSTANTS Bases, Models, Default,  \* DEFAULT_BASE_URL
          NoBase, NoModel

VARIABLES
  disk,    \* llm.json: [base, model, alone]; base is NoBase when there is none
  cache,   \* llm_models_cache.json: [base, ids]
  writer,  \* tui and cli |-> [at, cfg, base, model]: a change of llm.json in progress
  listed,  \* the list the cli has fetched for configure: [base, ids]
  tui,     \* [draft, picker, err, asks]: llm_draft_base_url, the list, llm_fetch_err, the fetch
  served,  \* observation: <<base, model>> that a provider has listed
  failed   \* observation: the console's last fetch failed

vars == <<disk, cache, writer, listed, tui, served, failed>>

Lists    == [base : Bases \cup {NoBase}, ids : SUBSET Models]
Empty    == [base |-> NoBase, ids |-> {}]
Configs  == [base : Bases \cup {NoBase}, model : Models \cup {NoModel}, alone : BOOLEAN]
NoConfig == [base |-> NoBase, model |-> NoModel, alone |-> FALSE]
Quiet    == [at |-> "idle", cfg |-> NoConfig, base |-> NoBase, model |-> NoModel]

TypeOK ==
  /\ disk \in Configs /\ cache \in Lists /\ listed \in Lists
  /\ writer \in [{"tui", "cli"} -> [at : {"idle", "list", "cached", "load", "save"}, cfg : Configs,
                                    base : Bases \cup {NoBase}, model : Models \cup {NoModel}]]
  /\ tui \in [draft : Bases, picker : Lists, err : BOOLEAN, asks : Bases \cup {NoBase}]
  /\ served \subseteq Bases \X Models /\ failed \in BOOLEAN

-----------------------------------------------------------------------------
(* The configuration (load, apply_set and save, llm.rs:151, 499) *)

Idle(w) == writer[w].at = "idle"
Begin(w, base, model) ==
  Idle(w) /\ writer' = [writer EXCEPT ![w] = [Quiet EXCEPT !.at = "load", !.base = base, !.model = model]]

Load(w) ==
  /\ writer[w].at = "load" /\ writer' = [writer EXCEPT ![w].at = "save", ![w].cfg = disk]
  /\ UNCHANGED <<disk, cache, listed, tui, served, failed>>

\* A model has to be in the list last fetched, and that to be of the base
\* (validate_model_against_cache, llm.rs:819).
MutantValid(base, model) == model \in cache.ids
Valid(base, model) == cache.base = base /\ model \in cache.ids

Set(c, base, model) ==
  [base  |-> IF base = NoBase THEN c.base ELSE base,
   model |-> IF model = NoModel THEN c.model ELSE model,
   alone |-> IF model # NoModel THEN FALSE ELSE base \notin {NoBase, c.base} \/ c.alone]

\* What is set is checked, and the whole configuration written; one without a
\* base or a model is refused.
Save(w) ==
  /\ writer[w].at = "save" /\ writer' = [writer EXCEPT ![w] = Quiet]
  /\ LET new == Set(writer[w].cfg, writer[w].base, writer[w].model)
     IN  disk' = IF /\ new.base # NoBase /\ new.model # NoModel
                    /\ writer[w].model # NoModel => Valid(new.base, new.model)
                 THEN new ELSE disk
  /\ UNCHANGED <<cache, listed, tui, served, failed>>

\* A change of something else, of whether it is enabled among them: the base
\* and the model are written as they were read (toggle_enabled, llm.rs:570).
Touch(w) ==
  /\ disk # NoConfig /\ Begin(w, NoBase, NoModel) /\ (w = "tui" => tui.asks = NoBase)
  /\ UNCHANGED <<disk, cache, listed, tui, served, failed>>

-----------------------------------------------------------------------------
(* The command line (handle_llm, cli.rs:1433) *)

CliSet(base, model) ==
  /\ Begin("cli", base, model) /\ {base, model} # {NoBase, NoModel}
  /\ UNCHANGED <<disk, cache, listed, tui, served, failed>>

\* A provider lists some of its models (fetch_models: ModelList).
Serves(base, ids) == ids # {} /\ served' = served \cup ({base} \X ids)

\* run_configure and run_models (llm.rs:949, 1024): the base of the arguments or
\* of the configuration; the list is fetched, and then written.
CliFetch(base, ids) ==
  /\ Idle("cli") /\ Serves(base, ids)
  /\ listed' = [base |-> base, ids |-> ids] /\ writer' = [writer EXCEPT !["cli"].at = "list"]
  /\ UNCHANGED <<disk, cache, tui, failed>>
CliCache ==
  /\ writer["cli"].at = "list" /\ cache' = listed /\ writer' = [writer EXCEPT !["cli"].at = "cached"]
  /\ UNCHANGED <<disk, listed, tui, served, failed>>
\* llm models ends here; configure sets the model picked from its list
\* (pick_from_list, llm.rs:889).
CliPick(model) ==
  /\ writer["cli"].at = "cached" /\ listed' = Empty
  /\ \/ writer' = [writer EXCEPT !["cli"] = Quiet]
     \/ /\ model \in listed.ids
        /\ writer' = [writer EXCEPT !["cli"] = [Quiet EXCEPT !.at = "load", !.base = listed.base, !.model = model]]
  /\ UNCHANGED <<disk, cache, tui, served, failed>>

-----------------------------------------------------------------------------
(* The console.  Keys other than quit wait for the fetch (tui/mod.rs:1368). *)

Free == tui.asks = NoBase /\ Idle("tui")

\* The list of the file is taken when there is none and no fetch has failed
\* (reload_static, tui/mod.rs:479).
MutantRevived(t) == IF t.picker.ids = {} /\ cache.base = t.draft THEN [t EXCEPT !.picker = cache] ELSE t
Revived(t) == IF t.picker.ids = {} /\ ~t.err /\ cache.base = t.draft THEN [t EXCEPT !.picker = cache] ELSE t
Reload == Free /\ tui' = Revived(tui) /\ UNCHANGED <<disk, cache, writer, listed, served, failed>>

Fresh == Revived([draft |-> IF disk.base = NoBase THEN Default ELSE disk.base,
                  picker |-> Empty, err |-> FALSE, asks |-> NoBase])
\* The console is left, a fetch with it, and started anew.
Restart ==
  /\ Idle("tui") /\ tui' = Fresh /\ failed' = FALSE
  /\ UNCHANGED <<disk, cache, writer, listed, served>>

\* A base is typed in; a list of another is dropped (commit_input, tui/mod.rs:1122).
CommitBase(base) ==
  /\ Free
  /\ tui' = [tui EXCEPT !.draft = base, !.picker = IF @.base = base THEN @ ELSE Empty]
  /\ UNCHANGED <<disk, cache, writer, listed, served, failed>>

\* begin_llm_fetch (tui/mod.rs:954): without a key nothing is asked.
Fetch ==
  /\ Free
  /\ tui' \in {[tui EXCEPT !.err = TRUE], [tui EXCEPT !.picker = Empty, !.err = FALSE, !.asks = tui.draft]}
  /\ UNCHANGED <<disk, cache, writer, listed, served, failed>>
\* Its end (apply_pending, tui/mod.rs:373); the task itself never panics, so
\* the loop's arm for that (tui/mod.rs:1342) is not taken.
Fetched(ids) ==
  /\ tui.asks # NoBase /\ Serves(tui.asks, ids) /\ failed' = FALSE
  /\ LET l == [base |-> tui.asks, ids |-> ids] IN
     /\ tui' = [tui EXCEPT !.picker = IF tui.asks = tui.draft THEN l ELSE Empty, !.asks = NoBase, !.err = FALSE]
     /\ cache' = IF tui.asks = tui.draft THEN l ELSE cache
  /\ UNCHANGED <<disk, writer, listed>>
FetchFails ==
  /\ tui.asks # NoBase /\ failed' = TRUE
  /\ tui' = [tui EXCEPT !.picker = Empty, !.err = TRUE, !.asks = NoBase]
  /\ UNCHANGED <<disk, cache, writer, listed, served>>

\* Enter (save_selected_llm_model, tui/mod.rs:998; llm_picker_can_save, 1666).
CanSave == tui.picker.ids # {} /\ tui.picker.base = tui.draft
Enter(model) ==
  /\ Free /\ CanSave /\ model \in tui.picker.ids /\ Begin("tui", tui.draft, model)
  /\ UNCHANGED <<disk, cache, listed, tui, served, failed>>

Init ==
  /\ disk = NoConfig /\ cache = Empty /\ listed = Empty /\ served = {} /\ failed = FALSE
  /\ writer = [w \in {"tui", "cli"} |-> Quiet] /\ tui = Fresh

Next ==
  \/ \E w \in {"tui", "cli"} : Load(w) \/ Save(w) \/ Touch(w)
  \/ \E b \in Bases \cup {NoBase}, m \in Models \cup {NoModel} : CliSet(b, m)
  \/ \E b \in Bases : CommitBase(b) \/ \E ids \in SUBSET Models : CliFetch(b, ids)
  \/ \E ids \in SUBSET Models : Fetched(ids)
  \/ \E m \in Models : CliPick(m) \/ Enter(m)
  \/ CliCache \/ Reload \/ Restart \/ Fetch \/ FetchFails

Spec == Init /\ [][Next]_vars

-----------------------------------------------------------------------------
(* Properties *)

\* However the command line, the console and the ends of their fetches are
\* mixed, the model in use was listed by the provider it is used with, unless
\* the provider was changed without a model (llm.rs:431, cli.rs:362).
ChosenIsListed == disk # NoConfig /\ ~disk.alone => <<disk.base, disk.model>> \in served

\* After a fetch that failed the console offers nothing to save, whatever is
\* reloaded or typed in, until one succeeds (tui/mod.rs:418).
FailedFetchForgets == failed => tui.picker = Empty
=============================================================================
