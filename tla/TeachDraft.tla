----------------------------- MODULE TeachDraft -----------------------------
(***************************************************************************)
(* The export of a teach chat: from the actions of its timeline to the     *)
(* steps of a skill (src/src/skills.rs, prepare_teach_export_steps, and    *)
(* src/src/teach.rs, export_chat_draft).  No state.                        *)
(*                                                                         *)
(* An action is an item of TeachPlan with, besides, raw (is_raw_dom_event),*)
(* secret (what looks_secret_step says) and name (what var_name_from_step  *)
(* gives).  A text or a value may also be "dump", with a bearer token or a *)
(* cookie in it, "key", with an API key or an Authorization header in it,  *)
(* "redacted", "var", a placeholder for the variable name, or "oddvar",    *)
(* one whose name is no identifier.  A credential in another field of a    *)
(* step is not told apart.  An ms of 0 stands for none: a timeline holds   *)
(* no other.                                                               *)
(***************************************************************************)
EXTENDS TeachPlan

Exportable == {"goto", "click", "fill", "type", "wait", "scroll", "press", "select"}
Skipped    == {"done", "fail", "ask_human"}
Credentials == {"dump", "key"}
Rejects    == [action |-> "reject"]
Skips      == [action |-> "skip"]

\* What the validation of TeachPlan sees of a text.
AsText(t)     == IF t \in Credentials \cup {"redacted", "var", "oddvar"} THEN "ok" ELSE t
Checked(item) == [item EXCEPT !.text = AsText(@), !.value = AsText(@)]

\* parameterize_fill_text (skills.rs:440).
MutantParameterized(item) == IF TextOf(item) \in Credentials THEN "var" ELSE TextOf(item)
Parameterized(item) ==
  LET t == TextOf(item) IN
  IF t \in {"var", "oddvar"} THEN t
  ELSE IF item.secret \/ t \in Credentials \cup {"redacted"} THEN "var" ELSE t
\* The variable: the one the text named, the step's, or REDACTED.
Variable(item) ==
  IF TextOf(item) \in Credentials /\ ~item.secret THEN "REDACTED" ELSE item.name

\* canonicalize_export_step (skills.rs:338): a step of the fields its action
\* has; a select of a secret, or a credential left in the step, is an error.
Canonical(item, source) ==
  LET a     == item.action
      typed == a \in {"fill", "type"}
      text  == Parameterized(item) IN
  [action |-> a, source |-> source, selector |-> item.selector, raw |-> item.raw, secret |-> item.secret,
   url    |-> IF a = "goto" THEN item.url ELSE "none",
   text   |-> IF typed THEN text ELSE "none",
   name   |-> IF typed /\ text = "var" THEN Variable(item) ELSE "none",
   ms     |-> IF a # "wait" THEN 0 ELSE IF item.ms = 0 THEN DefaultWait ELSE Clamped(item.ms),
   dx     |-> IF a = "scroll" THEN item.dx ELSE 0,
   dy     |-> IF a = "scroll" THEN item.dy ELSE 0,
   value  |-> IF a = "select" THEN item.value ELSE "none",
   point  |-> FALSE, observed |-> FALSE, reason |-> "none"]

\* assert_no_plaintext_secrets (skills.rs:586): a text that is typed holds no
\* credential, and no string of the step a bearer token or a cookie.
Secretless(step) ==
  /\ step.action \in {"fill", "type"} => Credentials \cap {step.text, step.value} = {}
  /\ "dump" \notin {step.text, step.value}

\* classify_teach_export_step (skills.rs:224).
ExportSource(item, default) ==
  IF (IF item.source = "none" THEN default ELSE item.source) = "human" THEN "human" ELSE "agent"
Classify(item, default) ==
  LET source == ExportSource(item, default)
      step   == Canonical(item, source)
      bad    == \/ ~Valid(Checked(item), IF source = "human" THEN "human" ELSE "llm")
                \/ item.action \notin Exportable
      tells  == \/ item.action = "select" /\ item.value # "none" /\ item.secret
                \/ ~Secretless(step) IN
  IF item.raw \/ item.action = "none" THEN Rejects
  ELSE IF item.action \in Skipped THEN Skips
  ELSE IF bad THEN Rejects
  ELSE IF item.action = "click" /\ item.selector = "none" THEN Skips
  ELSE IF tells THEN Rejects
  ELSE step

\* prepare_teach_export_steps (skills.rs:295): one action rejected refuses all.
Draft(items, default) ==
  LET class == [i \in DOMAIN items |-> Classify(items[i], default)]
      steps[n \in 0..Len(items)] ==
        IF n = 0 THEN <<>> ELSE IF class[n] = Skips THEN steps[n - 1] ELSE Append(steps[n - 1], class[n])
      out == steps[Len(items)] IN
  IF \E i \in DOMAIN items : class[i] = Rejects
  THEN [ok |-> FALSE, steps |-> <<>>, skipped |-> 0]
  ELSE [ok |-> TRUE, steps |-> out, skipped |-> Len(items) - Len(out)]
Params(draft) == {draft.steps[i].name : i \in {j \in DOMAIN draft.steps : draft.steps[j].text = "var"}}

\* export_chat_draft (teach.rs:1344): nothing to write is refused.
Exports(draft) == draft.ok /\ draft.steps # <<>>

-----------------------------------------------------------------------------
(* Properties, of the actions of one timeline *)

\* An exported skill is made of steps the teach worker takes, and exporting
\* them again gives the same steps: variables stay, waits and sources are
\* settled, nothing is skipped or rejected the second time.
DraftIsStable(items) ==
  LET draft == Draft(items, "agent") IN
  Exports(draft) =>
    /\ \A i \in DOMAIN draft.steps : Valid(Checked(draft.steps[i]), draft.steps[i].source)
    /\ Draft(draft.steps, "agent") = [ok |-> TRUE, steps |-> draft.steps, skipped |-> 0]

\* No text typed into a secret field is exported, nor one with a credential
\* in it, nor the mark of a redacted one, which the timeline has in its place
\* (skills.rs:440, 586); what stands for it has a name.  A value selected holds
\* neither a bearer token nor a cookie (skills.rs:640).
DraftSecretsOut(items) ==
  LET draft == Draft(items, "agent") IN
  Exports(draft) =>
    /\ \A i \in DOMAIN draft.steps :
         LET s == draft.steps[i] IN
         /\ s.text \notin Credentials \cup {"redacted"} /\ s.value # "dump"
         /\ s.action \in {"fill", "type"} /\ s.secret => s.text \in {"var", "oddvar"}
    /\ "none" \notin Params(draft)

\* "Refuse to serialize password/token/cookie/Authorization plaintext"
\* (skills.rs:585).  The code does not: outside a fill it looks for a bearer
\* token and a cookie alone, so a value selected goes out with a key in it.
PlaintextRefused(items) ==
  LET draft == Draft(items, "agent") IN
  Exports(draft) =>
    \A i \in DOMAIN draft.steps : Credentials \cap {draft.steps[i].text, draft.steps[i].value} = {}
=============================================================================
