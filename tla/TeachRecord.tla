---------------------------- MODULE TeachRecord ----------------------------
(***************************************************************************)
(* From what a browser recorded to the steps of a skill                    *)
(* (src/src/teach.rs, map_events_to_skill).  No state.                     *)
(*                                                                         *)
(* An event is [kind, selector, url, value, secret, base]: url is what     *)
(* sanitize_url makes of it or "bad", secret is looks_secret_field and     *)
(* base the variable name its field gives.  The values of Secretish are    *)
(* those that look like a credential wherever they are typed.              *)
(***************************************************************************)
EXTENDS Integers, Sequences, SequencesExt, TLC

CONSTANT Secretish

Kinds == {"noise", "click", "fill", "goto", "goal", "other"}
None  == "none"
Plain(v) == [is |-> "value", of |-> v]
Var(n)   == [is |-> "var", of |-> n]

\* denoise_events (teach.rs:1182): no pointer and key noise, and of clicks in
\* a row on one control the first.
Repeats(out, e, kind) == out # <<>> /\ Last(out).kind = kind /\ Last(out).selector = e.selector
Quieter(out, e) ==
  IF e.kind = "noise" \/ (e.kind = "click" /\ Repeats(out, e, "click")) THEN out ELSE Append(out, e)
Denoise(events) ==
  LET out[n \in 0..Len(events)] == IF n = 0 THEN <<>> ELSE Quieter(out[n - 1], events[n])
  IN  out[Len(events)]

\* coalesce_events (teach.rs:1277): of inputs in a row to one control the last.
MutantShorter(out, e) == IF e.kind = "fill" /\ Repeats(out, e, "fill") THEN out ELSE Append(out, e)
Shorter(out, e) ==
  IF e.kind = "fill" /\ Repeats(out, e, "fill") THEN Append(Front(out), e) ELSE Append(out, e)
Coalesce(events) ==
  LET out[n \in 0..Len(events)] == IF n = 0 THEN <<>> ELSE Shorter(out[n - 1], events[n])
  IN  out[Len(events)]

\* A second field of one name gets a numbered variable (teach.rs:1131).
VarName(base, n) == IF n = 1 THEN base ELSE base \o "_" \o ToString(n)

\* strip_secretish_value (teach.rs:1545).
Stripped(v) == IF v \in Secretish THEN Var("REDACTED") ELSE Plain(v)

\* The arms of map_events_to_skill (teach.rs:1078).  done is [steps, vars,
\* count, nav] so far; a click is left out when the next event fills its control.
Navigated(done, e) ==
  IF e.url \in {None, "bad", done.nav} THEN done
  ELSE [done EXCEPT !.steps = Append(@, [action |-> "goto", url |-> e.url]), !.nav = e.url]

FillsNext(events, i) ==
  i < Len(events) /\ events[i + 1].kind = "fill" /\ events[i + 1].selector = events[i].selector
Clicked(done, events, i) ==
  IF events[i].selector = None \/ FillsNext(events, i) THEN done
  ELSE [done EXCEPT !.steps = Append(@, [action |-> "click", selector |-> events[i].selector])]

Filled(done, e, text) ==
  [done EXCEPT !.steps = Append(@, [action |-> "fill", selector |-> e.selector, text |-> text])]
MutantSecretFilled(done, e) == Filled(done, e, Plain(e.value))
SecretFilled(done, e) ==
  LET n    == done.count[e.base] + 1
      name == VarName(e.base, n) IN
  [Filled(done, e, Var(name)) EXCEPT !.count[e.base] = n,
                                     !.vars = IF Contains(@, name) THEN @ ELSE Append(@, name)]
Typed(done, e, allow) ==
  IF e.selector = None THEN done
  ELSE IF e.secret /\ ~allow THEN SecretFilled(done, e)
  ELSE Filled(done, e, IF e.secret THEN Plain(e.value) ELSE Stripped(e.value))

Bases(events) == {events[i].base : i \in DOMAIN events}
Taken(done, kept, i, allow) ==
  CASE kept[i].kind = "goto"  -> Navigated(done, kept[i])
    [] kept[i].kind = "click" -> Clicked(done, kept, i)
    [] kept[i].kind = "fill"  -> Typed(done, kept[i], allow)
    [] OTHER                  -> done
Mapped(events, allow) ==
  LET kept == Coalesce(Denoise(events))
      done[n \in 0..Len(kept)] ==
        IF n = 0 THEN [steps |-> <<>>, vars |-> <<>>, count |-> [b \in Bases(events) |-> 0], nav |-> None]
        ELSE Taken(done[n - 1], kept, n, allow)
  IN  done[Len(kept)]

\* export_recorded and write_skill_dir (teach.rs:1027, 1315): nothing recorded,
\* or a text that looks like a credential, and no skill is written.
Refused(skill) ==
  \/ skill.steps = <<>>
  \/ \E i \in DOMAIN skill.steps : /\ skill.steps[i].action = "fill"
                                   /\ skill.steps[i].text.is = "value"
                                   /\ skill.steps[i].text.of \in Secretish

\* local_backup_chain (teach_optimize.rs:397): the control's own selector
\* first, then the others, none twice; backup_selectors (teach.rs:1214) asks
\* it for the recorded ones, the label's and the field's.
Chain(primary, others) ==
  FoldLeft(LAMBDA out, s : IF s = None \/ Contains(out, s) THEN out ELSE Append(out, s), <<>>, <<primary>> \o others)

-----------------------------------------------------------------------------
(* Properties, of the events of one recording *)

\* Whatever was typed, cleared, typed again and clicked between, the skill
\* leaves in every control what the recording left there last (denoise,
\* coalesce and the dropped clicks): a variable of the field for what was typed
\* into a secret one, else the value, or the mark of one that was taken out.
LastOf(at) == IF at = {} THEN 0 ELSE CHOOSE i \in at : \A j \in at : j <= i
PlaysAsRecorded(events, allow) ==
  LET steps == Mapped(events, allow).steps IN
  \A c \in {events[i].selector : i \in DOMAIN events} \ {None} :
    LET r == LastOf({i \in DOMAIN events : events[i].kind = "fill" /\ events[i].selector = c})
        p == LastOf({i \in DOMAIN steps : steps[i].action = "fill" /\ steps[i].selector = c}) IN
    IF r = 0 THEN p = 0
    ELSE /\ p # 0
         /\ IF events[r].secret /\ ~allow
            THEN \E n \in DOMAIN events : steps[p].text = Var(VarName(events[r].base, n))
            ELSE \/ steps[p].text = Plain(events[r].value)
                 \/ events[r].value \in Secretish /\ steps[p].text = Var("REDACTED")

\* A skill that is written has no value of a secret field, unless they were
\* allowed, and nothing that looks like a credential, even if allowed
\* (teach.rs:1125, skills.rs:586); each value it has was typed where it says.
RecordedSecretsOut(events, allow) ==
  LET skill == Mapped(events, allow) IN
  ~Refused(skill) =>
    \A i \in DOMAIN skill.steps :
      skill.steps[i].action = "fill" /\ skill.steps[i].text.is = "value" =>
        \E j \in DOMAIN events : /\ events[j].kind = "fill" /\ events[j].selector = skill.steps[i].selector
                                 /\ events[j].value = skill.steps[i].text.of
                                 /\ events[j].value \notin Secretish
                                 /\ allow \/ ~events[j].secret
=============================================================================
