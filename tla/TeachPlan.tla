----------------------------- MODULE TeachPlan -----------------------------
(***************************************************************************)
(* From a model's answer to the actions of a turn (src/src/teach_chat.rs): *)
(* parsing, validation of each action, the plan.  No state; TeachTurn and  *)
(* TeachDraft apply it.                                                    *)
(*                                                                         *)
(* A text is represented by what validation asks of it: "none" when it is  *)
(* absent, "ok", "script" when it names a script scheme, "long" when it is *)
(* over its limit.  A field that is there without a usable text is "odd".  *)
(***************************************************************************)
EXTENDS Integers, Sequences, FiniteSets

CONSTANTS MaxActions,   \* MAX_ACTIONS_PER_TURN
          MaxScroll,    \* MAX_SCROLL_DELTA
          MaxWait, DefaultWait

Unified    == {"goto", "click", "fill", "type", "scroll", "wait", "done", "fail", "ask_human"}
HumanExtra == {"press", "select"}
Final      == {"done", "fail", "ask_human"}

\* Whose action it is (teach_chat.rs:416): what the item says, else the
\* default of the caller; anything but "human" is the model's.
SourceOf(item, default) ==
  IF (IF item.source = "none" THEN default ELSE item.source) = "human" THEN "human" ELSE "llm"

\* The names an action may have; those of FORBIDDEN are in neither set.
NameOk(item, default) ==
  item.action \in Unified \/ (item.action \in HumanExtra /\ SourceOf(item, default) = "human")

\* The text of an action, or its value, except for a select (teach_chat.rs:444).
TextOf(item) ==
  IF item.text # "none" THEN item.text
  ELSE IF item.action = "select" THEN "none" ELSE item.value

Abs(n) == IF n < 0 THEN -n ELSE n

\* What each action needs (teach_chat.rs:526).
Complete(item) ==
  CASE item.action = "click"            -> item.selector # "none" \/ (item.point /\ item.observed)
    [] item.action \in {"fill", "type"} -> TextOf(item) # "none"
    [] item.action = "scroll"           -> item.dx # 0 \/ item.dy # 0 \/ item.selector # "none"
    [] item.action = "goto"             -> item.url # "none"
    [] item.action = "select"           -> item.selector # "none"
    [] OTHER                            -> TRUE

\* reject_dangerous_url (teach_chat.rs:627): http or https, a host, no
\* credentials, not over the limit.
UrlOk(url) == url \in {"none", "ok"}

\* validate_action_with_source (teach_chat.rs:392).
MutantValid(item, default) ==
  /\ NameOk(item, default)
  /\ item.selector \in {"none", "ok"}
  /\ TextOf(item) \in {"none", "ok"}
  /\ Abs(item.dx) <= MaxScroll /\ Abs(item.dy) <= MaxScroll
  /\ Complete([item EXCEPT !.url = IF @ = "ok" THEN @ ELSE "none"])
Valid(item, default) ==
  /\ NameOk(item, default)
  /\ item.selector \in {"none", "ok"}
  /\ TextOf(item) \in {"none", "ok"}
  /\ Abs(item.dx) <= MaxScroll /\ Abs(item.dy) <= MaxScroll
  /\ UrlOk(item.url)
  /\ Complete(item)

\* The action that comes out of a valid item: text filled in from the value,
\* waits clamped and defaulted, a reason for an action that ends the turn.
Clamped(ms) == IF ms > MaxWait THEN MaxWait ELSE ms
Validated(item, default) ==
  [item EXCEPT !.source = SourceOf(item, default),
               !.text   = TextOf(item),
               !.ms     = IF item.action = "wait" /\ @ = 0 THEN DefaultWait ELSE Clamped(@),
               !.reason = IF item.action \in Final /\ @ = "none" THEN "ok" ELSE @]

\* parse_json_blob (teach_chat.rs:341): no JSON, another schema, no list or
\* too long a list refuse the answer as a whole.
MutantReadable(answer) == answer.json /\ answer.version = 1
Readable(answer) == answer.json /\ answer.version = 1 /\ Len(answer.items) <= MaxActions
ValidItems(answer) == {i \in DOMAIN answer.items : Valid(answer.items[i], "llm")}

\* plan_turn (teach_chat.rs:923): one action refused refuses the plan, and the
\* actions that were valid stay in it, to be shown.  goto_risk finds every
\* http(s) address harmless, so no plan asks for confirmation.
Plan(answer) ==
  IF ~Readable(answer) THEN [actions |-> <<>>, errors |-> TRUE]
  ELSE [actions |-> [k \in 1..Cardinality(ValidItems(answer)) |->
                       LET i == CHOOSE j \in ValidItems(answer) :
                                  Cardinality({h \in ValidItems(answer) : h <= j}) = k
                       IN Validated(answer.items[i], "llm")],
        errors |-> ValidItems(answer) # DOMAIN answer.items]

\* dispatch_action_request validates again (teach_hub.rs:166), with the source
\* the action now names.
HubTakes(actions) ==
  /\ actions # <<>> /\ Len(actions) <= MaxActions
  /\ \A i \in DOMAIN actions : Valid(actions[i], "llm")
=============================================================================
