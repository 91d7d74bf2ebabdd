--------------------------- MODULE TeachOptimize ---------------------------
(***************************************************************************)
(* A model's patch of a recorded skill (src/src/teach_optimize.rs): what   *)
(* apply_optimize_patch accepts, and what it makes of the skill.  No state.*)
(*                                                                         *)
(* A step is [action, selector, selectors, text, vars, url, name]: vars    *)
(* says that its text holds a variable.  A patch is [json, version,        *)
(* selectors, names, drops, merges], of which an index counts from 1 and   *)
(* is out of range above the steps; a selector or a name that is not       *)
(* accepted is "bad".                                                      *)
(***************************************************************************)
EXTENDS Integers, Sequences, FiniteSets

Whitelist == {"goto", "click", "fill"}

\* accept_selector (teach_optimize.rs:496) and accept_field_name (513); names
\* that speak of credentials are passed over.
AcceptsSelector(s) == s \notin {"none", "bad"}
AcceptsName(n)     == n \notin {"none", "bad", "secret"}

\* validate_teach_step (teach_optimize.rs:567).
ValidStep(s) ==
  /\ s.action \in Whitelist
  /\ s.action = "goto" => s.url # "none"
  /\ s.action # "goto" => AcceptsSelector(s.selector)

\* The indices of a patch (teach_optimize.rs:204, 242, 254, 265).  A merge of
\* a step with itself is passed over, any other is of neighbouring fills.
InRange(steps, patch) ==
  /\ \A i \in DOMAIN patch.selectors : patch.selectors[i].index <= Len(steps)
  /\ \A i \in DOMAIN patch.names     : patch.names[i].index <= Len(steps)
  /\ \A i \in patch.drops            : i <= Len(steps)
  /\ \A m \in patch.merges           : m.from <= Len(steps) /\ m.into <= Len(steps)
Mergeable(steps, m) ==
  m.from = m.into \/ /\ m.from - m.into \in {-1, 1}
                     /\ steps[m.from].action = "fill" /\ steps[m.into].action = "fill"

\* The selectors of a step (teach_optimize.rs:204): never those of a goto; the
\* list keeps what is accepted, the step's own selector first.
Unique(s) ==
  LET out[n \in 0..Len(s)] ==
        IF n = 0 THEN <<>>
        ELSE IF \E i \in 1..(n - 1) : s[i] = s[n] THEN out[n - 1]
        ELSE Append(out[n - 1], s[n])
  IN  out[Len(s)]
Selected(steps, p) ==
  LET primary == IF p.selector = "none" THEN steps[p.index].selector ELSE p.selector
      clean   == Unique(SelectSeq(p.selectors, AcceptsSelector))
      chain   == IF \E i \in DOMAIN clean : clean[i] = primary THEN clean ELSE <<primary>> \o clean
  IN [steps EXCEPT ![p.index].selector = primary,
                   ![p.index].selectors = IF p.selectors # <<>> /\ Len(chain) > 1 THEN chain ELSE @]
SelectorsOk(steps, patch) ==
  \A i \in DOMAIN patch.selectors :
    /\ steps[patch.selectors[i].index].action # "goto"
    /\ patch.selectors[i].selector # "bad"

\* field_names (teach_optimize.rs:239).
Named(steps, p) ==
  IF steps[p.index].action \in {"fill", "click"} /\ AcceptsName(p.name)
  THEN [steps EXCEPT ![p.index].name = p.name] ELSE steps

\* What is dropped (teach_optimize.rs:251): not a fill that holds variables;
\* and of what is merged, the one merged into another, unless that one alone
\* holds variables.
MutantMerged(steps, patch) == {m.from : m \in {x \in patch.merges : x.from # x.into}}
Merged(steps, patch) ==
  {m.from : m \in {x \in patch.merges : x.from # x.into /\ (steps[x.from].vars => steps[x.into].vars)}}
Dropped(steps, patch) ==
  {i \in patch.drops : ~(steps[i].action = "fill" /\ steps[i].vars)} \cup Merged(steps, patch)
Kept(steps, gone) == [k \in 1..(Len(steps) - Cardinality(gone)) |->
                        steps[CHOOSE i \in DOMAIN steps \ gone :
                                Cardinality({j \in DOMAIN steps \ gone : j <= i}) = k]]

\* apply_optimize_patch (teach_optimize.rs:188).
Refused == [ok |-> FALSE, steps |-> <<>>]
Applied(steps, patch) ==
  IF ~patch.json \/ patch.version \notin {0, 1} \/ steps = <<>> \/ ~InRange(steps, patch) THEN Refused
  ELSE IF ~SelectorsOk(steps, patch) \/ \E m \in patch.merges : ~Mergeable(steps, m) THEN Refused
  ELSE LET chosen[n \in 0..Len(patch.selectors)] ==
             IF n = 0 THEN steps ELSE Selected(chosen[n - 1], patch.selectors[n])
           named[n \in 0..Len(patch.names)] ==
             IF n = 0 THEN chosen[Len(patch.selectors)] ELSE Named(named[n - 1], patch.names[n])
           kept == Kept(named[Len(patch.names)], Dropped(steps, patch))
       IN IF kept = <<>> \/ \E i \in DOMAIN kept : ~ValidStep(kept[i]) THEN Refused
          ELSE [ok |-> TRUE, steps |-> kept]

\* maybe_optimize (teach_optimize.rs:117) keeps the skill as it was recorded
\* when the model is off, cannot be asked, or answers with a patch refused.
MutantOptimized(steps, asked, patch) == IF asked THEN Applied(steps, patch).steps ELSE steps
Optimized(steps, asked, patch) ==
  IF asked /\ Applied(steps, patch).ok THEN Applied(steps, patch).steps ELSE steps

-----------------------------------------------------------------------------
(* Properties, of one skill and one patch *)

\* Whatever the model answers, the skill that is saved is of recorded steps in
\* their order, with their texts and addresses; it is not empty, and when it is
\* not the recorded one every step of it passes the checks (teach_optimize.rs:3
\* "The patch is validated locally"; "Fail-open").  A fill that holds a variable
\* is left out only where the patch merges it into a neighbour that holds one.
Same(a, b) == a.action = b.action /\ a.text = b.text /\ a.vars = b.vars /\ a.url = b.url
OptimizeOnlyTrims(steps, asked, patch) ==
  LET out == Optimized(steps, asked, patch) IN
  /\ out # <<>> /\ (out # steps => \A i \in DOMAIN out : ValidStep(out[i]))
  /\ \E at \in [DOMAIN out -> DOMAIN steps] :
       /\ \A i \in DOMAIN out : Same(out[i], steps[at[i]])
       /\ \A i, j \in DOMAIN out : i < j => at[i] < at[j]
       /\ \A i \in DOMAIN steps : steps[i].vars =>
            \/ \E k \in DOMAIN out : at[k] = i
            \/ \E m \in patch.merges : /\ m.from = i /\ m.from - m.into \in {-1, 1}
                                       /\ steps[m.into].vars

\* "never drop a fill that holds vars (secrets)" (teach_optimize.rs:256): where
\* there was one, one is left.  The code does not see to it: two neighbours
\* merged into each other are both dropped (teach_optimize.rs:280).
SecretFillsKept(steps, asked, patch) ==
  LET filled(s) == \E i \in DOMAIN s : s[i].vars IN
  filled(steps) => filled(Optimized(steps, asked, patch))

\* "Never drop the only goto; never drop a fill that holds vars"
\* (teach_optimize.rs:256).  The code keeps the second half alone: it never
\* looks whether a dropped step is the only goto.
OnlyGotoKept(steps, asked, patch) ==
  LET gotos(s) == {i \in DOMAIN s : s[i].action = "goto"} IN
  Cardinality(gotos(steps)) = 1 => gotos(Optimized(steps, asked, patch)) # {}
=============================================================================
