---------------------------- MODULE TeachStream ----------------------------
(***************************************************************************)
(* How the text of a model reaches the desktop while it is being generated *)
(* (src/src/teach_events.rs): it arrives in chunks cut anywhere, a         *)
(* StreamRedactor shows what is safe of it, and thinking ends where the    *)
(* answer begins.                                                          *)
(*                                                                         *)
(* A text is a sequence of pieces: the two halves of a label ("pass",      *)
(* "word"), the "=" after it, a secret, a word, a blank, a quote, a colon. *)
(* The labels of redact_for_log and its quoted JSON keys are one each.     *)
(***************************************************************************)
EXTENDS Naturals, Sequences

CONSTANTS AnswerTexts, ThinkingTexts   \* sequences of pieces

Label   == <<"pass", "word", "=">>
Starter == <<"pass", "word">>           \* one of SECRET_STARTERS
Key     == <<"quote", "pass", "word", "quote">>   \* one of SECRET_LOG_KEYS, quoted
Stops   == {" ", "quote"}               \* what ends the value of a label

VARIABLES
  text,      \* kind |-> what the model says in all
  fed,       \* kind |-> pieces that have arrived
  emitted,   \* kind |-> StreamRedactor::emitted
  shown,     \* kind |-> the deltas sent, in one (emit_kind redacts each once more,
             \* and finds the marks)
  closed,    \* thinking_closed
  sent,      \* kinds of the events sent, without repetition
  cancel, end

vars  == <<text, fed, emitted, shown, closed, sent, cancel, end>>
Kinds == {"answer", "thinking"}

\* redact_json_key (teach_protocol.rs:700), from the left: the value of a quoted
\* key becomes a mark, in quotes where it has them.  Where they are not closed the
\* search goes on behind the key, and what follows it is written a second time;
\* so are the blanks behind a key that has no colon.  A text without a key stays.
KeyAt(t, i) == i + 3 <= Len(t) /\ SubSeq(t, i, i + 3) = Key
Plain(t)    == \A i \in DOMAIN t : ~KeyAt(t, i)
ValuesMarked(t) ==
  LET stop == Len(t) + 1
      first(S)    == CHOOSE n \in S : \A m \in S : n <= m
      inked(i)    == first({j \in i..Len(t) : t[j] # " "} \cup {stop})
      until(i, x) == first({j \in i..Len(t) : t[j] = x} \cup {stop})
      is(i, x)    == i < stop /\ t[i] = x
      from[i \in 1..stop] ==
        LET keys  == {j \in i..Len(t) : KeyAt(t, j)}
            after == first(keys) + 4
            colon == inked(after)
            value == inked(colon + 1)
            close == until(value + 1, "quote")
        IN CASE keys = {} -> SubSeq(t, i, Len(t))
             [] keys # {} /\ ~is(colon, ":") -> SubSeq(t, i, colon - 1) \o from[after]
             [] keys # {} /\ is(colon, ":") /\ is(value, "quote") ->
                  SubSeq(t, i, value - 1) \o <<"quote", "[REDACTED]", "quote">>
                    \o from[IF close < stop THEN close + 1 ELSE after]
             [] OTHER -> SubSeq(t, i, value - 1) \o <<"[REDACTED]">> \o from[until(value, " ")]
  IN from[1]
Keyed(t) == IF Plain(t) THEN t ELSE ValuesMarked(t)

\* redact_prefix_ci (teach_protocol.rs:765): behind every label a mark stands for
\* the value, which runs to the next blank or quote.
EndsLabel(t, i) == i >= 3 /\ SubSeq(t, i - 2, i) = Label
InValue(t, i)   == \E j \in 3..(i - 1) : EndsLabel(t, j) /\ \A k \in (j + 1)..i : t[k] \notin Stops
Labelled(t) ==
  LET upTo[i \in 0..Len(t)] ==
        IF i = 0 THEN <<>>
        ELSE upTo[i - 1] \o (IF InValue(t, i) THEN <<>>
                             ELSE IF EndsLabel(t, i) THEN <<t[i], "[REDACTED]">> ELSE <<t[i]>>)
  IN  upTo[Len(t)]

\* redact_for_log (teach_protocol.rs:660) looks for both four times over.  Of a
\* label it then finds its own mark, behind a bare key the blanks it has written.
Redacted(t) == Labelled(Keyed(Keyed(Keyed(Keyed(t)))))

\* suffix_secret_hold (teach_events.rs:748): the longest end of the text that
\* may be the beginning of a label.
Hold(t) ==
  LET ends == {n \in 1..Len(Starter) :
                 /\ n <= Len(t)
                 /\ SubSeq(t, Len(t) - n + 1, Len(t)) = SubSeq(Starter, 1, n)
                 /\ n = Len(t) \/ t[Len(t) - n] \in Stops \cup {"=", ":"}}
  IN IF ends = {} THEN 0 ELSE CHOOSE n \in ends : \A m \in ends : m <= n

\* safe_redacted_display (teach_events.rs:804).
Display(t, flushed) ==
  IF flushed \/ Redacted(t) # t THEN Redacted(t) ELSE SubSeq(t, 1, Len(t) - Hold(t))

\* take_increment (teach_events.rs:709): what the display has gained, nothing
\* when it does not begin with what was shown.
Begins(s, t) == Len(s) <= Len(t) /\ SubSeq(t, 1, Len(s)) = s
MutantIncrement(seen, display) == display
Increment(seen, display) ==
  IF Begins(seen, display) THEN SubSeq(display, Len(seen) + 1, Len(display))
  ELSE IF seen = <<>> THEN display ELSE <<>>

TypeOK ==
  /\ text.answer \in AnswerTexts /\ text.thinking \in ThinkingTexts
  /\ \A k \in Kinds : fed[k] \in 0..Len(text[k])
  /\ closed \in BOOLEAN /\ cancel \in BOOLEAN
  /\ end \in {"streams", "ok", "cancelled"}

Init ==
  /\ text \in [answer : AnswerTexts, thinking : ThinkingTexts]
  /\ fed = [k \in Kinds |-> 0]
  /\ emitted = [k \in Kinds |-> <<>>] /\ shown = [k \in Kinds |-> <<>>]
  /\ closed = FALSE /\ sent = <<>> /\ cancel = FALSE /\ end = "streams"

Note(s, k) == IF s # <<>> /\ s[Len(s)] = k THEN s ELSE Append(s, k)

\* What the redactors of the given kinds show of n pieces each.
Shows(n, flushed) ==
  LET display == [k \in Kinds |->
                    IF k \in flushed \/ n[k] # fed[k]
                      THEN Display(SubSeq(text[k], 1, n[k]), k \in flushed) ELSE emitted[k]]
      delta   == [k \in Kinds |-> IF display[k] = emitted[k] THEN <<>>
                                  ELSE Increment(emitted[k], display[k])]
      think   == IF delta.thinking # <<>> THEN Note(sent, "thinking") ELSE sent
      done    == IF "thinking" \in flushed /\ ~closed /\ n.thinking > 0
                   THEN Append(think, "thinking done") ELSE think
  IN /\ fed' = n /\ emitted' = display
     /\ shown' = [k \in Kinds |-> shown[k] \o delta[k]]
     /\ sent' = IF delta.answer # <<>> THEN Note(done, "answer") ELSE done

\* A chunk of reasoning (teach_events.rs:1187): dropped once the answer runs.
Reasoning(n) ==
  /\ end = "streams" /\ ~closed /\ fed.thinking + n <= Len(text.thinking)
  /\ Shows([fed EXCEPT !.thinking = @ + n], {})
  /\ UNCHANGED <<text, closed, cancel, end>>

\* A chunk of the answer (teach_events.rs:1205): the first one closes thinking.
Content(n) ==
  /\ end = "streams" /\ ~cancel /\ fed.answer + n <= Len(text.answer)
  /\ Shows([fed EXCEPT !.answer = @ + n], IF closed THEN {} ELSE {"thinking"})
  /\ closed' = TRUE
  /\ UNCHANGED <<text, cancel, end>>

Cancel ==
  /\ end = "streams" /\ ~cancel /\ cancel' = TRUE
  /\ UNCHANGED <<text, fed, emitted, shown, closed, sent, end>>

\* The end of the stream (teach_events.rs:1218): what is held is released.
Finish ==
  /\ end = "streams" /\ ~cancel /\ fed.answer = Len(text.answer)
  /\ closed \/ fed.thinking = Len(text.thinking)
  /\ Shows(fed, IF closed THEN {"answer"} ELSE Kinds)
  /\ closed' = TRUE /\ end' = "ok"
  /\ UNCHANGED <<text, cancel>>

\* A cancelled stream: one of a mock stops where it is, a live one releases.
Cancelled ==
  /\ end = "streams" /\ cancel
  /\ end' = "cancelled"
  /\ \/ Shows(fed, IF closed THEN {"answer"} ELSE Kinds) /\ closed' = TRUE
     \/ UNCHANGED <<fed, emitted, shown, sent, closed>>
  /\ UNCHANGED <<text, cancel>>

Next ==
  \/ \E n \in 1..3 : Reasoning(n) \/ Content(n)
  \/ Cancel \/ Finish \/ Cancelled

Spec == Init /\ [][Next]_vars

-----------------------------------------------------------------------------
(* Properties *)

\* However a text without a quoted key is cut into chunks, the deltas put
\* together are always the beginning of the redacted text, all of it in the end,
\* and thinking is done before the answer begins (StreamRedactor,
\* stream_live_llm).
StreamIsRedacted ==
  /\ \A k \in Kinds : Plain(text[k]) => Begins(shown[k], Redacted(text[k]))
  /\ end = "ok" /\ Plain(text.answer) => shown.answer = Redacted(text.answer)
  /\ \A i, j \in DOMAIN sent : sent[i] = "answer" /\ i < j => sent[j] = "answer"

\* "matched patterns are replaced before any increment is returned"
\* (teach_events.rs:664): no word is shown that is not in the redacted text.
NothingUnchecked ==
  \A k \in Kinds : \A i \in DOMAIN shown[k] : shown[k][i] # " " =>
    \E j \in DOMAIN Redacted(text[k]) : Redacted(text[k])[j] = shown[k][i]
=============================================================================
