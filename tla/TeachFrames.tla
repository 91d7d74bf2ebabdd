---------------------------- MODULE TeachFrames ----------------------------
(***************************************************************************)
(* How the hub cuts what a connection sends into messages                  *)
(* (src/src/teach_hub.rs, handle_conn, handle_jsonl, read_message), and    *)
(* which it answers.  Bytes are counted, not looked at: what is sent is a  *)
(* sequence of messages by their lengths, and it arrives in pieces of any  *)
(* size up to that of the hub's reads.                                     *)
(*                                                                         *)
(* A message is [len, is]: "ok", "bad" when parse_envelope refuses it,     *)
(* "control" for a ping or a pong, "close", "fragment" for a frame that is *)
(* not final, or "garbled" for an unknown opcode or text that is no UTF-8. *)
(***************************************************************************)
EXTENDS Integers, Sequences

CONSTANTS MaxMessage,   \* MAX_MESSAGE_BYTES
          Slack,        \* 16, for the header of a frame
          ReadSize,     \* 2048 for frames, 1024 for the first bytes of lines
          Short, Mid,   \* 125 and 65535: the lengths two bytes, and four, can say
          Messages, MaxMessages

VARIABLES
  kind,     \* "frames" or "lines"
  sent,     \* what the client sends, in order
  buffered, \* bytes read and not yet taken
  next,     \* the message the buffer begins with
  open,     \* the hub reads on
  answers   \* [of, ok]: what was answered to which message, in order

vars == <<kind, sent, buffered, next, open, answers>>

\* What says the length of a frame; the mask of a client's frame comes after it
\* (parse_frame, teach_hub.rs:1962).  A line ends with one byte.
Header(n) == IF n <= Short THEN 2 ELSE IF n <= Mid THEN 4 ELSE 10
Size(i)   == IF kind = "frames" THEN Header(sent[i].len) + 4 + sent[i].len ELSE sent[i].len + 1
\* What the first n messages take.
Bytes(n)  == LET upTo[i \in 0..Len(sent)] == IF i = 0 THEN 0 ELSE upTo[i - 1] + Size(i) IN upTo[n]
ToCome    == Bytes(Len(sent)) - Bytes(next - 1) - buffered

TypeOK ==
  /\ kind \in {"frames", "lines"} /\ sent \in UNION {[1..n -> Messages] : n \in 1..MaxMessages}
  /\ buffered \in Nat /\ ToCome >= 0 /\ next \in 1..(Len(sent) + 1) /\ open \in BOOLEAN
  /\ \A i \in DOMAIN answers : answers[i].of \in DOMAIN sent /\ answers[i].ok \in BOOLEAN

\* handle_conn (teach_hub.rs:884) has seen an upgrade, and may have read on,
\* or the first bytes of a line, of which it wants two.
Lines == {m \in Messages : m.is \in {"ok", "bad"}}
Init ==
  /\ kind \in {"frames", "lines"} /\ next = 1 /\ open = TRUE /\ answers = <<>>
  /\ sent \in UNION {[1..n -> IF kind = "frames" THEN Messages ELSE Lines] : n \in 1..MaxMessages}
  /\ buffered \in {n \in (IF kind = "frames" THEN 0 ELSE 2)..ReadSize : n <= Bytes(Len(sent))}

Answer(i, ok) == answers' = Append(answers, [of |-> i, ok |-> ok])
Takes(i)      == next' = i + 1 /\ buffered' = buffered - Size(i)
Whole         == next <= Len(sent) /\ buffered >= Size(next)

-----------------------------------------------------------------------------
(* Frames (read_message, parse_frame, handle_websocket) *)

\* A fragment and a length over the limit are refused by the header alone.
HeaderRefused == /\ next <= Len(sent) /\ buffered >= Header(sent[next].len)
                 /\ sent[next].is = "fragment" \/ sent[next].len > MaxMessage
TakeFrame ==
  /\ kind = "frames" /\ open /\ Whole /\ ~HeaderRefused
  /\ CASE sent[next].is \in {"ok", "bad"} -> Answer(next, sent[next].is = "ok") /\ UNCHANGED open
       [] sent[next].is = "control"       -> UNCHANGED <<answers, open>>
       [] OTHER                           -> open' = FALSE /\ UNCHANGED answers
  /\ Takes(next) /\ UNCHANGED <<kind, sent>>
BreakFrame ==
  /\ kind = "frames" /\ open /\ HeaderRefused
  /\ open' = FALSE /\ UNCHANGED <<kind, sent, buffered, next, answers>>

\* The next read: the buffer may hold no more than the longest frame.
MutantLimit == MaxMessage
Limit == MaxMessage + Slack
Read(n) ==
  /\ kind = "frames" /\ open /\ ~Whole /\ ~HeaderRefused
  /\ n <= ToCome /\ buffered' = buffered + n
  /\ open' = (buffered + n <= Limit)
  /\ UNCHANGED <<kind, sent, next, answers>>

-----------------------------------------------------------------------------
(* Lines (handle_jsonl, teach_hub.rs:915) *)

\* The lines that are whole are taken, an empty one without an answer.
TakeLine ==
  /\ kind = "lines" /\ open /\ Whole
  /\ IF sent[next].len = 0 THEN UNCHANGED answers
     ELSE Answer(next, sent[next].is = "ok" /\ sent[next].len <= MaxMessage)
  /\ Takes(next) /\ UNCHANGED <<kind, sent, open>>
\* Then the rest of the next one is read; one that is too long with its end is
\* answered and dropped.
MutantReadLine ==
  /\ kind = "lines" /\ open /\ ~Whole /\ next <= Len(sent)
  /\ IF Size(next) > MaxMessage
     THEN next' = Len(sent) + 1 /\ buffered' = 0 /\ Answer(next, FALSE)
     ELSE buffered' = Size(next) /\ UNCHANGED <<next, answers>>
  /\ UNCHANGED <<kind, sent, open>>
ReadLine ==
  /\ kind = "lines" /\ open /\ ~Whole /\ next <= Len(sent)
  /\ IF Size(next) > MaxMessage
     THEN next' = next + 1 /\ buffered' = 0 /\ Answer(next, FALSE)
     ELSE buffered' = Size(next) /\ UNCHANGED <<next, answers>>
  /\ UNCHANGED <<kind, sent, open>>

Next == TakeFrame \/ BreakFrame \/ (\E n \in 1..ReadSize : Read(n)) \/ TakeLine \/ ReadLine
Spec == Init /\ [][Next]_vars

-----------------------------------------------------------------------------
(* Properties *)

\* However the bytes arrive, messages are answered one by one in their order,
\* none is cut in two or runs into the next, and the good ones are found good
\* while they leave the reader room: a line room for its end, a frame that is
\* followed by others room for one read more (teach_hub.rs:973, 1947).
Fits(i) == IF kind = "lines" THEN Size(i) <= MaxMessage
           ELSE sent[i].len <= MaxMessage /\ (i = Len(sent) \/ Size(i) + ReadSize <= Limit + 1)
MessagesHeard ==
  /\ \A i \in DOMAIN answers : /\ answers[i].ok => sent[answers[i].of].is = "ok"
                               /\ sent[answers[i].of].is = "ok" /\ Fits(answers[i].of) => answers[i].ok
                               /\ i > 1 => answers[i - 1].of < answers[i].of
  /\ \A i \in 1..(next - 1) : sent[i].is \in {"ok", "bad"} /\ (kind = "frames" \/ sent[i].len > 0) =>
                                \E a \in DOMAIN answers : answers[a].of = i
  /\ ~open => \E i \in DOMAIN sent : sent[i].is \in {"close", "fragment", "garbled"} \/ ~Fits(i)
=============================================================================
