------------------------------ MODULE MCRecords ------------------------------
(***************************************************************************)
(* Records on small instances, which the configuration names, and the      *)
(* inputs of the pure parts: recordings, drafts, patches of a skill,       *)
(* cookie files and urls.                                                  *)
(***************************************************************************)
EXTENDS Records, TLC

-----------------------------------------------------------------------------
(* The instances *)

Sequents(S, n) == UNION {[1..k -> S] : k \in 0..n}

SkillFile    == <<"skill.json">>
ManifestFile == <<"manifest.json">>
File(p)      == [path |-> p, kind |-> "file"]
Plain        == {File(SkillFile), File(<<"a">>)}
Manifest(of, runner, statuses) ==
  [version |-> "v1", kind |-> of, runner |-> runner, secrets |-> {}, statuses |-> statuses]
Directory(files, manifest) == [entries |-> files, manifest |-> manifest, secret |-> FALSE]
Status(blank) == [id |-> "shipped", blank |-> blank]
MCDirs ==
  { Directory(Plain, Nil),
    Directory(Plain \cup {File(<<"b">>)}, Nil),                              \* as many as the limit
    Directory(Plain \cup {File(ManifestFile)},
              Manifest("skill_steps", Nil, <<Status(FALSE), Status(TRUE)>>)),
    Directory({File(SkillFile), File(<<"run.py">>), File(ManifestFile), File(<<"sub", "cookies.json">>)},
              Manifest("python_runner", <<"run.py">>, <<Status(FALSE)>>)),
    Directory({File(SkillFile), File(<<".tmp-run.py">>), File(ManifestFile)},
              Manifest("python_runner", <<".tmp-run.py">>, Nil)),           \* its runner is left out
    Directory(Plain \cup {[path |-> <<"b">>, kind |-> "link"]}, Nil) }

MCSidecars == <<"README.md">>
Pieces   == {"pass", "word", "=", "hunter2", "a", " "}
Password == <<"pass", "word", "=">>
Quoted   == <<"quote", "pass", "word", "quote">>

MCAnswers  == Sequents(Pieces, 3) \cup
              {<<"a", " ">> \o Password \o <<"hunter2">> \o t : t \in Sequents(Pieces \cup {"quote"}, 2)} \cup
              {Quoted \o <<":">> \o t : t \in Sequents({" ", "quote", "hunter2"}, 3)}
MCThoughts == {<<>>, <<"pass", "word">>, Password \o <<"hunter2", " ", "a">>}

MCMessages == [len : {0, 5, 17, 20, 21}, is : {"ok"}] \cup
              [len : {3}, is : {"bad", "control", "close", "fragment", "garbled"}]

-----------------------------------------------------------------------------
(* Recordings, drafts, cookie files and urls *)

Item(a) ==
  [action |-> a, source |-> "none", selector |-> "ok", text |-> "ok", value |-> "none", url |-> "none",
   dx |-> 0, dy |-> 0, ms |-> 0, point |-> FALSE, observed |-> FALSE, reason |-> "none"]

Event == [kind |-> "other", selector |-> "none", url |-> "none", value |-> "", secret |-> FALSE, base |-> "P"]
Events ==
  {Event, [Event EXCEPT !.kind = "noise"]}
  \cup {[Event EXCEPT !.kind = "click", !.selector = s] : s \in {"none", "a", "b"}}
  \cup {[Event EXCEPT !.kind = "goto", !.url = u] : u \in {"bad", "u"}}
  \cup {[Event EXCEPT !.kind = "fill", !.selector = s, !.value = v] : s \in {"a", "b"}, v \in {"x", "key"}}
  \cup {[Event EXCEPT !.kind = "fill", !.selector = "b", !.value = "pw", !.secret = TRUE]}
Recordings == Sequents(Events, 3) \X BOOLEAN

Draftable(a) == Item(a) @@ [raw |-> FALSE, secret |-> FALSE, name |-> "V"]
Bare(a) == [Draftable(a) EXCEPT !.selector = "none", !.text = "none"]
Drafted ==
  {Bare(a) : a \in {"none", "done", "eval"}} \cup {[Bare("click") EXCEPT !.raw = TRUE]}
  \cup {[Bare("click") EXCEPT !.selector = s, !.point = b, !.observed = b, !.source = u] :
           s \in {"none", "ok", "script"}, b \in BOOLEAN, u \in {"none", "human"}}
  \cup {[Draftable(a) EXCEPT !.text = t, !.secret = b, !.source = u] :
           a \in {"fill", "type"}, t \in {"none", "ok", "script", "dump", "key", "redacted", "var", "oddvar"},
           b \in BOOLEAN, u \in {"llm", "human"}}
  \cup {[Draftable("fill") EXCEPT !.text = "none", !.value = t] : t \in {"ok", "dump", "key"}}
  \cup {[Draftable("select") EXCEPT !.text = "none", !.value = t, !.secret = b, !.source = u] :
           t \in {"none", "ok", "dump", "key"}, b \in BOOLEAN, u \in {"llm", "human"}}
  \cup {[Bare("wait") EXCEPT !.ms = n] : n \in {0, 2, 9}}
  \cup {[Bare("goto") EXCEPT !.url = u] : u \in {"none", "ok", "bad"}}
  \cup {[Bare("scroll") EXCEPT !.dx = n] : n \in {0, 1, 5}}
  \cup {[Bare("press") EXCEPT !.source = u] : u \in {"llm", "human"}}

Step(a) == [action |-> a, selector |-> "s", selectors |-> <<>>, text |-> "none", vars |-> FALSE,
            url |-> "none", name |-> "none"]
Steps == {[Step("goto") EXCEPT !.url = "u", !.selector = "none"], Step("click"),
          [Step("fill") EXCEPT !.text = "x"], [Step("fill") EXCEPT !.text = "v", !.vars = TRUE]}
Skills == (Sequents(Steps, 2) \ {<<>>})
          \cup {<<[Step("goto") EXCEPT !.url = "u", !.selector = "none"], a, b>> : a, b \in Steps}
Patch == [json |-> TRUE, version |-> 1, selectors |-> <<>>, names |-> <<>>, drops |-> {}, merges |-> {}]
Merges == {m \in SUBSET {[from |-> i, into |-> j] : i, j \in 1..3} : Cardinality(m) <= 2}
Patches ==
  {[Patch EXCEPT !.json = FALSE], [Patch EXCEPT !.version = 2]}
  \cup {[Patch EXCEPT !.drops = d, !.merges = m] : d \in SUBSET (1..3), m \in Merges}
  \cup {[Patch EXCEPT !.names = <<[index |-> i, name |-> n]>>] : i \in 1..3, n \in {"secret", "email"}}
  \cup {[Patch EXCEPT !.selectors = <<[index |-> i, selector |-> s, selectors |-> c]>>, !.drops = d] :
           i \in 1..3, s \in {"none", "bad", "t"}, c \in {<<>>, <<"bad", "c", "c">>}, d \in {{}, {1}}}

Sane    == [object |-> TRUE, named |-> TRUE, valued |-> TRUE, placed |-> TRUE,
            expires |-> [is |-> "none", at |-> 0]]
Expires == [is : {"none", "null", "text"}, at : {0}] \cup [is : {"number"}, at : {-1, 0, 5, 20}]
Cookies == {[Sane EXCEPT !.expires = e] : e \in Expires}
           \cup {[Sane EXCEPT ![f] = FALSE] : f \in {"object", "named", "valued", "placed"}}
Lists   == Sequents(Cookies, 2)
Document == [shape |-> "empty", items |-> <<>>, cookies |-> Cookie!Absent, origins |-> Cookie!Absent]
Documents ==
  {[Document EXCEPT !.shape = s] : s \in {"empty", "garbled", "scalar"}}
  \cup {[Document EXCEPT !.shape = "array", !.items = l] : l \in Lists}
  \cup {[Document EXCEPT !.shape = "object", !.cookies = c, !.origins = o] :
           c \in {Cookie!Absent, Cookie!Other} \cup {Cookie!List(l) : l \in Lists},
           o \in {Cookie!Absent, Cookie!Other} \cup
                 {Cookie!List(l) : l \in {<<>>, <<"object">>, <<"scalar">>}}}

MCInputs == [record   |-> Recordings,
             draft    |-> Sequents(Drafted, 2) \ {<<>>},
             optimize |-> Skills \X BOOLEAN \X Patches,
             cookie   |-> Documents \X Cookie!Formats,
             url      |-> Sequents({"v1", "chat", "completions", "models", "x"}, 5)]
=============================================================================
