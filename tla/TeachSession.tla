---------------------------- MODULE TeachSession ----------------------------
(***************************************************************************)
(* One teach command, teach start or teach chat (src/src/teach.rs): what   *)
(* it takes in order, what it gives back at its end or at an early one,    *)
(* and the export server of teach start, whose handlers run side by side   *)
(* and may ask a model for help with a selector.                           *)
(*                                                                         *)
(* The profile lock is that of ProfileLock and the hub that of TeachHub;   *)
(* here they are held or not.  A value that goes out of scope gives back   *)
(* the lock and stops the hub; the staged extension is a directory, and    *)
(* stays until it is removed.                                              *)
(***************************************************************************)
EXTENDS Integers, FiniteSets

CONSTANTS Handlers,    \* requests the server handles at one time
          AssistMax,   \* ASSIST_MAX_LLM_CALLS
          MaxAsked     \* bound: questions put to the model

VARIABLES
  command,  \* [of, at, failed]: "start" or "chat", where it is, where it failed
  holds,    \* subset of {"lock", "hub", "server"}
  staged,   \* the directory: "none", "part" or "full"
  browser,  \* the child: "none", "up" or "gone"
  handler,  \* handler |-> [at, calls, slow]: what it has read
  assists,  \* [calls, slow]: assist_calls and last_assist_ms
  asked,    \* observation: questions put to the model
  answered, \* observation: questions the model has answered
  settled   \* observation: a slow answer was noted, with no request at work; then asked

vars == <<command, holds, staged, browser, handler, assists, asked, answered, settled>>

Commands == {"start", "chat", "chat without browser"}
Places   == {"checks", "lock", "hub", "stage", "spawn", "runs", "kill", "clear", "ended"}
Never    == MaxAsked + 1
Quiet    == [at |-> "idle", calls |-> 0, slow |-> FALSE]

TypeOK ==
  /\ command \in [of : Commands, at : Places, failed : Places \cup {"nowhere"}]
  /\ holds \subseteq {"lock", "hub", "server"} /\ staged \in {"none", "part", "full"}
  /\ browser \in {"none", "up", "gone"}
  /\ handler \in [Handlers -> [at : {"idle", "read", "ask", "asking", "count", "note"},
                               calls : 0..MaxAsked, slow : BOOLEAN]]
  /\ assists \in [calls : 0..MaxAsked, slow : BOOLEAN]
  /\ asked \in 0..MaxAsked /\ answered \in 0..MaxAsked /\ settled \in 0..Never

Init ==
  /\ \E c \in Commands : command = [of |-> c, at |-> "checks", failed |-> "nowhere"]
  /\ holds = {} /\ staged = "none" /\ browser = "none"
  /\ handler = [h \in Handlers |-> Quiet] /\ assists = [calls |-> 0, slow |-> FALSE]
  /\ asked = 0 /\ answered = 0 /\ settled = Never

ServerVars == <<handler, assists, asked, answered, settled>>
At(l)      == command.at = l
Goto(l)    == command' = [command EXCEPT !.at = l]
\* The command returns early: what it holds is given back, what it has staged stays.
Returns    == command' = [command EXCEPT !.at = "ended", !.failed = command.at] /\ holds' = {}

-----------------------------------------------------------------------------
(* The command (start, teach.rs:296; start_chat, teach.rs:416) *)

\* The profile, the extension and, for a browser, a display and its binary.
Checks ==
  /\ At("checks") /\ ((Goto("lock") /\ UNCHANGED holds) \/ Returns)
  /\ UNCHANGED <<staged, browser, ServerVars>>

\* acquire_teach_lock (teach.rs:544): within two seconds, or the command ends.
Lock ==
  /\ At("lock") /\ ((Goto("hub") /\ holds' = holds \cup {"lock"}) \/ Returns)
  /\ UNCHANGED <<staged, browser, ServerVars>>

\* Then the port of the server is bound, in teach start, and the hub started.
Hub ==
  /\ At("hub")
  /\ \/ Goto(IF command.of = "chat without browser" THEN "runs" ELSE "stage") /\ holds' = holds \cup {"hub"}
     \/ Returns
  /\ UNCHANGED <<staged, browser, ServerVars>>

\* stage_extension (teach.rs:558): a copy, and last its session file; teach
\* start serves exports from here.
Stage ==
  /\ At("stage")
  /\ \/ /\ staged' = "full" /\ Goto("spawn")
        /\ holds' = holds \cup (IF command.of = "start" THEN {"server"} ELSE {})
     \/ staged' \in {"none", "part"} /\ Returns
  /\ UNCHANGED <<browser, ServerVars>>

\* The browser (teach_browser_command and run_browser, teach.rs:600, 661): if
\* it cannot be started, teach start goes on to clear up and teach chat returns.
MutantSpawn ==
  /\ At("spawn")
  /\ \/ browser' = "up" /\ Goto("runs") /\ UNCHANGED holds
     \/ Returns /\ UNCHANGED browser
  /\ UNCHANGED <<staged, ServerVars>>
Spawn ==
  /\ At("spawn")
  /\ \/ browser' = "up" /\ Goto("runs") /\ UNCHANGED holds
     \/ command.of = "start" /\ Goto("clear") /\ UNCHANGED <<browser, holds>>
     \/ command.of = "chat" /\ Returns /\ UNCHANGED browser
  /\ UNCHANGED <<staged, ServerVars>>

\* The user closes the browser.
Closes ==
  /\ browser = "up" /\ browser' = "gone" /\ UNCHANGED <<command, holds, staged, ServerVars>>

\* teach start ends with its browser, or is interrupted; teach chat when its
\* user leaves it, whatever has become of the browser.
Runs ==
  /\ At("runs")
  /\ Goto(IF browser = "none" \/ (command.of = "start" /\ browser = "gone") THEN "clear" ELSE "kill")
  /\ UNCHANGED <<holds, staged, browser, ServerVars>>
MutantKill == At("kill") /\ Goto("clear") /\ UNCHANGED <<holds, staged, browser, ServerVars>>
Kill ==
  /\ At("kill") /\ browser' = "gone" /\ Goto("clear") /\ UNCHANGED <<holds, staged, ServerVars>>

\* The server is told to stop, the directory removed, and the rest given back;
\* requests that are being handled end with the process.
Clear ==
  /\ At("clear") /\ staged' = "none" /\ holds' = {} /\ Goto("ended")
  /\ handler' = [h \in Handlers |-> Quiet]
  /\ UNCHANGED <<browser, assists, asked, answered, settled>>

-----------------------------------------------------------------------------
(* A request (handle_http and handle_assist_body, teach.rs:778, 910).  Only  *)
(* one for help with a selector changes anything here.                       *)

\* What becomes of a request, in the order it is looked at; the token last.
Requests ==
  [method : {"POST", "GET", "OPTIONS"}, path : {"/export", "/assist", "/health", "other"},
   head : {"fits", "over"}, length : {"none", "fits", "over"}, sent : {"fits", "over"},
   token : BOOLEAN, parses : BOOLEAN, unstable : BOOLEAN]
Reply(r) ==
  CASE r.head = "over"                                           -> "413"
    [] r.method = "OPTIONS"                                      -> "204"
    [] r.method = "GET" /\ r.path = "/health"                    -> "200"
    [] r.method # "POST" \/ r.path \notin {"/export", "/assist"} -> "404"
    [] r.length # "fits"                                         -> "400"
    [] r.sent = "over"                                           -> "413"
    [] ~r.token                                                  -> "401"
    [] ~r.parses                                                 -> "400"
    [] OTHER                                                     -> r.path

\* Help is asked of the model for a selector that looks unstable.
Helped == {r \in Requests : Reply(r) = "/assist" /\ r.unstable}

Step(h, from, to) == handler[h].at = from /\ handler' = [handler EXCEPT ![h].at = to]
Same              == UNCHANGED <<command, holds, staged, browser>>

\* The count is read, then, under a lock of its own, the time of the last answer.
ReadCalls(h) ==
  /\ "server" \in holds /\ handler[h].at = "idle" /\ Helped # {}
  /\ handler' = [handler EXCEPT ![h] = [@ EXCEPT !.at = "read", !.calls = assists.calls]]
  /\ Same /\ UNCHANGED <<assists, asked, answered, settled>>
ReadLast(h) ==
  /\ handler[h].at = "read" /\ handler' = [handler EXCEPT ![h].at = "ask", ![h].slow = assists.slow]
  /\ Same /\ UNCHANGED <<assists, asked, answered, settled>>
Cheap(h) == handler[h].calls < AssistMax /\ (handler[h].calls = 0 \/ ~handler[h].slow)

\* assist_selectors (teach_optimize.rs:307): the model is asked, and its error
\* is no use of it.
Idles(h)  == handler' = [handler EXCEPT ![h] = Quiet]
Quietens(h, slow, calls) ==
  settled' = IF settled = Never /\ slow /\ calls > 0 /\ \A g \in Handlers \ {h} : handler[g].at = "idle"
             THEN asked ELSE settled
Ask(h) ==
  /\ handler[h].at = "ask"
  /\ IF Cheap(h) THEN asked < MaxAsked /\ asked' = asked + 1 /\ Step(h, "ask", "asking") /\ UNCHANGED settled
     ELSE Idles(h) /\ UNCHANGED asked /\ Quietens(h, assists.slow, assists.calls)
  /\ Same /\ UNCHANGED <<assists, answered>>
Answers(h) ==
  /\ Step(h, "asking", "count") /\ answered' = answered + 1
  /\ Same /\ UNCHANGED <<assists, asked, settled>>
Errs(h) ==
  /\ handler[h].at = "asking" /\ Idles(h) /\ Quietens(h, assists.slow, assists.calls)
  /\ Same /\ UNCHANGED <<assists, asked, answered>>

\* An answer is counted, and how long it took is noted.
MutantCount(h) == Step(h, "count", "note") /\ Same /\ UNCHANGED <<assists, asked, answered, settled>>
Count(h) ==
  /\ Step(h, "count", "note") /\ assists' = [assists EXCEPT !.calls = @ + 1]
  /\ Same /\ UNCHANGED <<asked, answered, settled>>
MutantNote(h, slow) ==
  /\ handler[h].at = "note" /\ Idles(h) /\ Quietens(h, slow, assists.calls)
  /\ Same /\ UNCHANGED <<assists, asked, answered>>
Note(h, slow) ==
  /\ handler[h].at = "note" /\ Idles(h)
  /\ assists' = [assists EXCEPT !.slow = slow] /\ Quietens(h, slow, assists.calls)
  /\ Same /\ UNCHANGED <<asked, answered>>

Next ==
  \/ Checks \/ Lock \/ Hub \/ Stage \/ Spawn \/ Closes \/ Runs \/ Kill \/ Clear
  \/ \E h \in Handlers : \/ ReadCalls(h) \/ ReadLast(h) \/ Ask(h) \/ Answers(h) \/ Errs(h) \/ Count(h)
                         \/ \E slow \in BOOLEAN : Note(h, slow)

Spec == Init /\ [][Next]_vars

-----------------------------------------------------------------------------
(* Properties *)

\* No browser runs on the profile without the lock and a hub for it, and when
\* the command has ended nothing of it is left, but for the directory of a
\* staging or, in teach chat, of a browser that failed (teach.rs:393, 531).
BrowserUnderLock ==
  /\ browser = "up" => {"lock", "hub"} \subseteq holds /\ staged = "full"
  /\ At("ended") => /\ browser # "up" /\ holds = {}
                    /\ staged # "none" => command.failed = "stage"
                                          \/ (command.failed = "spawn" /\ command.of = "chat")

\* Of the questions the model answers, no more than two and one for each
\* request handled beside another are put (teach.rs:930), and none once a slow
\* answer has been noted with nothing else at work.
AssistBounded ==
  /\ answered < AssistMax + Cardinality(Handlers)
  /\ settled # Never => asked = settled

\* "Mid-record assist is capped at **2** LLM calls per teach session"
\* (teach_optimize.rs:8).  The code does not keep it: what is put is counted
\* when the answer is noted, and a call that fails is not counted.
AssistCapped == asked <= AssistMax
=============================================================================
