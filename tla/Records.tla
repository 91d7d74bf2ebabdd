------------------------------- MODULE Records -------------------------------
(***************************************************************************)
(* The parts that keep, convert or pass on what others rely on: releases   *)
(* and exports of skills, the commands about jobs, the streams and the     *)
(* connections of a teach session, profiles, and the choice of a model.    *)
(* They share no state, so a behaviour is one of one part, chosen at its   *)
(* start; the others stay as they begin.  Of a pure part, which converts a *)
(* recording, a draft, a patch, a cookie file or a url, there is only an   *)
(* input, taken from Inputs.                                               *)
(***************************************************************************)
EXTENDS Integers, Sequences, FiniteSets

CONSTANT Nil     \* a model value: no package, no base, never
CONSTANT Inputs  \* the name of a pure part |-> what it may be given
VARIABLES part, input

-----------------------------------------------------------------------------
(* Packages, releases, and the export of a site skill *)

CONSTANTS NotPacked, SecretLike, Dotted, Python, Illegal, MaxFiles, Dirs, Versions, Calls,
          MaxEdits, MaxCalls, MaxCrashes
VARIABLES dir, catalog, tar, call, budget, torn
releaseVars == <<dir, catalog, tar, call, budget, torn>>

Manifests ==
  [version : STRING, kind : STRING, runner : {Nil} \cup Seq(STRING), secrets : SUBSET STRING,
   statuses : {Nil} \cup Seq([id : STRING, blank : BOOLEAN])]

Releases == INSTANCE SkillReleases WITH
  Skipped <- NotPacked,
  NoPath <- Nil, NoStatuses <- Nil, NoManifest <- Nil, NoPkg <- Nil, NoCall <- Nil

CONSTANTS Procs, Sidecars, MaxRuns, MaxFails, MaxCuts
VARIABLES dest, proc, staging, bak, lost, attempts, fails, exportCuts, before, alone, ended
exportVars == <<dest, proc, staging, bak, lost, attempts, fails, exportCuts, before, alone, ended>>

Export == INSTANCE SkillExport WITH runs <- attempts, cuts <- exportCuts

-----------------------------------------------------------------------------
(* Retries, parks, and the clicks of the desktop *)

CONSTANTS Callers, Retried, Window, Interval, MaxTime
VARIABLES now, interval, stamp, cooled, retryJob, op, calls, sentAt, tooSoon, hasty, clash
retryVars == <<now, interval, stamp, cooled, retryJob, op, calls, sentAt, tooSoon, hasty, clash>>

Retry == INSTANCE FleetRetry WITH Profiles <- Retried, Never <- Nil, job <- retryJob

CONSTANT Jobs
VARIABLES file, parker, parkJob, parks, spoilt, parkCuts
parkVars == <<file, parker, parkJob, parks, spoilt, parkCuts>>

Park == INSTANCE FleetPark WITH writer <- parker, job <- parkJob, cuts <- parkCuts

CONSTANTS Digests, MaxClicks, MaxChanges
VARIABLES shelf, acked, jobs, desk, marks, request, clicks, edits
clickVars == <<shelf, acked, jobs, desk, marks, request, clicks, edits>>

Clicks == INSTANCE FleetClicks WITH
  None <- Nil, MaxEdits <- MaxChanges, catalog <- shelf, call <- request

-----------------------------------------------------------------------------
(* What streams out of a turn of the teach chat *)

CONSTANTS AnswerTexts, ThinkingTexts
VARIABLES text, fed, emitted, shown, closed, said, cancel, end
streamVars == <<text, fed, emitted, shown, closed, said, cancel, end>>

Stream == INSTANCE TeachStream WITH sent <- said

-----------------------------------------------------------------------------
(* The connections of the teach hub, and the messages on one *)

CONSTANTS Extensions, Workers, Origins, MaxFailures, MaxConns, MaxEvents
VARIABLES pairing, hubSlot, gen, outbound, conn, held, inbox, events, session, guesses
pairingVars == <<pairing, hubSlot, gen, outbound, conn, held, inbox, events, session, guesses>>

Pairing == INSTANCE TeachPairing WITH slot <- hubSlot

CONSTANTS Messages, MaxMessage, Slack, ReadSize, Short, Mid, MaxMessages
VARIABLES kind, sent, buffered, next, reads, answers
frameVars == <<kind, sent, buffered, next, reads, answers>>

Frames == INSTANCE TeachFrames WITH open <- reads

-----------------------------------------------------------------------------
(* The command of a session, and the desktop that starts it *)

CONSTANTS Handlers, AssistMax, MaxAsked
VARIABLES command, holds, staged, browser, handler, assists, asked, answered, settled
sessionVars == <<command, holds, staged, browser, handler, assists, asked, answered, settled>>

Session == INSTANCE TeachSession

CONSTANTS Profiles, MaxKids, MaxLines, MaxHistory
VARIABLES teachSlot, kid, pipe, starting, history, writing, teachOverlap
desktopVars == <<teachSlot, kid, pipe, starting, history, writing, teachOverlap>>

Desktop == INSTANCE DesktopTeach WITH slot <- teachSlot, overlap <- teachOverlap

-----------------------------------------------------------------------------
(* Profiles and models *)

CONSTANT MaxImports
VARIABLES disk, importer, imports, cuts, made, mixed
profileVars == <<disk, importer, imports, cuts, made, mixed>>

Profile == INSTANCE ProfileStore WITH proc <- importer

CONSTANTS BaseUrls, Models, Default
VARIABLES config, cache, writer, listed, tui, served, failed
choiceVars == <<config, cache, writer, listed, tui, served, failed>>

Choice == INSTANCE ModelChoice WITH
  Bases <- BaseUrls, NoBase <- Nil, NoModel <- Nil, disk <- config

CONSTANTS Ids, Links, MaxIds, MaxPages, MaxItems
VARIABLES url, ids, truncated, pages, seenAfter, outcome, offered, hid, more
listVars == <<url, ids, truncated, pages, seenAfter, outcome, offered, hid, more>>

List == INSTANCE ModelList

-----------------------------------------------------------------------------
(* What is converted: recordings, drafts, patches, cookie files and urls *)

CONSTANTS Secretish, MaxActions, MaxScroll, MaxWait, DefaultWait, Now

Record   == INSTANCE TeachRecord
Draft    == INSTANCE TeachDraft
Optimize == INSTANCE TeachOptimize
Cookie   == INSTANCE CookieFile
Url      == INSTANCE ModelUrl

\* Events, actions, steps and patches of texts S, and what a cookie file says.
Occurrence(S) == [kind : S, selector : S, url : S, value : S, secret : BOOLEAN, base : S]
Timeline(S) ==
  [action : S, source : S, selector : S, text : S, value : S, url : S, dx : Int, dy : Int, ms : Nat,
   point : BOOLEAN, observed : BOOLEAN, reason : S, raw : BOOLEAN, secret : BOOLEAN, name : S]
RecordedStep(S) == [action : S, selector : S, selectors : Seq(S), text : S, vars : BOOLEAN, url : S, name : S]
PatchOf(S) ==
  [json : BOOLEAN, version : Nat, selectors : Seq([index : Nat \ {0}, selector : S, selectors : Seq(S)]),
   names : Seq([index : Nat \ {0}, name : S]), drops : SUBSET (Nat \ {0}),
   merges : SUBSET [from : Nat \ {0}, into : Nat \ {0}]]
InCookieFile ==
  [object : BOOLEAN, named : BOOLEAN, valued : BOOLEAN, placed : BOOLEAN, expires : [is : STRING, at : Int]]
Listing(S) == [is : {"absent", "other", "list"}, of : Seq(S)]

\* The inputs of a pure part.  Each action has a name its variable would get,
\* and only a text that is typed holds a variable.
InputsOf(p) ==
  CASE p = "record"   -> Seq(Occurrence(STRING)) \X BOOLEAN
    [] p = "draft"    -> {s \in Seq(Timeline(STRING)) : \A i \in DOMAIN s : s[i].name # "none"}
    [] p = "optimize" -> {s \in Seq(RecordedStep(STRING)) :
                            s # <<>> /\ \A i \in DOMAIN s : s[i].vars => s[i].action = "fill"}
                         \X BOOLEAN \X PatchOf(STRING)
    [] p = "cookie"   -> [shape : Cookie!Shapes, items : Seq(InCookieFile), cookies : Listing(InCookieFile),
                          origins : Listing(STRING)] \X Cookie!Formats
    [] p = "url"      -> Seq(STRING)

ASSUME InputsAssumption ==
  /\ DOMAIN Inputs \subseteq {"record", "draft", "optimize", "cookie", "url"}
  /\ \A p \in DOMAIN Inputs : Inputs[p] \subseteq InputsOf(p)
  /\ MaxScroll \in Nat /\ MaxWait \in Nat /\ DefaultWait \in 0..MaxWait

-----------------------------------------------------------------------------
(* What the sizes of the instances may be *)

ASSUME RecordsAssumption ==
  /\ Nil \notin Nat
  /\ "skill.json" \notin NotPacked /\ SecretLike \subseteq NotPacked
  /\ "manifest.json" \notin Dotted \cup Python \cup SecretLike
  /\ \A d \in Dirs : /\ \A e \in d.entries : e.path \in Seq(STRING)
                     /\ d.manifest = Nil \/ d.manifest \in Manifests
  /\ Nil \notin [cat : Seq(Releases!Release)]
  /\ Sidecars \in Seq(STRING \ {"skill.json"})
  /\ \A i, j \in DOMAIN Sidecars : Sidecars[i] = Sidecars[j] => i = j
  /\ MaxRuns \in Nat /\ MaxFails \in Nat /\ MaxCuts \in Nat
  /\ Nil \notin Versions \cup Digests /\ MaxClicks \in Nat /\ MaxChanges \in Nat
  /\ IsFiniteSet(Handlers) /\ AssistMax \in Nat \ {0} /\ MaxAsked \in Nat
  /\ Profiles # {} /\ MaxKids \in Nat /\ MaxLines \in Nat /\ MaxHistory \in Nat
  /\ Window \in Nat /\ Interval \in Nat /\ MaxTime \in Nat /\ MaxCalls \in Nat
  /\ MaxConns \in Nat /\ MaxEvents \in Nat /\ MaxFailures \in Nat \ {0}
  /\ Messages \subseteq [len : Nat, is : {"ok", "bad", "control", "close", "fragment", "garbled"}]
  /\ MaxMessage \in Nat /\ Slack \in Nat /\ Slack >= 14 /\ ReadSize \in Nat
  /\ Short \in Nat /\ Mid \in Nat /\ MaxMessages \in Nat
  /\ \A t \in AnswerTexts \cup ThinkingTexts : t \in Seq(STRING)
  /\ MaxImports \in Nat /\ Default \in BaseUrls /\ Nil \notin BaseUrls \cup Models
  /\ MaxIds \in Nat /\ MaxPages \in Nat /\ MaxItems \in Nat
  /\ {"long", "junk", "key"} \cap Ids = {} /\ {"none", "off"} \cap Links = {}

-----------------------------------------------------------------------------
vars == <<part, releaseVars, exportVars, retryVars, parkVars, clickVars, streamVars, pairingVars,
          frameVars, sessionVars, desktopVars, profileVars, choiceVars, listVars, input>>

Pure   == DOMAIN Inputs
Moving == {"releases", "export", "retry", "park", "clicks", "stream", "pairing", "frames",
           "session", "desktop", "profile", "choice", "list"}

Init ==
  /\ part \in Pure \cup Moving
  /\ Clicks!Init /\ Pairing!Init /\ Desktop!Init /\ Choice!Init /\ List!Init
  /\ Releases!Init /\ (part # "releases" => dir = CHOOSE d \in Dirs : TRUE)
  /\ Export!Init   /\ (part # "export" => ~dest.there)
  /\ Retry!Init    /\ (part # "retry" => interval = 0)
  /\ Park!Init     /\ (part # "park" => parkJob = [c \in Calls |-> CHOOSE j \in Jobs : TRUE])
  /\ Stream!Init   /\ (part # "stream" => text = [answer |-> <<>>, thinking |-> <<>>])
  /\ Frames!Init   /\ (part # "frames" => /\ kind = "lines" /\ buffered = 2
                                         /\ sent = <<[len |-> 5, is |-> "ok"]>>)
  /\ Session!Init  /\ (part # "session" => command.of = "start")
  /\ Profile!Init  /\ (part # "profile" => ~made)
  /\ input \in IF part \in Pure THEN Inputs[part] ELSE {Nil}

Next ==
  /\ part \in Moving /\ UNCHANGED <<part, input>>
  /\ IF part = "releases" THEN Releases!Next ELSE UNCHANGED releaseVars
  /\ IF part = "export"   THEN Export!Next   ELSE UNCHANGED exportVars
  /\ IF part = "retry"    THEN Retry!Next    ELSE UNCHANGED retryVars
  /\ IF part = "park"     THEN Park!Next     ELSE UNCHANGED parkVars
  /\ IF part = "clicks"   THEN Clicks!Next   ELSE UNCHANGED clickVars
  /\ IF part = "stream"   THEN Stream!Next   ELSE UNCHANGED streamVars
  /\ IF part = "pairing"  THEN Pairing!Next  ELSE UNCHANGED pairingVars
  /\ IF part = "frames"   THEN Frames!Next   ELSE UNCHANGED frameVars
  /\ IF part = "session"  THEN Session!Next  ELSE UNCHANGED sessionVars
  /\ IF part = "desktop"  THEN Desktop!Next  ELSE UNCHANGED desktopVars
  /\ IF part = "profile"  THEN Profile!Next  ELSE UNCHANGED profileVars
  /\ IF part = "choice"   THEN Choice!Next   ELSE UNCHANGED choiceVars
  /\ IF part = "list"     THEN List!Next     ELSE UNCHANGED listVars

Spec == Init /\ [][Next]_vars

-----------------------------------------------------------------------------
(* Properties: those of the part that moves, by what they are about *)

TypesOK ==
  CASE part = "releases" -> Releases!TypeOK
    [] part = "export"   -> Export!TypeOK
    [] part = "retry"    -> Retry!TypeOK
    [] part = "park"     -> Park!TypeOK
    [] part = "clicks"   -> Clicks!TypeOK
    [] part = "stream"   -> Stream!TypeOK
    [] part = "pairing"  -> Pairing!TypeOK
    [] part = "frames"   -> Frames!TypeOK
    [] part = "session"  -> Session!TypeOK
    [] part = "desktop"  -> Desktop!TypeOK
    [] part = "profile"  -> Profile!TypeOK
    [] part = "choice"   -> Choice!TypeOK
    [] part = "list"     -> List!TypeOK
    [] OTHER             -> TRUE

\* What is published can be sent and installs, whoever packs and whatever has
\* been edited since, and what an export tells of was committed (skill_pkg.rs:518,
\* 642, skills.rs:92).
PackagesAreWhole ==
  CASE part = "releases" -> Releases!PublishedCanBeSent /\ Releases!PackedInstalls
    [] part = "export"   -> Export!FoundIsCommitted
    [] OTHER             -> TRUE

\* A published version keeps its content while nobody drafts it again, and an
\* export leaves the whole skill or the one before (skill_pkg.rs:530,
\* skills.rs:749).
ReplacedWhole == Releases!PublishedChangesByDraftOnly /\ Export!AllOrNothing

\* Retries keep their distances, a click submits what was confirmed, by one
\* job per profile, and a park that was answered stays (master_hub.rs:863,
\* 980, fleet.rs:470, ops.rs:125).
OperatorIsObeyed ==
  CASE part = "retry"  -> Retry!Paced
    [] part = "clicks" -> Clicks!NoRetarget /\ Clicks!ClicksShareNoProfile
    [] part = "park"   -> Park!ParkStays
    [] OTHER           -> TRUE

\* A teach session is one: one child at most is up, that of the slot or of a
\* start, what the slot tells of another is of one that came before and has
\* ended, and a session's command has one browser, under the profile's lock
\* (desktop teach.rs:209, 335, teach.rs:500).
SessionIsOne ==
  CASE part = "desktop" -> Desktop!OneTeachChild /\ Desktop!OnlyEndedIntrude
    [] part = "session" -> Session!BrowserUnderLock
    [] OTHER            -> TRUE

\* What is said in it is told apart from what others say, heard once and
\* piece by piece, asked of the model as often as is allowed, and shown
\* without what is secret (teach_hub.rs:973, 1138, 1291, 1374, teach.rs:930,
\* teach_events.rs:709).
ConversationIsOwn ==
  /\ Pairing!PairedOnce
  /\ [](CASE part = "pairing" -> /\ Pairing!NewestKeepsOutbound /\ Pairing!GuessesBounded
                                 /\ Pairing!EventOncePerConnection
          [] part = "frames"  -> Frames!MessagesHeard
          [] part = "session" -> Session!AssistBounded
          [] part = "stream"  -> Stream!StreamIsRedacted
          [] OTHER            -> TRUE)

\* What is in a file is what is shown and used of it: profiles, the history of
\* runs, the model and the models to choose from (profiles.rs:52, catalog.rs:107,
\* runs.rs:235, llm.rs:499, tui/mod.rs:479, llm_client.rs:52).
FilesAreTold ==
  CASE part = "profile" -> Profile!MadeStays /\ Profile!CookiesGoWithProfile /\ Profile!ListedAlike
    [] part = "desktop" -> Desktop!HistoryKept
    [] part = "choice"  -> Choice!ChosenIsListed /\ Choice!FailedFetchForgets
    [] part = "list"    -> List!WholeUnlessTold
    [] OTHER            -> TRUE

\* What a human or the model did is converted to steps that do the same, of
\* which none types a credential, a patch of a model only trims them, a cookie
\* file that was imported opens and counts alike for each reader, and a base is
\* the same however often it is normalized
\* (teach.rs:1277, skills.rs:295, teach_optimize.rs:263, cookies.rs:225,
\* catalog.rs:342, llm.rs:368).
InputsConvert ==
  CASE part = "record"   -> /\ Record!PlaysAsRecorded(input[1], input[2])
                            /\ Record!RecordedSecretsOut(input[1], input[2])
    [] part = "draft"    -> Draft!DraftIsStable(input) /\ Draft!DraftSecretsOut(input)
    [] part = "optimize" -> Optimize!OptimizeOnlyTrims(input[1], input[2], input[3])
    [] part = "cookie"   -> Cookie!ImportedOpens(input[1], input[2]) /\ Cookie!CountsAgree(input[1])
    [] part = "url"      -> Url!BaseSettles(input)
    [] OTHER             -> TRUE

\* Six sentences of the source that do not hold of it (skills.rs:585,
\* teach_optimize.rs:256, teach_events.rs:664, skill_pkg.rs:526,
\* master_hub.rs:873, desktop/README.md:11): no plaintext credential leaves with
\* a draft, a patch never takes the last fill that holds a secret, no fragment of
\* a stream is shown that the redacted text leaves out, what is published is not
\* published anew with another content, a profile is not retried within the
\* cooldown, and a run in the history stays there.
PlaintextRefused   == part = "draft" => Draft!PlaintextRefused(input)
SecretFillsKept    == part = "optimize" => Optimize!SecretFillsKept(input[1], input[2], input[3])
NothingUnchecked   == part = "stream" => Stream!NothingUnchecked
PublishedIsRefused == Releases!PublishedIsRefused
CooldownRefuses    == part = "retry" => Retry!CooldownRefuses
RunsPersist        == part = "desktop" => Desktop!RunsPersist
=============================================================================
