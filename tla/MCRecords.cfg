\* The parts that keep, convert or pass on something, one at a time.
CONSTANTS
  Nil = Nil
  NotPacked = {"__pycache__", ".tmp-run.py", "cookies.json"}
  SecretLike = {"cookies.json"}
  Dotted = {".."}
  Python = {"run.py", ".tmp-run.py"}
  Illegal = {"no/name"}
  MaxFiles = 3
  Inputs <- MCInputs
  Dirs <- MCDirs
  Versions = {"v1", "v2"}
  Calls = {"c1", "c2"}
  MaxEdits = 1
  MaxCalls = 3
  MaxCrashes = 1
  Procs = {"a", "b"}
  Sidecars <- MCSidecars
  MaxRuns = 2
  MaxFails = 2
  MaxCuts = 1
  Callers = {"a", "b"}
  Retried = {"p"}
  Window = 2
  Interval = 2
  MaxTime = 3
  Jobs = {"j1", "j2"}
  Digests = {"d1", "d2"}
  MaxClicks = 2
  MaxChanges = 3
  Extensions = {"e1"}
  Workers = {"w1", "w2"}
  Origins = {"o1"}
  MaxFailures = 1
  MaxConns = 2
  MaxEvents = 1
  AnswerTexts <- MCAnswers
  ThinkingTexts <- MCThoughts
  Messages <- MCMessages
  MaxMessage = 20
  Slack = 16
  ReadSize = 6
  Short = 4
  Mid = 10
  MaxMessages = 2
  Handlers = {"h1", "h2"}
  AssistMax = 2
  MaxAsked = 5
  Profiles = {"p1", "p2"}
  MaxKids = 2
  MaxLines = 1
  MaxHistory = 2
  MaxImports = 2
  BaseUrls = {"b1", "b2"}
  Models = {"m1"}
  Default = "b1"
  Ids = {"a", "b", "c"}
  Links = {"l1", "l2"}
  MaxIds = 2
  MaxPages = 3
  MaxItems = 2
  Secretish = {"key"}
  MaxActions = 3
  MaxScroll = 2
  MaxWait = 3
  DefaultWait = 1
  Now = 10
SPECIFICATION Spec
INVARIANTS
  TypesOK
  PackagesAreWhole
  OperatorIsObeyed
  SessionIsOne
  InputsConvert
  FilesAreTold
PROPERTIES
  ReplacedWhole
  ConversationIsOwn
\* Every part is bounded, and the pure ones have no step.
CHECK_DEADLOCK FALSE
