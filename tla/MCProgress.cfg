\* The parts in which somebody waits, one at a time.
CONSTANTS
  Nil = Nil
  Skills = {"s1"}
  Digests = {"d1", "d2"}
  SkillOf <- MCSkillOf
  Pushes = {"p1", "p2"}
  Wants <- MCWants
  MaxLinks = 2
  MaxRevision = 2
  MaxQueue = 1
  MaxEvents = 3
  Cap = 2
  Inputs = {1, 3}
  Outputs = {1, 3}
  MaxActions = 2
  MaxScroll = 2
  MaxWait = 2
  DefaultWait = 1
  Replies <- MCReplies
  MaxTurns = 2
  MaxCancels = 2
  MaxStarts = 2
  Callers = {1, 2}
  MaxPids = 2
  MaxDeaths = 1
  Browsers = {"s1", "s2"}
  Processes = {"p1", "p2", "p3"}
  MaxSessions = 2
SPECIFICATION Spec
INVARIANTS
  TypesOK
  InstalledAsSaid
  ProcessesAreOwned
PROPERTIES
  LinkConverges
  NothingHangs
  CancelIsKept
\* Sessions, turns, processes and cancels are bounded.
CHECK_DEADLOCK FALSE
