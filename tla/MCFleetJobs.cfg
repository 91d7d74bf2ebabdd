SPECIFICATION Spec
CONSTANTS
  ship = ship
  d1 = d1
  d2 = d2
  j1 = j1
  j2 = j2
  c1 = c1
  c2 = c2
  p1 = p1
  Jobs = {j1, j2}
  Clients = {c1, c2}
  Profiles = {p1}
  Digests = {d1, d2}
  Omits = {}
  Skills = {ship}
  Requests = {r1, r2}
  Specs <- MCSpecs
  Reports <- MCSuccesses
  Kind <- MCKind
  Installed <- MCInstalled
  Statuses <- MCStatuses
  SkillOf <- MCSkillOf
  Declares <- MCDeclares
  LegacyStatuses = {}
  Succeeds <- MCSucceeds
  MaxSessions = 1
  MaxCancels = 1
  MaxRestarts = 0
  MaxDeaths = 0
  NoClient = NoClient
  NoProfile = NoProfile
  NoSkill = NoSkill
  NoDigest = NoDigest
  NoStatus = NoStatus
  NoResult = NoResult
  NoData = NoData
  NullData = NullData
  NoRecord = NoRecord
  NoSpec = NoSpec
  NoTask = NoTask
INVARIANTS
  TypeOK
  OneActivePerProfile
  ResultWasExecuted
  ReportsAgree
SYMMETRY Symmetry
CHECK_DEADLOCK FALSE
