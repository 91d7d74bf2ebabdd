SPECIFICATION Spec
CONSTANTS
  ship = ship
  shipD = shipD
  Jobs = {j1, j2}
  Clients = {c1}
  Profiles = {p1, p2}
  Skills = {ship}
  Digests = {shipD}
  Statuses <- MCStatuses
  SkillOf <- MCSkillOf
  Omits = {}
  Declares <- MCDeclares
  LegacyStatuses = {}
  Succeeds <- MCSucceeds
  Reports <- MCReports
  NoClient = NoClient
  NoProfile = NoProfile
  NoSkill = NoSkill
  NoDigest = NoDigest
  NoStatus = NoStatus
  NoResult = NoResult
  NoData = NoData
  NullData = NullData
  NoRecord = NoRecord
  Torn = Torn
  NoIngest = NoIngest
INVARIANTS
  TypeOK
  NoForgedResult
  CountedAtMostOnce
  LedgerBacked
PROPERTIES
  ResultIsFinal
  FinishedStaysFinished
  ImplementsLog
SYMMETRY Symmetry
