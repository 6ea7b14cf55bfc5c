SPECIFICATION SettingsSpec
CONSTANTS
  Requests = {q1, q2}
  Guard = guard
  Pairs = {a, b}
  Losers = {a}
  ReadsFail = FALSE
  Absent = Absent
  Nobody = Nobody
PROPERTIES
  RemovalStays
CHECK_DEADLOCK FALSE
