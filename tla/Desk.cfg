SPECIFICATION Spec
CONSTANTS
  Handles = {h1, h2, h3}
  Absence = 2
  Grace = 1
  MaxErrors = 3
  Tabs = {t1, t2}
  Rows = {r1, r2}
  Requests = {q1, q2}
  Obscure = 1
  Timeout = 2
  Touch = 1
  MaxOverlaps = 1
  MaxPolls = 1
  Officers = {o1, o2}
  FirstIo = o1
  Window = 1
  MaxTime = 3
  MaxLevel = 2
INVARIANTS
  DeskTypeOK
  CameraOnlyWhileMonitoring
  MonitoringIsAlive
  ServerNearPageDeadline
  BreachIsShown
PROPERTIES
  ObscuresOnlyAfterAbsence
  EventuallyMonitored
  EndedIsFinal
  UnattendedSessionsEnd
  SlaClockSetOnce
\* The dispatch register stops at the bound of its clock.
CHECK_DEADLOCK FALSE
