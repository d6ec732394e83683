CONSTANTS
  Release = {1, 2, 3}
  Request = {r1, r2}
  None = None
  Torn = Torn
  MaxShell = 2
  MaxFaults = 1
  Opener = {o1, o2}
  Version = {1, 2, 3}
  Step = {2, 3}
  Baseline = 1
  NoRow = NoRow
  MaxOpens = 4
  Pid = {p1, p2, p3}
  NoPid = NoPid
  MaxTroubles = 2
SPECIFICATION HostSpec
INVARIANT InstallationIsWhole
INVARIANT OneSubmission
INVARIANT RunningHasOwner
INVARIANT EachStepOnce
INVARIANT OrphanIsNamed
PROPERTY OutcomeIsTrue
PROPERTY StrangersSafe
CHECK_DEADLOCK FALSE
