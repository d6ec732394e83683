CONSTANTS
  Node = {n1, n2}
  Proto = {p1, p2}
  Client = {c1, c2}
  Relay = {x1, x2}
  Group = {g1, g2}
  Cert = {k1}
  Rule = {r1}
  None = None
  Stored <- MCStored
  Payload <- MCPayload
  Override <- MCOverride
  HostEntry <- MCHostEntry
  Match = {"inline"}
  MaxEdits = 2
  Activation = {a1, a2}
  Saving = {s1, s2}
  Tag = {v1, v2}
  DefaultTag = v1
  MaxRows = 2
  MaxBuild = 1
  MaxRequests = 4
  Template = {t1, t2, t3}
  SbBuiltin = t1
  ClashBuiltin = t2
  Editor = {e1, e2}
  MaxTemplateEdits = 3
  ApiRequest = {q1, q2}
  KeyEditor = {w1, w2}
  MaxEditions = 2
  RateKey = {u1}
  RateRequest = {d1, d2}
  Limit = 2
  Minute = 3
  MaxLate = 1
  MaxAge = 4
  MaxBuckets = 0
  MaxRecords = 5
  Capacity = 2
SPECIFICATION HubSpec
INVARIANTS
  LinkIsAccepted
  SameAccess
  HopIsAccepted
  FormatsAgree
  CatalogueInForce
  EnabledOnce
  BurstIsBounded
  EditsAreSeen
  AcceptedIsSaved
PROPERTIES
  EditsAreMarked
  NoGap
CHECK_DEADLOCK FALSE
