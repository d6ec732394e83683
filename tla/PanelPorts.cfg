CONSTANTS
  Node = {n1, n2, n3}
  Proto = {p1, p2}
  Client = {c1, c2}
  Relay = {x1, x2}
  Group = {g1, g2}
  Cert = {k1}
  Rule = {r1}
  None = None
  Stored <- MCStored
  Payload <- MCPayload
  Override <- MCOverride
  HostEntry <- MCHostEntry
  Match = {"inline"}
  MaxEdits = 2
SPECIFICATION PanelSpec
INVARIANT PortsAreDisjoint
CHECK_DEADLOCK FALSE
