SPECIFICATION Spec

CONSTANTS
  m1 = m1
  m2 = m2
  m3 = m3
  u1 = u1
  x1 = x1
  n1 = n1
  p1 = p1
  p2 = p2
  p3 = p3
  e1 = e1
  c1 = c1
  NoPayload = NoPayload
  Kind <- KindOf
  ConvOf <- OneUser
  EventsOf <- EventTable
  Worker = {w1}
  Payload = {p1, p2, p3}
  Event = {m1, m2, m3}
  Incomplete = {}
  Conversation = {c1}
  Raw <- Singles
  Texts <- DemoTexts
  MaxDuplicates = 0
  MaxFaults = 0

INVARIANTS
  FailedEventsAreOwed
