SPECIFICATION EventsSpec
CONSTANTS
  h1 = h1  h2 = h2  p1 = p1
  Hunts = {h1, h2}
  Panels = {p1}
  PageLimit = 2
  MaxRows = 5
  None = None
INVARIANTS ShownIsAPrefix
PROPERTIES StreamEnds
