\* Three creators, of whom a list takes two, three requests of the administrator, a lost
\* answer and a session that ends.
SPECIFICATION Spec
CONSTANTS
  ann = ann  bob = bob  cat = cat  contact = contact  payment = payment
  None = None
  Creator = {ann, bob, cat}
  Card = {contact, payment}
  RosterLimit = 2
  MaxClicks = 3
  MaxFaults = 1
  MaxSessions = 1
SYMMETRY Alike
CONSTRAINT AtMostFour
INVARIANT TypeOK BusyHonest ShownIsSelected RosterAgrees
CHECK_DEADLOCK FALSE
