\* Two creators, both listed, one delete after two profiles were opened; nothing fails.
SPECIFICATION Spec
CONSTANTS
  ann = ann  bob = bob  cat = cat  contact = contact  payment = payment
  None = None
  Creator = {ann, bob}
  Card = {contact, payment}
  RosterLimit = 2
  MaxClicks = 3
  MaxFaults = 0
  MaxSessions = 0
PROPERTY DeletesNamed
CHECK_DEADLOCK FALSE
