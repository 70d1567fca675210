\* Two requests that edit and two that promote, three of them at a time, with faults and
\* restarts.
SPECIFICATION Spec
CONSTANTS
  s1 = s1  s2 = s2  h1 = h1  h2 = h2  c1 = c1  c2 = c2
  r1 = r1  r2 = r2  e1 = e1  e2 = e2  p1 = p1  p2 = p2
  None = None
  Scout = {s1}
  Handle = {h1}
  Campaign = {c1, c2}
  Row = {r1, r2}
  Editor = {e1, e2}
  Promoter = {p1, p2}
  MaxEdits = 2
  MaxAdmin = 1
  MaxFaults = 1
SYMMETRY Alike
CONSTRAINT AtMostThree
INVARIANT TypeOK DuplicateWarned AddedWhereRecorded SecondCampaignOnlyIfLost
CHECK_DEADLOCK FALSE
