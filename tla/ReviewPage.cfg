\* Two rows of one scout and two campaigns.
SPECIFICATION Spec
CONSTANTS
  r1 = r1  r2 = r2  c1 = c1  c2 = c2
  None = None  Gone = Gone
  Row = {r1, r2}
  Campaign = {c1, c2}
  MaxEvents = 2
SYMMETRY Alike
INVARIANT TypeOK RowsSettle
PROPERTY SentWhereNamed
CHECK_DEADLOCK FALSE
