\* One sheet of at most two rows and the form for the handle; what is typed, reviewed,
\* lost and overtaken meanwhile.
SPECIFICATION Spec
CONSTANTS
  pending = pending  qualified = qualified  Handle = Handle  None = None
  Verdict = {pending, qualified}
  Unreviewed = pending
  MaxRows = 2
  MaxEvents = 3
  MaxPolls = 1
INVARIANT TypeOK
CHECK_DEADLOCK FALSE
PROPERTY LiveSync SheetConverges
