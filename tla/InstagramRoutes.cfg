\* The poller and a request at a time on one message: an erasure, a fault or a restart.
SPECIFICATION Spec
CONSTANTS
  s1 = s1  s2 = s2  i1 = i1  m1 = m1  m2 = m2  m3 = m3  m4 = m4
  h1 = h1  h2 = h2  p1 = p1  w1 = w1   None = None
  Scout = {s1, s2}
  Handle = {h1, h2}
  Sender = {i1}
  UsernameOf <- Usernames
  Message = {m1}
  SenderOf <- OneSender
  Shares <- Both
  Dropped = {m1}
  Forgettable = {i1}
  Poller = {p1}
  Handler = {w1}
  MaxRequests = 2
  MaxAged = 0
  MaxFaults = 1
INVARIANT TypeOK OnEntitledSheet
PROPERTY AppliedKept Recorded
