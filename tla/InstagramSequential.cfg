\* One handler at a time, no failures: every kind of message and request.
SPECIFICATION SafeSpec
CONSTANTS
  s1 = s1  s2 = s2  i1 = i1  m1 = m1  m2 = m2  m3 = m3  m4 = m4
  h1 = h1  h2 = h2  p1 = p1  w1 = w1   None = None
  Scout = {s1, s2}
  Handle = {h1, h2}
  Sender = {i1}
  UsernameOf <- Usernames
  Message = {m1, m2, m3, m4}
  SenderOf <- OneSender
  Shares <- EachKind
  Dropped = {m2}
  Forgettable = {}
  Poller = {}
  Handler = {w1}
  MaxRequests = 2
  MaxAged = 2
  MaxFaults = 0
SYMMETRY Scouts
INVARIANT FiledOnce AppliedOnSheet HalvesPaired HandleRules
