\* One worker, unrestricted identities: what the merge rules promise.
SPECIFICATION Spec
CONSTANTS
  c1 = c1  c2 = c2  c3 = c3  w1 = w1  w2 = w2
  e1 = e1  e2 = e2  h1 = h1  h2 = h2  n1 = n1  n2 = n2
  p1 = p1  p2 = p2  k1 = k1  k2 = k2  s1 = s1  x1 = x1  None = None
  CreatorId = {c1, c2, c3}
  Email = {e1, e2}  Handle = {h1, h2}  Name = {n1}
  Extra = {x1}
  Person = {p1}
  Owner <- OwnerOne
  Payload <- PayloadRules
  Edit <- EditRules
  RosterEdit <- RosterRules
  Source = {"CONTRACT_SIGNED", "CLAUDE_EXTRACTION", "STATS_SYNC"}
  ContractRef = {k1}
  Signer <- SignerOne
  Campaign = {s1}
  Worker = {w1}
SYMMETRY Ids
VIEW ButAudit
PROPERTY FillOnlyWhenEmpty HandleHolderKept MergeKeepsAll
