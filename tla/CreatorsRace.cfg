\* Two workers at once, sources that know two people in parts.
SPECIFICATION Spec
CONSTANTS
  c1 = c1  c2 = c2  c3 = c3  w1 = w1  w2 = w2
  e1 = e1  e2 = e2  h1 = h1  h2 = h2  n1 = n1  n2 = n2
  p1 = p1  p2 = p2  k1 = k1  k2 = k2  s1 = s1  x1 = x1  None = None
  CreatorId = {c1, c2, c3}
  Email = {e1, e2}  Handle = {h1, h2}  Name = {n1, n2}
  Extra = {}
  Person = {p1, p2}
  Owner <- OwnerTwo
  Payload <- PayloadRace
  Edit <- EditRace
  RosterEdit = {}
  Source = {"CONTRACT_SIGNED", "CLAUDE_EXTRACTION"}
  ContractRef = {k1}
  Signer <- SignerTwo
  Campaign = {}
  Worker = {w1, w2}
SYMMETRY IdsAndWorkers
INVARIANT TypeOK RecordsPure ContractOnSigner
PROPERTY ChangesAudited KeysOnlyClaimed
