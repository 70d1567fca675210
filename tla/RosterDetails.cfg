\* Two tabs edit one creator, a contract arrives or comes again.
SPECIFICATION Spec
CONSTANTS
  v1 = v1  v2 = v2  bank = bank  iban = iban  pan = pan  t1 = t1  t2 = t2
  k1 = k1  k2 = k2  summer = summer  winter = winter  s1 = s1  s2 = s2  s3 = s3
  None = None
  BankKey = {bank, iban}
  TaxKey = {pan}
  Value = {v1, v2}
  Tab = {t1, t2}
  ContractRef = {k1, k2}
  Campaign = {summer, winter}
  Term <- NewTerms
  Creators <- Known
  Histories <- Start
  Others <- OtherRows
  Taken = {v2}
  MaxSaves = 2
  MaxImports = 1
SYMMETRY Alike
INVARIANT TypeOK ViewsConserved ListSound
PROPERTY SavedEverywhere EditIsLocal
CHECK_DEADLOCK FALSE
