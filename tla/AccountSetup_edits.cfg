SPECIFICATION Spec
CONSTANTS
  ann = ann
  bob = bob
  right = right
  wrong = wrong
  Emails = {ann, bob}
  Passwords = {right, wrong}
  Accounts <- TwoAccounts
  Typed <- TwoAccounts
  Null = Null
  NoId = NoId
  Threads = {t1}
  Ids = {s1, s2}
  MaxStack = 3
SYMMETRY InterchangeableAccounts
INVARIANTS TypeOK AccountSound CredentialsPresent
PROPERTIES RequestEndsWithCheck
