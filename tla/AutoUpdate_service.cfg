SPECIFICATION AppSpec
CONSTANTS
  ann = ann
  bob = bob
  right = right
  wrong = wrong
  Emails = {ann, bob}
  Passwords = {right, wrong}
  Accounts <- TwoAccounts
  Typed <- TwoAccounts
  Null = Null
  NoId = NoId
  Threads = {t1}
  Ids = {s1}
  MaxStack = 2
  MaxMessages = 3
SYMMETRY InterchangeableAccounts
INVARIANTS AppTypeOK AccountSound CredentialsPresent
PROPERTIES ServiceFollowsSwitch
