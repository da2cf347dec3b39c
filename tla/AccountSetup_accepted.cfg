SPECIFICATION Spec
CONSTANTS
  ann = ann
  bob = bob
  right = right
  wrong = wrong
  Emails = {ann}
  Passwords = {right, wrong}
  Accounts <- OneAccount
  Typed <- RightOrWrong
  Null = Null
  NoId = NoId
  Threads = {t1}
  Ids = {s1, s2}
  MaxStack = 4
SYMMETRY Interchangeable
INVARIANTS VerifiedAccepted
