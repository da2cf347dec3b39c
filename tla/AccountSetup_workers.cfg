SPECIFICATION Spec
CONSTANTS
  ann = ann
  bob = bob
  right = right
  wrong = wrong
  Emails = {ann}
  Passwords = {right, wrong}
  Accounts <- OneAccount
  Typed <- OneAccount
  Null = Null
  NoId = NoId
  Threads = {t1, t2}
  Ids = {s1, s2}
  MaxStack = 2
SYMMETRY Interchangeable
INVARIANTS OneAnswerPerScreen
