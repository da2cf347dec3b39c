SPECIFICATION FairSpec
CONSTANTS
  ann = ann
  bob = bob
  right = right
  wrong = wrong
  Emails = {ann}
  Passwords = {right, wrong}
  Accounts <- OneAccount
  Typed <- OneAccount
  Null = Null
  NoId = NoId
  Threads = {t1}
  Ids = {s1, s2}
  MaxStack = 2
PROPERTIES CheckAnswered
