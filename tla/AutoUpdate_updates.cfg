SPECIFICATION FairAppSpec
CONSTANTS
  ann = ann
  bob = bob
  right = right
  wrong = wrong
  Emails = {ann}
  Passwords = {right}
  Accounts <- OneAccount
  Typed <- OneAccount
  Null = Null
  NoId = NoId
  Threads = {t1}
  Ids = {s1}
  MaxStack = 2
  MaxMessages = 1
PROPERTIES UpdatesFetched
