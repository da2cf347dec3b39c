SPECIFICATION Spec
CONSTANTS
  Emails = {"ann", "bob"}
  Passwords = {"right", "wrong"}
  Accounts <- TwoAccounts
  Typed <- TwoAccounts
  Null = Null
  NoHandle = NoHandle
  Callers = {c1, c2}
  Handles = {h1, h2}
  Reports = 1
  Slots = 4
INVARIANTS HandleOpenInCall
