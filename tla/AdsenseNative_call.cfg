SPECIFICATION Spec
CONSTANTS
  Emails = {"ann", "bob"}
  Passwords = {"right", "wrong"}
  Accounts <- TwoAccounts
  Typed <- AlsoWrong
  Null = Null
  NoHandle = NoHandle
  Callers = {c1}
  Handles = {h1}
  Reports = 2
  Slots = 4
INVARIANTS TypeOK SinkOpen PasswordOnlyToLogin RowsOfThisCall PseudoSparesReports
PROPERTIES CallKeepsContract
