\* Sign-ups over either database: three at once on one invitation.
CONSTANTS
  None = None
  Backends = {"sqlite", "postgres"}
  Handlers = {h1, h2, h3}
  Browsers = {b1, b2}
  Tokens = {t1}
  Lifetimes = {1, 2}
  MaxTime = 3
  MaxAccounts = 3
SPECIFICATION FairSpec
INVARIANTS TypeOK SqliteSpentOnce SpentForAccount
PROPERTIES NoLateSignup NotLost PostgresCollects
