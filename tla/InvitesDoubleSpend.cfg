\* Two sign-ups on one invitation over PostgreSQL.
CONSTANTS
  None = None
  Backends = {"postgres"}
  Handlers = {h1, h2}
  Browsers = {b1}
  Tokens = {t1}
  Lifetimes = {1, 2}
  MaxTime = 1
  MaxAccounts = 2
SPECIFICATION Spec

INVARIANT SpentOnce
