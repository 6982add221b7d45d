SPECIFICATION AccessSpec
CONSTANTS
  Requests = {a1, a2}
  Sessions = {"s1"}
  Links = {"l1", "l2"}
  Passkeys = {"k1"}
  MaxPasskeys = 1
  Codes = {"c"}
  None = none
  MaxPasswords = 1
  MaxSecrets = 1
  MaxSteps = 2
  MaxAdmitted = 3
CHECK_DEADLOCK FALSE
PROPERTY StatesWorkOnce
