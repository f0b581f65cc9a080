SPECIFICATION Spec
CONSTANTS
  TokenAccounts = {t1, t2, t3}
  Mints = {m1, m2}
  HookedMints = {m2}
  MaxAmount = 3
  MaxNonce = 2
PROPERTIES
  OnlyTheSignedTransfer
  HooksStayOut
CHECK_DEADLOCK FALSE
