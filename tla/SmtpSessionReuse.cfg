CONSTANTS
  Tenants = {t1, t2}
  None = None
  LimitRecipients = 2
  MaxUnrecognizedCommands = 2
  AlwaysOn = {FALSE}
  StartTLSOn = TRUE
  HasAuthenticator = TRUE
SPECIFICATION Spec
INVARIANT TransactionNeedsMail
