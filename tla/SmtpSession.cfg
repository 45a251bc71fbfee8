CONSTANTS
  Tenants = {t1, t2}
  None = None
  LimitRecipients = 2
  MaxUnrecognizedCommands = 2
  AlwaysOn = {TRUE, FALSE}
  StartTLSOn = TRUE
  HasAuthenticator = TRUE
SPECIFICATION FairSpec
INVARIANTS RepliesMatchState AuthIsTheSessions
PROPERTIES SilentPeerDropped ShutdownEndsSession
