CONSTANTS
  t1 = t1
  t2 = t2
  i1 = i1
  i2 = i2
  i3 = i3
  Tenants = {t1, t2}
  None = None
  NoTenant = NoTenant
  Local = Local
  Junk = Junk
  Unparsed = Unparsed
  Provider <- MCProvider
  Thread <- MCThread
  Files <- MCFiles
  FirstFiles <- MCFirst
  Modes <- MCModes
  Workers = {w1}
  MaxRegistries = 2
  MaxVersion = 2
  MaxFaults = 1
SPECIFICATION FairSpec
INVARIANTS TenantIsolation CurrentCredentials AnsweredAsSent
PROPERTIES RegistryCatchesUp
