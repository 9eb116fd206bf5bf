SPECIFICATION FairSpec
CONSTANTS
  d1 = d1
  d2 = d2
  gpio = gpio
  meta = meta
  typo = typo
  a = a
  b = b
  NoValue = NoValue
  NoMap = NoMap
  BadMap = BadMap
  NoDeployment = NoDeployment
  Deployment = {d1, d2}
  Wish <- AgreedWishes
  Key = {gpio, meta}
  Value = {a, b}
  Reserved = {meta}
  Known = {gpio}
  Reverts = FALSE
  MaxChanges = 2
  MaxFaults = 1
INVARIANTS
  TypeOK
  CertRecorded
  PortRecorded
  RequestHonoured
PROPERTIES
  NoRepeatedReboot
  ConfigEffective
  PortEffective
  CertEffective
  RequestCarriedOut
  RebootsSettle
