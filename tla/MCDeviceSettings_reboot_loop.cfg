SPECIFICATION FairSpec
CONSTANTS
  d1 = d1
  d2 = d2
  gpio = gpio
  meta = meta
  typo = typo
  a = a
  b = b
  NoValue = NoValue
  NoMap = NoMap
  BadMap = BadMap
  NoDeployment = NoDeployment
  Deployment = {d1}
  Wish <- MistypedWishes
  Key = {gpio, typo}
  Value = {a, b}
  Reserved = {}
  Known = {gpio}
  Reverts = FALSE
  MaxChanges = 0
  MaxFaults = 0
PROPERTIES
  RebootsSettle
