SPECIFICATION Spec
CONSTANTS
  d1 = d1
  d2 = d2
  n1 = n1
  n2 = n2
  i1 = i1
  i2 = i2
  k1 = k1
  k2 = k2
  NoDeployment = NoDeployment
  NoImage = NoImage
  NoNode = NoNode
  Deployment = {d1}
  Node = {n1}
  Image = {i1, i2}
  Controller = {k1}
  Matches <- AllNodes
  ConfigRef = {d1}
  CacheLag = TRUE
INVARIANTS
  ConfirmingArmed
  StatusCoherent
  NothingForgotten
PROPERTIES
  ActivatedAsResolved
