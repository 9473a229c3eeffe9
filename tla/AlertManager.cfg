SPECIFICATION FairSpec
CONSTANTS
  Projects   <- MCProjects
  Rules      <- MCRules
  MethodRows <- MCMethodRows
  Windows    <- MCWindows
  NoData     = NoData
  NoKey      = NoKey
  Cooldown   = 2
  PoolMax    = 2
  MaxFaults  = 1
INVARIANTS
  TypeOK
  NothingForgotten
  OneAlertPerGroup
  NoWeakerSubstitute
PROPERTIES
  CooldownRespected
  StandingRuleReported
