CONSTANTS
  GlobalDefault <- MCGlobalDefault
  Devices <- MCDevices
  Profile = Profile
  Pointing <- MCPointing
  Files <- MCFiles
  PairInputs <- MCPairs
  RuleInputs <- MCRules
  Values <- MCValues
  Formulas = {62, 90}
  MaxEdits = 2
  MaxProfiles = 3
SPECIFICATION Spec
INVARIANTS
  WellFormed
  NoAlwaysDisabledDevice
  SaveSettles
  ReloadKeepsEffective
PROPERTIES
  LookingChangesNothing
  SelectTakesEffect
