SPECIFICATION Spec
CONSTANTS
  Proto = {"tcp", "udp", "ip"}
  App <- MCApp
  Buffer = 2
  MaxRules = 3
  Key = {"username", "password"}
  Value <- MCValue
  Legal <- MCLegal
  Default <- MCDefault
  Shipped <- MCShipped
  Assigns <- MCAssigns
  Below <- MCBelow
INVARIANTS RulesCopySurvives SettingsCopySurvives SettingsInUse
PROPERTIES CutOnlyIfLong PlainRulesSurvive
