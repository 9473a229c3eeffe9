SPECIFICATION Spec
CONSTANTS
  ValidNames = {"shop", "blog"}
  InvalidNames = {"x"}
  MaxCreates = 3
  Samples = {1, 2, 3, 4}
  MaxKept = 3
  Sizes = {2, 3}
  MaxArrivals = 5
  Emails = {"e1"}
  RuleTypes = {"cpu_usage", "log_count"}
  LogValues <- MCLogValues
  MaxRules = 2
  MaxMails = 2
  Settings = {"s1", "s2", "s3"}
  MaxSaves = 3
  Modes = {"error"}
  Sources = {1, 2}
  MaxPages = 5
  MaxLinks = 3
  MaxAsks = 3
  Bounds <- MCBounds
  Now = 8
  DayHours = 3
  Offset = 1
  MaxPicks = 3
INVARIANTS TypeOK OneRulePerFilling PageSettles
PROPERTY SentFormIsSound
CHECK_DEADLOCK FALSE
