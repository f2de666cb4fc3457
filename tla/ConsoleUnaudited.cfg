\* An update of the runtime settings, alone.
SPECIFICATION MCSpec
CONSTANTS
  MaxCalls = 1
  InFlight = 1
  PoolSize = 2
  CooldownLimit = 1
  PageSize = 1
  Menu <- SettingsAlone
INVARIANTS WritesAreAudited
CHECK_DEADLOCK FALSE
