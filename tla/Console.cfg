\* Any two commands together over two clients, as many as the two that nest
\* need to starve the pool; and a few times three: with a cooldown of one
\* mail, three sends are the fewest that could exceed it by more than those in
\* flight, and a first load needs a third call to meet two updates.  All calls
\* used up is not a deadlock.
SPECIFICATION MCSpec
CONSTANTS
  MaxCalls = 3
  InFlight = 2
  PoolSize = 2
  CooldownLimit = 1
  PageSize = 1
  Menu <- PairsAndTriples
INVARIANTS TypeOK AnsweredIsAudited AuditTellsTruth AnsweredIsVisible SettingsAgree
INVARIANTS OnlyNestingStarvesPool PagesMissNothing AcceptedIsMailed CooldownHolds
PROPERTIES ImplementsSubmitOnce
CHECK_DEADLOCK FALSE
