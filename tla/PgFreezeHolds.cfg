\* A freeze, then a release of a lease that was over before it.
SPECIFICATION Spec
CONSTANTS
  Mailboxes = {m1}
  Leases = {l1, l2, l3}
  Requests = {r1, r2}
  Store = "postgres"
  ReleaseMode = "disable"
  NoMailbox = NoMailbox
PROPERTY FreezeHolds
