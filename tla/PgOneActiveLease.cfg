\* The smallest instance in which two releases and two grants overlap.
SPECIFICATION Spec
CONSTANTS
  Mailboxes = {m1}
  Leases = {l1, l2, l3}
  Requests = {r1, r2}
  Store = "postgres"
  ReleaseMode = "disable"
  NoMailbox = NoMailbox
INVARIANT OneActiveLease
