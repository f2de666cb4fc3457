\* Two mailboxes, three leases and three concurrent requests over MemoryStore.
SPECIFICATION Spec
CONSTANTS
  Mailboxes = {m1, m2}
  Leases = {l1, l2, l3}
  Requests = {r1, r2, r3}
  Store = "memory"
  ReleaseMode = "disable"
  NoMailbox = NoMailbox
SYMMETRY Symmetry
INVARIANTS LeasedIsBacked ExclusiveLeases ViewsAgree
PROPERTIES FreezeHolds ImplementsExclusiveLease
