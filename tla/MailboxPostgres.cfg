\* Two mailboxes, three leases and three concurrent requests over PostgresStore.
SPECIFICATION Spec
CONSTANTS
  Mailboxes = {m1, m2}
  Leases = {l1, l2, l3}
  Requests = {r1, r2, r3}
  Store = "postgres"
  ReleaseMode = "delete"
  NoMailbox = NoMailbox
SYMMETRY Symmetry
INVARIANTS TypeOK LeasedIsBacked ViewsAgree
PROPERTIES LeaseHistory
