\* Two leases of one mailbox and two requests beside the repair script: a pass
\* can be overtaken by a release and a new grant.  Every pass ends at a second
\* mailbox, for which Mailu always fails.
SPECIFICATION MCRecSpec
CONSTANTS
  Mailboxes = {1, 2}
  Leases = {l1, l2}
  Requests = {r1, r2}
  Store = "postgres"
  ReleaseMode = "disable"
  NoMailbox = NoMailbox
  Address <- InOrder
  Broken = {2}
INVARIANT RecTypeOK
PROPERTIES EventuallyAligned
