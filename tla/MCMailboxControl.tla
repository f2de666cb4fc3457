-------------------------- MODULE MCMailboxControl --------------------------
(* MailboxControl, its views and its refinement for TLC: the mailboxes,     *)
(* leases and requests of an instance are interchangeable.                  *)
EXTENDS MailboxViews, MemoryLeaseRefinement, TLC

Symmetry ==
  Permutations(Mailboxes) \cup Permutations(Leases) \cup Permutations(Requests)

=============================================================================
