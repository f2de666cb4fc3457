------------------------ MODULE MemoryLeaseRefinement ------------------------
(***************************************************************************)
(* MailboxControl over MemoryStore implements ExclusiveLease: the lease    *)
(* rows with status 'active' are the leases held, those with status        *)
(* 'released' the leases that are over.                                    *)
(***************************************************************************)
EXTENDS MailboxControl

liveLeases ==
  {p \in Mailboxes \X Leases : leaseState[p[2]] = "active" /\ leaseBox[p[2]] = p[1]}
endedLeases == {l \in Leases : leaseState[l] = "released"}
frozenBoxes == {m \in Mailboxes : status[m] = "frozen"}

EL == INSTANCE ExclusiveLease
        WITH live <- liveLeases, ended <- endedLeases, frozen <- frozenBoxes

\* Every step of every request, seen through the tables, is a grant, a
\* release, a freeze or a reopening of the abstract leases, or changes none.
ImplementsExclusiveLease == EL!Spec

=============================================================================
