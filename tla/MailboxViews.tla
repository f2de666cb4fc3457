---------------------------- MODULE MailboxViews ----------------------------
(***************************************************************************)
(* What the read calls of both stores show of mailboxes and their leases.  *)
(* A lease in a row stands for its agent and expiry, and may be one of     *)
(* several where a store takes the first it finds.                         *)
(***************************************************************************)
EXTENDS MailboxControl

NoLease == "none"

\* The ids of leases are made up by the store; none of them is the null of a
\* mailbox without a lease.
ASSUME NoLeaseAssumption == NoLease \notin Leases

\* The mailbox beside each of the leases given, or alone.
Beside(m, leases) ==
  {[box |-> m, status |-> status[m], lease |-> l] :
     l \in IF leases = {} THEN {NoLease} ELSE leases}

\* Mutant: a lease is found whatever its status.
CurrentLeaseAny(m) ==
  IF {l \in Leases : leaseBox[l] = m} = {} THEN {NoLease}
  ELSE {l \in Leases : leaseBox[l] = m}

\* getActiveLeaseByMailboxId, _currentLeaseByMailbox: one active lease.
CurrentLease(m) ==
  IF ActiveLeases(m) = {} THEN {NoLease} ELSE ActiveLeases(m)

\* adminListMailboxes with a status.
MemoryAdminMailboxes(s) ==
  UNION {Beside(m, ActiveLeases(m)) : m \in {b \in Mailboxes : status[b] = s}}

\* Mutant: an inner join.
PgAdminMailboxesInner(s) ==
  {[box |-> m, status |-> status[m], lease |-> l] : m \in Mailboxes, l \in Leases}
    \cap UNION {Beside(m, ActiveLeases(m)) : m \in {b \in Mailboxes : status[b] = s}}

\* A left join: a row for every active lease.
PgAdminMailboxes(s) ==
  UNION {Beside(m, ActiveLeases(m)) : m \in {b \in Mailboxes : status[b] = s}}

\* adminGetMailboxAccount: one of these rows.
MemoryAccount(m) ==
  {[box |-> m, status |-> status[m], lease |-> l] : l \in CurrentLease(m)}

PgAccount(m) == {row \in Beside(m, ActiveLeases(m)) : row.box = m}

\* listTenantMailboxes: a row a mailbox, with the expiry of an active lease.
MemoryTenantMailboxes ==
  {[box |-> m, status |-> status[m], expires |-> CurrentLease(m) # {NoLease}] :
     m \in Mailboxes}

PgTenantMailboxes ==
  {[box |-> m, status |-> status[m],
    expires |-> \E l \in Leases : leaseState[l] = "active" /\ leaseBox[l] = m] :
     m \in Mailboxes}

\* getTenantMailbox; the empty set is its null.
MemoryMailbox(m) == {[box |-> b, status |-> status[b]] : b \in Mailboxes \cap {m}}

PgMailbox(m) == {[box |-> b, status |-> status[b]] : b \in {c \in Mailboxes : c = m}}

\* getTenantLeaseById, for leases of any status.
MemoryLease(l) ==
  IF leaseState[l] = "unused" THEN {}
  ELSE {[box |-> leaseBox[l], status |-> leaseState[l]]}

PgLease(l) ==
  {[box |-> leaseBox[k], status |-> leaseState[k]] :
     k \in {j \in Leases : j = l /\ leaseState[j] # "unused"}}

Listed(s) ==
  IF Store = "memory" THEN MemoryAdminMailboxes(s) ELSE PgAdminMailboxes(s)

Account(m) == IF Store = "memory" THEN MemoryAccount(m) ELSE PgAccount(m)

Tenants == IF Store = "memory" THEN MemoryTenantMailboxes ELSE PgTenantMailboxes

Mailbox(m) == IF Store = "memory" THEN MemoryMailbox(m) ELSE PgMailbox(m)

Lease(l) == IF Store = "memory" THEN MemoryLease(l) ELSE PgLease(l)

-----------------------------------------------------------------------------
(* Property.                                                               *)

\* Wherever a mailbox is shown, at any moment between the steps of requests,
\* it is shown with the same status; one shown as leased is shown with an
\* expiry and with leases that the lease's own page calls active and its own;
\* and no filter by status loses a mailbox, leased or not.
ViewsAgree ==
  \A m \in Mailboxes :
    LET rows == {row \in Listed(status[m]) : row.box = m} IN
    /\ rows # {} /\ Account(m) \subseteq rows
    /\ Mailbox(m) = {[box |-> row.box, status |-> row.status] : row \in rows}
    /\ \E item \in Tenants :
         /\ item.box = m /\ item.status = status[m]
         /\ item.status = "leased" => item.expires
         /\ item.expires =>
              \A row \in rows : Lease(row.lease) = {[box |-> m, status |-> "active"]}

=============================================================================
