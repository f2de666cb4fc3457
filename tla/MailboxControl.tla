--------------------------- MODULE MailboxControl ---------------------------
(***************************************************************************)
(* The mailbox control plane of Agent Mail Cloud: the mailboxes and        *)
(* mailbox_leases tables, the Mailu account behind every mailbox, and the  *)
(* HTTP requests that change them (src/src/v2/tenant-commands.js and the   *)
(* admin handlers), one step per awaited call.                             *)
(*                                                                         *)
(* Two stores implement the tables.  MemoryStore runs each operation to    *)
(* completion.  PostgresStore runs it as a READ COMMITTED transaction of   *)
(* several statements; releasing is an UPDATE of the active leases (which  *)
(* locks those rows) followed by an UPDATE of the mailbox, and another     *)
(* transaction may commit between the two.                                 *)
(*                                                                         *)
(* One tenant is modelled: every query of the tenant's handlers filters on *)
(* the tenant, so tenants do not share mailboxes or leases.                *)
(***************************************************************************)
EXTENDS Naturals, FiniteSets

CONSTANTS Mailboxes,    \* the tenant's mailboxes
          Leases,       \* lease ids, a bound on the leases ever granted
          Requests,     \* requests that can be in flight together
          Store,        \* "memory" or "postgres" (src/src/store.js)
          ReleaseMode,  \* MAILU_RELEASE_MODE: "disable" or "delete"
          NoMailbox     \* the mailbox of an idle request, of an unused lease

ASSUME StoreAssumption == Store \in {"memory", "postgres"}
ASSUME ModeAssumption == ReleaseMode \in {"disable", "delete"}
ASSUME NoMailboxAssumption == NoMailbox \notin Mailboxes

VARIABLES status,      \* mailboxes.status
          leaseState,  \* mailbox_leases.status; "unused" before the insert
          leaseBox,    \* mailbox_leases.mailbox_id
          account,     \* the Mailu user of the mailbox
          op,          \* what a request does
          pc,          \* the await it is suspended at
          box,         \* the mailbox it works on
          held         \* the lease rows its open transaction has updated

vars == <<status, leaseState, leaseBox, account, op, pc, box, held>>
tables == <<status, leaseState, leaseBox>>

Statuses == {"available", "leased", "frozen"}
LeaseStates == {"unused", "active", "released"}
Accounts == {"missing", "enabled", "disabled"}
Ops == {"none", "allocate", "release", "freeze", "adminRelease", "reset"}
Steps == {"idle", "provision", "saveRef", "tx", "commit", "backend", "reissue"}

TypeOK ==
  /\ status \in [Mailboxes -> Statuses]
  /\ leaseState \in [Leases -> LeaseStates]
  /\ leaseBox \in [Leases -> Mailboxes \cup {NoMailbox}]
  /\ account \in [Mailboxes -> Accounts]
  /\ op \in [Requests -> Ops]
  /\ pc \in [Requests -> Steps]
  /\ box \in [Requests -> Mailboxes \cup {NoMailbox}]
  /\ held \in [Requests -> SUBSET Leases]

\* A new identity gets its mailboxes 'available'; no Mailu user exists yet.
Init ==
  /\ status = [m \in Mailboxes |-> "available"]
  /\ leaseState = [l \in Leases |-> "unused"]
  /\ leaseBox = [l \in Leases |-> NoMailbox]
  /\ account = [m \in Mailboxes |-> "missing"]
  /\ op = [r \in Requests |-> "none"]
  /\ pc = [r \in Requests |-> "idle"]
  /\ box = [r \in Requests |-> NoMailbox]
  /\ held = [r \in Requests |-> {}]

ActiveLeases(m) ==
  {l \in Leases : leaseState[l] = "active" /\ leaseBox[l] = m}

-----------------------------------------------------------------------------
(* Requests.                                                               *)

\* Request r, until now idle, takes up operation o on m and awaits step s.
Start(r, o, m, s) ==
  /\ pc[r] = "idle"
  /\ op' = [op EXCEPT ![r] = o]
  /\ box' = [box EXCEPT ![r] = m]
  /\ pc' = [pc EXCEPT ![r] = s]
  /\ held' = held

\* Request r goes on to await step s.
GoTo(r, s) ==
  /\ pc' = [pc EXCEPT ![r] = s]
  /\ UNCHANGED <<op, box, held>>

\* Request r answers; an open transaction of it is over.
Finish(r) ==
  /\ op' = [op EXCEPT ![r] = "none"]
  /\ box' = [box EXCEPT ![r] = NoMailbox]
  /\ pc' = [pc EXCEPT ![r] = "idle"]
  /\ held' = [held EXCEPT ![r] = {}]

-----------------------------------------------------------------------------
(* POST /v2/mailboxes/leases: grant, provision, save the reference.        *)

\* Mutant: the search for a mailbox only skips frozen ones.
AllocateLeasedToo(r, m, l) ==
  /\ status[m] # "frozen"
  /\ leaseState[l] = "unused"
  /\ status' = [status EXCEPT ![m] = "leased"]
  /\ leaseState' = [leaseState EXCEPT ![l] = "active"]
  /\ leaseBox' = [leaseBox EXCEPT ![l] = m]
  /\ Start(r, "allocate", m, "provision")
  /\ UNCHANGED account

\* Mutant: the search for a mailbox only skips leased ones.
AllocateFrozenToo(r, m, l) ==
  /\ status[m] # "leased"
  /\ leaseState[l] = "unused"
  /\ status' = [status EXCEPT ![m] = "leased"]
  /\ leaseState' = [leaseState EXCEPT ![l] = "active"]
  /\ leaseBox' = [leaseBox EXCEPT ![l] = m]
  /\ Start(r, "allocate", m, "provision")
  /\ UNCHANGED account

\* The grant is one step in both stores: FOR UPDATE SKIP LOCKED keeps the
\* mailbox row locked from the SELECT to the COMMIT.
AllocateMailbox(r, m, l) ==
  /\ status[m] = "available"
  /\ leaseState[l] = "unused"
  /\ status' = [status EXCEPT ![m] = "leased"]
  /\ leaseState' = [leaseState EXCEPT ![l] = "active"]
  /\ leaseBox' = [leaseBox EXCEPT ![l] = m]
  /\ Start(r, "allocate", m, "provision")
  /\ UNCHANGED account

\* provisionMailbox creates the user, or re-enables it (409, PATCH).  When it
\* throws, it may have done so already: the answer can be lost.
ProvisionMailbox(r) ==
  /\ pc[r] = "provision"
  /\ \/ /\ account' = [account EXCEPT ![box[r]] = "enabled"]
        /\ GoTo(r, "saveRef") \/ GoTo(r, "tx")
     \/ /\ GoTo(r, "tx")
        /\ UNCHANGED account
  /\ UNCHANGED tables

\* saveMailboxProviderRef: afterwards the request answers 201.  A failing
\* query goes to the catch branch, which releases the mailbox in the store
\* but leaves the Mailu user alone.
SaveMailboxProviderRef(r) ==
  /\ pc[r] = "saveRef"
  /\ \/ Finish(r)
     \/ Store = "postgres" /\ GoTo(r, "tx")
  /\ UNCHANGED <<tables, account>>

-----------------------------------------------------------------------------
(* The other handlers' first steps.                                        *)

\* getTenantLeaseById finds a lease of any status, an ended one too, and the
\* handler goes on with its mailbox.
ReleaseLease(r, l) ==
  /\ leaseState[l] # "unused"
  /\ Start(r, "release", leaseBox[l], "tx")
  /\ UNCHANGED <<tables, account>>

AdminFreezeMailbox(r, m) ==
  /\ Start(r, "freeze", m, "tx")
  /\ UNCHANGED <<tables, account>>

AdminReleaseMailbox(r, m) ==
  /\ Start(r, "adminRelease", m, "tx")
  /\ UNCHANGED <<tables, account>>

\* The reset looks the mailbox up but at neither its status nor its leases.
ResetMailboxCredentials(r, m) ==
  /\ Start(r, "reset", m, "reissue")
  /\ UNCHANGED <<tables, account>>

\* issueMailboxCredentials enables the user, creating a missing one.
IssueMailboxCredentials(r) ==
  /\ pc[r] = "reissue"
  /\ account' \in {account, [account EXCEPT ![box[r]] = "enabled"]}
  /\ Finish(r)
  /\ UNCHANGED tables

-----------------------------------------------------------------------------
(* Ending the leases of a mailbox in the store.  op[r] = "allocate" at     *)
(* step "tx" is the compensation of an allocation that failed.             *)

\* Mutant: the mailbox gets the lease's word for the end of a lease.
EndedStatusOfLease(o) == IF o = "freeze" THEN "frozen" ELSE "released"

EndedStatus(o) == IF o = "freeze" THEN "frozen" ELSE "available"

\* A tenant's release goes on to Mailu; the other three are done.
AfterStore(r) == IF op[r] = "release" THEN GoTo(r, "backend") ELSE Finish(r)

ReleaseRows(S) ==
  leaseState' = [l \in Leases |-> IF l \in S THEN "released" ELSE leaseState[l]]

\* Mutant: the lease ends but the mailbox keeps its status.
MemoryReleaseLeaseOnly(r) ==
  /\ Store = "memory"
  /\ pc[r] = "tx" /\ op[r] \in {"allocate", "release"}
  /\ \/ ActiveLeases(box[r]) = {} /\ UNCHANGED leaseState
     \/ \E l \in ActiveLeases(box[r]) : ReleaseRows({l})
  /\ AfterStore(r)
  /\ UNCHANGED <<status, leaseBox, account>>

\* Mutant: no early return without an active lease, as in PostgresStore.
MemoryReleaseAlways(r) ==
  /\ Store = "memory"
  /\ pc[r] = "tx" /\ op[r] \in {"allocate", "release"}
  /\ ReleaseRows(ActiveLeases(box[r]))
  /\ status' = [status EXCEPT ![box[r]] = "available"]
  /\ AfterStore(r)
  /\ UNCHANGED <<leaseBox, account>>

\* MemoryStore.releaseMailbox: without an active lease nothing changes, so a
\* frozen mailbox stays frozen.
MemoryReleaseMailbox(r) ==
  /\ Store = "memory"
  /\ pc[r] = "tx" /\ op[r] \in {"allocate", "release"}
  /\ \/ /\ ActiveLeases(box[r]) = {}
        /\ UNCHANGED <<status, leaseState>>
     \/ \E l \in ActiveLeases(box[r]) :
          /\ ReleaseRows({l})
          /\ status' = [status EXCEPT ![box[r]] = "available"]
  /\ AfterStore(r)
  /\ UNCHANGED <<leaseBox, account>>

\* MemoryStore.adminFreezeMailbox and adminReleaseMailbox set the status
\* whether or not there is an active lease.
MemoryAdminEnd(r) ==
  /\ Store = "memory"
  /\ pc[r] = "tx" /\ op[r] \in {"freeze", "adminRelease"}
  /\ \/ ActiveLeases(box[r]) = {} /\ UNCHANGED leaseState
     \/ \E l \in ActiveLeases(box[r]) : ReleaseRows({l})
  /\ status' = [status EXCEPT ![box[r]] = EndedStatus(op[r])]
  /\ AfterStore(r)
  /\ UNCHANGED <<leaseBox, account>>

\* Mutant: the UPDATE has lost its mailbox_id condition.
PgReleaseTenantLeases(r) ==
  /\ Store = "postgres"
  /\ pc[r] = "tx"
  /\ held' = [held EXCEPT ![r] = {l \in Leases : leaseState[l] = "active"}]
  /\ pc' = [pc EXCEPT ![r] = "commit"]
  /\ UNCHANGED <<tables, account, op, box>>

\* PostgresStore, first statement of all four: UPDATE mailbox_leases SET
\* status = 'released' WHERE status = 'active'.  It waits while another
\* transaction has updated one of the rows; its own update stays invisible to
\* the others until the commit.
PgReleaseActiveLeases(r) ==
  /\ Store = "postgres"
  /\ pc[r] = "tx"
  /\ \A q \in Requests : held[q] \cap ActiveLeases(box[r]) = {}
  /\ held' = [held EXCEPT ![r] = ActiveLeases(box[r])]
  /\ pc' = [pc EXCEPT ![r] = "commit"]
  /\ UNCHANGED <<tables, account, op, box>>

\* Mutant: the commit of the leases without the mailbox.
PgCommitLeasesOnly(r) ==
  /\ pc[r] = "commit"
  /\ ReleaseRows(held[r])
  /\ Finish(r)
  /\ UNCHANGED <<status, leaseBox, account>>

\* PostgresStore, the rest: UPDATE mailboxes SET status, the audit row and
\* COMMIT.  The status is written without looking at the one it replaces.
PgCommitMailboxStatus(r) ==
  /\ pc[r] = "commit"
  /\ ReleaseRows(held[r])
  /\ status' = [status EXCEPT ![box[r]] = EndedStatus(op[r])]
  /\ IF op[r] = "release"
     THEN /\ pc' = [pc EXCEPT ![r] = "backend"]
          /\ held' = [held EXCEPT ![r] = {}]
          /\ UNCHANGED <<op, box>>
     ELSE Finish(r)
  /\ UNCHANGED <<leaseBox, account>>

\* releaseMailbox of the adapter, called after the store's commit.  Mode
\* "disable" fails on a missing user; a failure is answered 502 and leaves
\* the store released.
ReleaseAccount(m) ==
  IF ReleaseMode = "delete" THEN "missing"
  ELSE IF account[m] = "missing" THEN "missing" ELSE "disabled"

BackendReleaseMailbox(r) ==
  /\ pc[r] = "backend"
  /\ account' \in {account, [account EXCEPT ![box[r]] = ReleaseAccount(box[r])]}
  /\ Finish(r)
  /\ UNCHANGED tables

\* The process serving r dies, or its connection to Postgres does: an open
\* transaction is rolled back.  MemoryStore does not outlive its process.
Crash(r) ==
  /\ Store = "postgres"
  /\ pc[r] # "idle"
  /\ Finish(r)
  /\ UNCHANGED <<tables, account>>

-----------------------------------------------------------------------------
RequestStarts(r) ==
  \/ \E m \in Mailboxes, l \in Leases : AllocateMailbox(r, m, l)
  \/ \E l \in Leases : ReleaseLease(r, l)
  \/ \E m \in Mailboxes : \/ AdminFreezeMailbox(r, m)
                          \/ AdminReleaseMailbox(r, m)
                          \/ ResetMailboxCredentials(r, m)

RequestSteps(r) ==
  \/ ProvisionMailbox(r)
  \/ SaveMailboxProviderRef(r)
  \/ IssueMailboxCredentials(r)
  \/ MemoryReleaseMailbox(r)
  \/ MemoryAdminEnd(r)
  \/ PgReleaseActiveLeases(r)
  \/ PgCommitMailboxStatus(r)
  \/ BackendReleaseMailbox(r)
  \/ Crash(r)

Next == \E r \in Requests : RequestStarts(r) \/ RequestSteps(r)

Spec == Init /\ [][Next]_vars

-----------------------------------------------------------------------------
(* Properties.                                                             *)

\* Both stores: a mailbox shown as leased has a lease that is still active,
\* whatever releases, freezes and compensations overlap with the grant.
\* (Releasing a lease and resetting the mailbox are two statements.)
LeasedIsBacked ==
  \A m \in Mailboxes : status[m] = "leased" => ActiveLeases(m) # {}

\* MemoryStore: an active lease has its mailbox to itself, and the mailbox
\* says so; what docs/mailagents-v2-technical-design.md:207 asks of the leases.
ExclusiveLeases ==
  \A m \in Mailboxes :
    /\ \A k, l \in ActiveLeases(m) : k = l
    /\ ActiveLeases(m) # {} => status[m] = "leased"

\* At most one active lease per mailbox account
\* (docs/mailagents-v2-technical-design.md:207).
OneActiveLease ==
  \A m \in Mailboxes : Cardinality(ActiveLeases(m)) <= 1

\* A step that takes a mailbox out of 'frozen' is an operator's release of it.
ThawedByOperator ==
  \A m \in Mailboxes :
    status[m] = "frozen" /\ status'[m] # "frozen" =>
      \E r \in Requests : op[r] = "adminRelease" /\ box[r] = m /\ pc'[r] # pc[r]

\* A frozen mailbox cannot be given out again until an operator releases it
\* (docs/admin-dashboard.md:201): no tenant's release, no late compensation
\* of an allocation and no other request takes it out of 'frozen'.
FreezeHolds == [][ThawedByOperator]_vars

\* What a step may do to lease rows.
LeaseStep ==
  \A l \in Leases :
    /\ leaseState[l] = "released" => leaseState'[l] = "released"
    /\ leaseState[l] = "active" =>
         /\ leaseBox'[l] = leaseBox[l]
         /\ leaseState'[l] = "released" =>
              /\ status'[leaseBox[l]] # "leased"
              /\ \E r \in Requests : box[r] = leaseBox[l] /\ pc'[r] # pc[r]

\* A lease row goes from active to released once, never back, and never to
\* another mailbox; and it only ends together with a write of its mailbox's
\* status, or for the mailbox of the request that ends it.
LeaseHistory == [][LeaseStep]_vars

\* What the requests know of the tables, without which LeasedIsBacked is not
\* inductive: a request in flight works on a mailbox, a row in use names its
\* mailbox, and a transaction has only updated lease rows of its mailbox.
RequestsFit ==
  /\ \A r \in Requests : pc[r] # "idle" => box[r] \in Mailboxes
  /\ \A l \in Leases : leaseState[l] # "unused" => leaseBox[l] \in Mailboxes
  /\ \A r \in Requests : \A l \in held[r] :
       pc[r] = "commit" /\ leaseState[l] # "unused" /\ leaseBox[l] = box[r]

=============================================================================
