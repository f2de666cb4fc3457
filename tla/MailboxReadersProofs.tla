------------------------ MODULE MailboxReadersProofs ------------------------
(***************************************************************************)
(* Theorems about those who read the mailboxes and leases while requests   *)
(* change them: the listings of either store (MailboxViews) and the repair *)
(* script (Reconcile), for any number of mailboxes, leases and requests.   *)
(***************************************************************************)
EXTENDS MailboxViews, Reconcile, MailboxControlProofs

-----------------------------------------------------------------------------
(* The listings.                                                           *)

LEMMA BesideRows ==
  ASSUME NEW m, NEW S
  PROVE  /\ Beside(m, S) # {}
         /\ \A row \in Beside(m, S) : row.box = m /\ row.status = status[m]
         /\ S # {} => \A row \in Beside(m, S) : row.lease \in S
<1>1. CASE S = {}
  <2>1. Beside(m, S) = {[box |-> m, status |-> status[m], lease |-> NoLease]}
    BY <1>1 DEF Beside
  <2>. DEFINE only == [box |-> m, status |-> status[m], lease |-> NoLease]
  <2>2. only \in Beside(m, S) /\ \A row \in Beside(m, S) : row = only
    BY <2>1
  <2>3. only.box = m /\ only.status = status[m]
    OBVIOUS
  <2>. HIDE DEF only
  <2>4. QED
    BY <1>1, <2>2, <2>3
<1>2. CASE S # {}
  <2>1. Beside(m, S) = {[box |-> m, status |-> status[m], lease |-> l] : l \in S}
    BY <1>2 DEF Beside
  <2>2. PICK k \in S : TRUE
    BY <1>2
  <2>3. [box |-> m, status |-> status[m], lease |-> k] \in Beside(m, S)
    BY <2>1
  <2>4. ASSUME NEW row \in Beside(m, S)
        PROVE  row.box = m /\ row.status = status[m] /\ row.lease \in S
    BY <2>1
  <2>5. QED
    BY <2>3, <2>4
<1>3. QED
  BY <1>1, <1>2

\* A filter by the status of a mailbox finds its rows and no others of it.
LEMMA RowsOfMailbox ==
  ASSUME NEW m \in Mailboxes
  PROVE  {row \in Listed(status[m]) : row.box = m} = Beside(m, ActiveLeases(m))
<1>1. Listed(status[m]) =
        UNION {Beside(b, ActiveLeases(b)) : b \in {c \in Mailboxes : status[c] = status[m]}}
  BY DEF Listed, MemoryAdminMailboxes, PgAdminMailboxes
<1>2. \A b, S : \A row \in Beside(b, S) : row.box = b
  BY BesideRows
<1>3. Beside(m, ActiveLeases(m)) \subseteq Listed(status[m])
  BY <1>1
<1>4. ASSUME NEW row \in Listed(status[m]), row.box = m
      PROVE  row \in Beside(m, ActiveLeases(m))
  <2>1. PICK b \in Mailboxes : row \in Beside(b, ActiveLeases(b))
    BY <1>1
  <2>2. b = m
    BY <1>2, <1>4, <2>1
  <2>3. QED
    BY <2>1, <2>2
<1>5. QED
  BY <1>2, <1>3, <1>4

\* What the pages of an active lease show of it.
LEMMA ActiveLeaseShown ==
  ASSUME NEW m \in Mailboxes, NEW l \in ActiveLeases(m)
  PROVE  Lease(l) = {[box |-> m, status |-> "active"]}
<1>1. l \in Leases /\ leaseState[l] = "active" /\ leaseBox[l] = m
  BY DEF ActiveLeases
<1>2. MemoryLease(l) = {[box |-> m, status |-> "active"]}
  BY <1>1 DEF MemoryLease
<1>3. PgLease(l) = {[box |-> m, status |-> "active"]}
  <2>1. {j \in Leases : j = l /\ leaseState[j] # "unused"} = {l}
    BY <1>1
  <2>2. QED
    BY <1>1, <2>1 DEF PgLease
<1>4. QED
  BY <1>2, <1>3 DEF Lease

\* A mailbox is in the tenant's list, with an expiry when it has a lease.
LEMMA TenantItem ==
  ASSUME NEW m \in Mailboxes
  PROVE  [box |-> m, status |-> status[m], expires |-> ActiveLeases(m) # {}] \in Tenants
<1>1. (CurrentLease(m) # {NoLease}) = (ActiveLeases(m) # {})
  BY NoLeaseAssumption DEF CurrentLease, ActiveLeases
<1>2. (\E l \in Leases : leaseState[l] = "active" /\ leaseBox[l] = m)
        = (ActiveLeases(m) # {})
  BY DEF ActiveLeases
<1>3. QED
  BY <1>1, <1>2 DEF Tenants, MemoryTenantMailboxes, PgTenantMailboxes

\* Whatever the requests are in the middle of, the listings of either store
\* agree with each other, with the table and with the pages of the leases.
THEOREM ListingsAgree == Spec => []ViewsAgree
<1>1. ASSUME BackedInv PROVE ViewsAgree
  <2>. USE <1>1 DEF BackedInv
  <2>1. SUFFICES ASSUME NEW m \in Mailboxes
                 PROVE
        LET rows == {row \in Listed(status[m]) : row.box = m} IN
        /\ rows # {} /\ Account(m) \subseteq rows
        /\ Mailbox(m) = {[box |-> row.box, status |-> row.status] : row \in rows}
        /\ \E item \in Tenants :
             /\ item.box = m /\ item.status = status[m]
             /\ item.status = "leased" => item.expires
             /\ item.expires =>
                  \A row \in rows : Lease(row.lease) = {[box |-> m, status |-> "active"]}
    BY DEF ViewsAgree
  <2>. DEFINE rows == Beside(m, ActiveLeases(m))
             item == [box |-> m, status |-> status[m], expires |-> ActiveLeases(m) # {}]
  <2>2. /\ rows # {} /\ \A row \in rows : row.box = m /\ row.status = status[m]
        /\ ActiveLeases(m) # {} => \A row \in rows : row.lease \in ActiveLeases(m)
    BY BesideRows
  <2>3. Account(m) \subseteq rows
    BY DEF Account, MemoryAccount, PgAccount, CurrentLease, Beside
  <2>4. Mailbox(m) = {[box |-> row.box, status |-> row.status] : row \in rows}
    <3>1. Mailbox(m) = {[box |-> m, status |-> status[m]]}
      <4>1. Mailboxes \cap {m} = {m} /\ {c \in Mailboxes : c = m} = {m}
        OBVIOUS
      <4>2. QED
        BY <4>1 DEF Mailbox, MemoryMailbox, PgMailbox
    <3>. HIDE DEF rows
    <3>2. QED
      BY <2>2, <3>1
  <2>5. item \in Tenants
    BY TenantItem
  <2>6. item.status = "leased" => item.expires
    BY DEF LeasedIsBacked
  <2>7. ASSUME item.expires, NEW row \in rows
        PROVE  Lease(row.lease) = {[box |-> m, status |-> "active"]}
    <3>1. row.lease \in ActiveLeases(m)
      BY <2>2, <2>7
    <3>2. QED
      BY <3>1, ActiveLeaseShown
  <2>8. item.box = m /\ item.status = status[m]
    OBVIOUS
  <2>. HIDE DEF item
  <2>9. \E it \in Tenants :
          /\ it.box = m /\ it.status = status[m]
          /\ it.status = "leased" => it.expires
          /\ it.expires =>
               \A row \in rows : Lease(row.lease) = {[box |-> m, status |-> "active"]}
    BY <2>5, <2>6, <2>7, <2>8
  <2>. HIDE DEF rows
  <2>10. {row \in Listed(status[m]) : row.box = m} = rows
    BY RowsOfMailbox DEF rows
  <2>11. QED
    BY <2>2, <2>3, <2>4, <2>9, <2>10
<1>2. QED
  BY <1>1, BackedInvHolds, PTL

-----------------------------------------------------------------------------
(* The repair script beside the requests.                                  *)

RecBacked == RecTypeOK /\ BackedInv

\* The script's steps leave the tables and the requests alone.
LEMMA ScriptStep ==
  ASSUME RecBacked, ~(Next /\ UNCHANGED recVars), RecNext
  PROVE  /\ UNCHANGED <<tables, op, pc, box, held>>
         /\ account' \in [Mailboxes -> Accounts]
<1>1. ASSUME NEW m \in Mailboxes, RepairMailbox(m)
      PROVE  account' \in [Mailboxes -> Accounts]
  BY <1>1 DEF RepairMailbox, ReleaseAccount, RecBacked, RecTypeOK, TypeOK, Accounts
<1>2. QED
  BY <1>1 DEF RecNext, ListMailboxes, ProbeMailbox, ProbeThrows, RepairMailbox,
     AbortPass, vars, tables, RecBacked, RecTypeOK, TypeOK

LEMMA RecStep ==
  ASSUME RecBacked, [RecNext]_allVars
  PROVE  RecBacked'
<1>1. CASE Next /\ UNCHANGED recVars
  <2>1. BackedInv'
    BY <1>1, BackedStep DEF RecBacked
  <2>2. QED
    BY <1>1, <2>1 DEF recVars, RecBacked, RecTypeOK, BackedInv
<1>2. CASE RecNext /\ ~(Next /\ UNCHANGED recVars)
  <2>1. /\ UNCHANGED <<tables, op, pc, box, held>>
        /\ account' \in [Mailboxes -> Accounts]
    BY <1>2, ScriptStep
  <2>2. TypeOK'
    BY <2>1 DEF RecBacked, BackedInv, TypeOK, tables
  <2>3. BackedInv'
    BY <2>1, <2>2 DEF RecBacked, BackedInv, RequestsFit, LeasedIsBacked, ActiveLeases,
       tables
  <2>4. todo' \subseteq Mailboxes /\ listed' \in [Mailboxes -> Statuses]
        /\ fixing' \in Mailboxes \cup {NoMailbox}
    BY <1>2 DEF RecNext, ListMailboxes, ProbeMailbox, ProbeThrows, RepairMailbox, AbortPass,
       RecBacked, RecTypeOK, TypeOK
  <2>5. QED
    BY <2>2, <2>3, <2>4 DEF RecBacked, RecTypeOK
<1>3. CASE UNCHANGED allVars
  <2>1. UNCHANGED vars /\ UNCHANGED recVars
    BY <1>3 DEF allVars
  <2>2. BackedInv'
    BY <2>1, BackedStep DEF RecBacked
  <2>3. QED
    BY <2>1, <2>2 DEF recVars, RecBacked, RecTypeOK, BackedInv
<1>4. QED
  BY <1>1, <1>2, <1>3

LEMMA RecBackedHolds == RecSpec => []RecBacked
<1>1. RecInit => RecBacked
  BY BackedInit, TypeInit DEF RecInit, RecBacked, RecTypeOK, TypeOK
<1>2. RecBacked /\ [RecNext]_allVars => RecBacked'
  BY RecStep
<1>3. QED
  BY <1>1, <1>2, PTL DEF RecSpec

\* The types of the script's state, and of the tables and accounts while it
\* runs beside the requests.
THEOREM ReconcileTypes == RecSpec => []RecTypeOK
<1>1. RecBacked => RecTypeOK
  BY DEF RecBacked
<1>2. QED
  BY <1>1, RecBackedHolds, PTL

\* The script never takes a leased mailbox its lease, stale listing or not.
THEOREM RepairKeepsLeases == RecSpec => []LeasedIsBacked
<1>1. RecBacked => LeasedIsBacked
  BY DEF RecBacked, BackedInv
<1>2. QED
  BY <1>1, RecBackedHolds, PTL

\* No step of a pass whose listing is still true undoes an aligned mailbox, and
\* its repairs align the mailbox they are made for.
PassAligns ==
  Quiet /\ Quiet' /\ listed = status =>
    \A m \in Mailboxes : AlignedAt(m) \/ RepairMailbox(m) => AlignedAt(m)'

\* The safety half of EventuallyAligned: once the requests pause and a pass has
\* listed the table again, every repair aligns its mailbox, in either release
\* mode, and nothing the script does afterwards undoes that.
THEOREM FreshPassesAlign == RecSpec => [][PassAligns]_allVars
<1>1. ASSUME RecBacked, RecNext, Quiet, Quiet', listed = status,
             NEW m \in Mailboxes, AlignedAt(m) \/ RepairMailbox(m)
      PROVE  AlignedAt(m)'
  <2>1. ~Next
    <3>1. ASSUME NEW r \in Requests, RequestStarts(r)
          PROVE  FALSE
      BY <1>1, <3>1 DEF Quiet, RequestStarts, AllocateMailbox, ReleaseLease,
         AdminFreezeMailbox, AdminReleaseMailbox, ResetMailboxCredentials, Start,
         RecBacked, RecTypeOK, TypeOK
    <3>2. ASSUME NEW r \in Requests, RequestSteps(r)
          PROVE  FALSE
      BY <1>1, <3>2 DEF Quiet, RequestSteps, ProvisionMailbox, SaveMailboxProviderRef,
         IssueMailboxCredentials, MemoryReleaseMailbox, MemoryAdminEnd,
         PgReleaseActiveLeases, PgCommitMailboxStatus, BackendReleaseMailbox, Crash
    <3>3. QED
      BY <3>1, <3>2 DEF Next
  <2>2. status' = status
    BY <1>1, <2>1, ScriptStep DEF tables
  <2>3. ASSUME NEW n \in Mailboxes, RepairMailbox(n)
        PROVE  AlignedAt(m)'
    <3>1. account' = [account EXCEPT ![n] =
                        IF ExpectedEnabled(n) THEN "enabled" ELSE ReleaseAccount(n)]
      BY <2>3 DEF RepairMailbox
    <3>2. ReleaseAccount(n) # "enabled"
      BY DEF ReleaseAccount
    <3>3. CASE n = m
      BY <1>1, <2>2, <3>1, <3>2, <3>3 DEF AlignedAt, ExpectedEnabled, RecBacked,
         RecTypeOK, TypeOK
    <3>4. CASE n # m
      <4>1. ~RepairMailbox(m)
        BY <2>3, <3>4 DEF RepairMailbox
      <4>2. QED
        BY <1>1, <2>2, <3>1, <3>4, <4>1 DEF AlignedAt, RecBacked, RecTypeOK, TypeOK
    <3>5. QED
      BY <3>3, <3>4
  <2>4. CASE \A n \in Mailboxes : ~RepairMailbox(n)
    <3>1. account' = account
      BY <1>1, <2>1, <2>4 DEF RecNext, ListMailboxes, ProbeMailbox, ProbeThrows,
         AbortPass, vars
    <3>2. QED
      BY <1>1, <2>2, <2>4, <3>1 DEF AlignedAt
  <2>5. QED
    BY <2>3, <2>4
<1>2. RecBacked /\ [RecNext]_allVars => [PassAligns]_allVars
  BY <1>1 DEF PassAligns
<1>3. QED
  BY <1>2, RecBackedHolds, PTL DEF RecSpec

=============================================================================
