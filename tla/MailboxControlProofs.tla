------------------------ MODULE MailboxControlProofs ------------------------
(***************************************************************************)
(* Theorems about MailboxControl for any number of mailboxes, leases and   *)
(* requests.                                                               *)
(***************************************************************************)
EXTENDS MemoryLeaseRefinement, TLAPS

LEMMA TypeInit == Init => TypeOK
BY DEF Init, TypeOK, Statuses, LeaseStates, Accounts, Ops, Steps

LEMMA TypeStep ==
  ASSUME TypeOK, [Next]_vars
  PROVE  TypeOK'
<1> USE DEF TypeOK, Statuses, LeaseStates, Accounts, Ops, Steps, tables
<1>1. ASSUME NEW r \in Requests, RequestStarts(r)
      PROVE  TypeOK'
  BY <1>1 DEF RequestStarts, AllocateMailbox, ReleaseLease, AdminFreezeMailbox,
              AdminReleaseMailbox, ResetMailboxCredentials, Start
<1>2. ASSUME NEW r \in Requests, RequestSteps(r)
      PROVE  TypeOK'
  <2> USE DEF GoTo, Finish
  <2>1. CASE ProvisionMailbox(r)
    BY <2>1 DEF ProvisionMailbox
  <2>2. CASE SaveMailboxProviderRef(r)
    BY <2>2 DEF SaveMailboxProviderRef
  <2>3. CASE IssueMailboxCredentials(r)
    BY <2>3 DEF IssueMailboxCredentials
  <2>4. CASE MemoryReleaseMailbox(r)
    BY <2>4 DEF MemoryReleaseMailbox, AfterStore, ReleaseRows
  <2>5. CASE MemoryAdminEnd(r)
    <3>1. leaseState' \in [Leases -> LeaseStates]
      BY <2>5 DEF MemoryAdminEnd, ReleaseRows
    <3>2. status' \in [Mailboxes -> Statuses]
      BY <2>5 DEF MemoryAdminEnd, EndedStatus
    <3> QED
      BY <2>5, <3>1, <3>2 DEF MemoryAdminEnd, AfterStore
  <2>6. CASE PgReleaseActiveLeases(r)
    BY <2>6 DEF PgReleaseActiveLeases, ActiveLeases
  <2>7. CASE PgCommitMailboxStatus(r)
    BY <2>7 DEF PgCommitMailboxStatus, ReleaseRows, EndedStatus
  <2>8. CASE BackendReleaseMailbox(r)
    BY <2>8 DEF BackendReleaseMailbox, ReleaseAccount
  <2>9. CASE Crash(r)
    BY <2>9 DEF Crash
  <2> QED
    BY <1>2, <2>1, <2>2, <2>3, <2>4, <2>5, <2>6, <2>7, <2>8, <2>9 DEF RequestSteps
<1>3. CASE UNCHANGED vars
  BY <1>3 DEF vars
<1> QED
  BY <1>1, <1>2, <1>3 DEF Next

\* Type correctness, for either store and either release mode.
THEOREM TypeCorrect == Spec => []TypeOK
<1>1. TypeOK /\ [Next]_vars => TypeOK'
  BY TypeStep
<1> QED
  BY TypeInit, <1>1, PTL DEF Spec

-----------------------------------------------------------------------------
(* A leased mailbox has an active lease.                                   *)

BackedInv == TypeOK /\ RequestsFit /\ LeasedIsBacked

\* A step that leaves the tables alone, and only takes box and rows away from
\* requests, keeps BackedInv.
LEMMA TablesAlone ==
  ASSUME BackedInv, TypeOK', UNCHANGED tables,
         \A q \in Requests : pc'[q] # "idle" => box'[q] \in Mailboxes,
         \A q \in Requests : held'[q] = {} \/ (held'[q] = held[q] /\ pc'[q] = pc[q]
                                                /\ box'[q] = box[q])
  PROVE  BackedInv'
<1>1. RequestsFit'
  BY DEF BackedInv, RequestsFit, TypeOK, tables
<1>2. LeasedIsBacked'
  BY DEF BackedInv, LeasedIsBacked, ActiveLeases, tables
<1> QED
  BY <1>1, <1>2 DEF BackedInv

\* Ending leases of one mailbox, together with a status that is not 'leased',
\* leaves every other mailbox its lease.
LEMMA EndingKeepsOthersBacked ==
  ASSUME NEW S \in SUBSET Leases, NEW m \in Mailboxes, NEW s \in {"available", "frozen"},
         TypeOK, LeasedIsBacked,
         \A l \in S : leaseBox[l] = m,
         leaseBox' = leaseBox,
         leaseState' = [l \in Leases |-> IF l \in S THEN "released" ELSE leaseState[l]],
         status' = [status EXCEPT ![m] = s]
  PROVE  LeasedIsBacked'
<1> SUFFICES ASSUME NEW n \in Mailboxes, status'[n] = "leased"
             PROVE  \E l \in Leases : leaseState'[l] = "active" /\ leaseBox'[l] = n
  BY DEF LeasedIsBacked, ActiveLeases
<1>1. n # m /\ status[n] = "leased"
  BY DEF TypeOK
<1>2. PICK l \in Leases : leaseState[l] = "active" /\ leaseBox[l] = n
  BY <1>1 DEF LeasedIsBacked, ActiveLeases
<1>3. l \notin S
  BY <1>1, <1>2
<1> QED
  BY <1>2, <1>3 DEF TypeOK

LEMMA StartKeepsBacked ==
  ASSUME BackedInv, TypeOK', NEW r \in Requests, RequestStarts(r)
  PROVE  BackedInv'
<1> USE DEF BackedInv
<1>1. \A q \in Requests : held[q] # {} => pc[q] = "commit"
  BY DEF RequestsFit, TypeOK
<1>2. ASSUME NEW m \in Mailboxes, NEW l \in Leases, AllocateMailbox(r, m, l)
      PROVE  BackedInv'
  <2>1. RequestsFit'
    BY <1>1, <1>2 DEF AllocateMailbox, Start, RequestsFit, TypeOK
  <2>2. LeasedIsBacked'
    BY <1>2 DEF AllocateMailbox, LeasedIsBacked, ActiveLeases, TypeOK
  <2> QED
    BY <2>1, <2>2
<1>3. ASSUME NEW m \in Mailboxes, NEW o, NEW s, Start(r, o, m, s), UNCHANGED tables
      PROVE  BackedInv'
  <2>1. \A q \in Requests : pc'[q] # "idle" => box'[q] \in Mailboxes
    BY <1>3 DEF Start, RequestsFit, TypeOK
  <2>2. \A q \in Requests : held'[q] = {} \/ (held'[q] = held[q] /\ pc'[q] = pc[q]
                                                /\ box'[q] = box[q])
    BY <1>1, <1>3 DEF Start, TypeOK
  <2> QED
    BY <1>3, <2>1, <2>2, TablesAlone
<1>4. ASSUME NEW l \in Leases, ReleaseLease(r, l)
      PROVE  BackedInv'
  <2>1. leaseBox[l] \in Mailboxes
    BY <1>4 DEF ReleaseLease, RequestsFit
  <2> QED
    BY <1>3, <1>4, <2>1 DEF ReleaseLease
<1> QED
  BY <1>2, <1>3, <1>4 DEF RequestStarts, AdminFreezeMailbox, AdminReleaseMailbox,
                          ResetMailboxCredentials

LEMMA StepKeepsBacked ==
  ASSUME BackedInv, TypeOK', NEW r \in Requests, RequestSteps(r)
  PROVE  BackedInv'
<1> USE DEF BackedInv
<1>1. \A q \in Requests : held[q] # {} => pc[q] = "commit"
  BY DEF RequestsFit, TypeOK
<1>2. ASSUME UNCHANGED tables,
             Finish(r) \/ \E s : GoTo(r, s) /\ pc[r] # "commit" /\ pc[r] # "idle"
      PROVE  BackedInv'
  <2>1. \A q \in Requests : pc'[q] # "idle" => box'[q] \in Mailboxes
    BY <1>2 DEF Finish, GoTo, RequestsFit, TypeOK
  <2>2. \A q \in Requests : held'[q] = {} \/ (held'[q] = held[q] /\ pc'[q] = pc[q]
                                                /\ box'[q] = box[q])
    BY <1>1, <1>2 DEF Finish, GoTo, TypeOK
  <2> QED
    BY <1>2, <2>1, <2>2, TablesAlone
<1>3. ASSUME NEW S \in SUBSET Leases, NEW s \in {"available", "frozen"},
             ReleaseRows(S), \A l \in S : leaseBox[l] = box[r],
             status' = [status EXCEPT ![box[r]] = s], leaseBox' = leaseBox,
             box[r] \in Mailboxes
      PROVE  LeasedIsBacked'
  BY <1>3, EndingKeepsOthersBacked DEF ReleaseRows
<1>4. CASE ProvisionMailbox(r)
  BY <1>2, <1>4 DEF ProvisionMailbox
<1>5. CASE SaveMailboxProviderRef(r)
  BY <1>2, <1>5 DEF SaveMailboxProviderRef, tables
<1>6. CASE IssueMailboxCredentials(r)
  BY <1>2, <1>6 DEF IssueMailboxCredentials
<1>7. CASE BackendReleaseMailbox(r)
  BY <1>2, <1>7 DEF BackendReleaseMailbox
<1>8. CASE Crash(r)
  BY <1>2, <1>8 DEF Crash, tables
<1>9. CASE MemoryReleaseMailbox(r) \/ MemoryAdminEnd(r)
  <2>1. box[r] \in Mailboxes /\ pc[r] = "tx"
    BY <1>9 DEF MemoryReleaseMailbox, MemoryAdminEnd, RequestsFit
  <2>2. LeasedIsBacked'
    <3>1. CASE \E l \in ActiveLeases(box[r]) : ReleaseRows({l})
      <4>1. PICK l \in ActiveLeases(box[r]) : ReleaseRows({l})
        BY <3>1
      <4>2. {l} \in SUBSET Leases /\ leaseBox[l] = box[r]
        BY <4>1 DEF ActiveLeases
      <4> QED
        BY <1>3, <1>9, <2>1, <4>1, <4>2
        DEF MemoryReleaseMailbox, MemoryAdminEnd, EndedStatus
    <3>2. CASE ActiveLeases(box[r]) = {} /\ UNCHANGED leaseState
      <4>1. \A m \in Mailboxes : status'[m] = "leased" => status[m] = "leased"
        BY <1>9, <2>1 DEF MemoryReleaseMailbox, MemoryAdminEnd, EndedStatus, TypeOK
      <4> QED
        BY <1>9, <3>2, <4>1 DEF MemoryReleaseMailbox, MemoryAdminEnd, LeasedIsBacked,
                                ActiveLeases
    <3> QED
      BY <1>9, <3>1, <3>2 DEF MemoryReleaseMailbox, MemoryAdminEnd
  <2>3. RequestsFit'
    <3>1. \A q \in Requests : pc'[q] # "idle" => box'[q] \in Mailboxes
      BY <1>9, <2>1 DEF MemoryReleaseMailbox, MemoryAdminEnd, AfterStore, Finish, GoTo,
                        RequestsFit, TypeOK
    <3>2. \A l \in Leases : (leaseState'[l] # "unused" <=> leaseState[l] # "unused")
                             /\ leaseBox'[l] = leaseBox[l]
      BY <1>9 DEF MemoryReleaseMailbox, MemoryAdminEnd, ReleaseRows, ActiveLeases, TypeOK
    <3>3. \A q \in Requests : held'[q] = {} \/ (held'[q] = held[q] /\ pc'[q] = pc[q]
                                                  /\ box'[q] = box[q])
      BY <1>1, <1>9, <2>1 DEF MemoryReleaseMailbox, MemoryAdminEnd, AfterStore, Finish,
                              GoTo, TypeOK
    <3> QED
      BY <3>1, <3>2, <3>3 DEF RequestsFit, TypeOK
  <2> QED
    BY <2>2, <2>3
<1>10. CASE PgReleaseActiveLeases(r)
  <2>1. RequestsFit'
    BY <1>10 DEF PgReleaseActiveLeases, RequestsFit, ActiveLeases, TypeOK, tables
  <2>2. LeasedIsBacked'
    BY <1>10 DEF PgReleaseActiveLeases, LeasedIsBacked, ActiveLeases, tables
  <2> QED
    BY <2>1, <2>2
<1>11. CASE PgCommitMailboxStatus(r)
  <2>1. /\ box[r] \in Mailboxes
        /\ held[r] \in SUBSET Leases
        /\ \A l \in held[r] : leaseBox[l] = box[r] /\ leaseState[l] # "unused"
    BY <1>11 DEF PgCommitMailboxStatus, RequestsFit, TypeOK
  <2>2. LeasedIsBacked'
    BY <1>3, <1>11, <2>1 DEF PgCommitMailboxStatus, EndedStatus
  <2>3. RequestsFit'
    BY <1>11, <2>1 DEF PgCommitMailboxStatus, ReleaseRows, Finish, RequestsFit, TypeOK
  <2> QED
    BY <2>2, <2>3
<1> QED
  BY <1>4, <1>5, <1>6, <1>7, <1>8, <1>9, <1>10, <1>11 DEF RequestSteps

LEMMA BackedInit == Init => BackedInv
BY TypeInit DEF Init, BackedInv, RequestsFit, LeasedIsBacked

LEMMA BackedStep ==
  ASSUME BackedInv, [Next]_vars
  PROVE  BackedInv'
<1>1. TypeOK'
  BY TypeStep DEF BackedInv
<1>2. CASE Next
  BY <1>1, <1>2, StartKeepsBacked, StepKeepsBacked DEF Next
<1>3. CASE UNCHANGED vars
  BY <1>3 DEF vars, BackedInv, RequestsFit, LeasedIsBacked, ActiveLeases, TypeOK
<1> QED
  BY <1>2, <1>3

LEMMA BackedInvHolds == Spec => []BackedInv
<1>1. BackedInv /\ [Next]_vars => BackedInv'
  BY BackedStep
<1> QED
  BY BackedInit, <1>1, PTL DEF Spec

\* Whatever the requests of a tenant and of the operators overlap with, over
\* either store: a mailbox the table shows as leased has an active lease.
THEOREM LeasedMailboxIsBacked == Spec => []LeasedIsBacked
<1>1. BackedInv => LeasedIsBacked
  BY DEF BackedInv
<1> QED
  BY <1>1, BackedInvHolds, PTL

-----------------------------------------------------------------------------
(* What becomes of a lease.                                                *)

\* Ending leases of the mailbox of a request that takes a step, together with
\* a status that is not 'leased'.
LEMMA EndingIsAStep ==
  ASSUME TypeOK, NEW r \in Requests, box[r] \in Mailboxes,
         NEW S \in SUBSET Leases, \A l \in S : leaseBox[l] = box[r],
         NEW s \in {"available", "frozen"},
         ReleaseRows(S), status' = [status EXCEPT ![box[r]] = s],
         leaseBox' = leaseBox, pc'[r] # pc[r]
  PROVE  LeaseStep
<1> SUFFICES ASSUME NEW l \in Leases
             PROVE  /\ leaseState[l] = "released" => leaseState'[l] = "released"
                    /\ leaseState[l] = "active" =>
                         /\ leaseBox'[l] = leaseBox[l]
                         /\ leaseState'[l] = "released" =>
                              /\ status'[leaseBox[l]] # "leased"
                              /\ \E q \in Requests : box[q] = leaseBox[l] /\ pc'[q] # pc[q]
  BY DEF LeaseStep
<1>1. leaseState'[l] = IF l \in S THEN "released" ELSE leaseState[l]
  BY DEF ReleaseRows
<1>2. status'[box[r]] # "leased"
  BY DEF TypeOK
<1> QED
  BY <1>1, <1>2

LEMMA NextIsALeaseStep ==
  ASSUME BackedInv, Next
  PROVE  LeaseStep
<1> USE DEF BackedInv
<1>1. ASSUME UNCHANGED <<leaseState, leaseBox>>
      PROVE  LeaseStep
  BY <1>1 DEF LeaseStep
<1>2. ASSUME NEW r \in Requests, RequestStarts(r)
      PROVE  LeaseStep
  <2>1. ASSUME NEW m \in Mailboxes, NEW l \in Leases, AllocateMailbox(r, m, l)
        PROVE  LeaseStep
    BY <2>1 DEF AllocateMailbox, LeaseStep, TypeOK
  <2> QED
    BY <1>1, <1>2, <2>1 DEF RequestStarts, ReleaseLease, AdminFreezeMailbox,
       AdminReleaseMailbox, ResetMailboxCredentials, tables
<1>3. ASSUME NEW r \in Requests, MemoryReleaseMailbox(r) \/ MemoryAdminEnd(r)
      PROVE  LeaseStep
  <2>1. box[r] \in Mailboxes /\ pc[r] = "tx" /\ leaseBox' = leaseBox /\ pc'[r] # pc[r]
    BY <1>3 DEF MemoryReleaseMailbox, MemoryAdminEnd, AfterStore, GoTo, Finish,
       RequestsFit, TypeOK
  <2>2. CASE \E l \in ActiveLeases(box[r]) : ReleaseRows({l})
    <3>1. PICK l \in ActiveLeases(box[r]) : ReleaseRows({l})
      BY <2>2
    <3>2. {l} \in SUBSET Leases /\ \A k \in {l} : leaseBox[k] = box[r]
      BY DEF ActiveLeases
    <3>3. CASE UNCHANGED leaseState
      BY <1>1, <2>1, <3>3
    <3>4. CASE \E s \in {"available", "frozen"} : status' = [status EXCEPT ![box[r]] = s]
      BY <2>1, <3>1, <3>2, <3>4, EndingIsAStep
    <3> QED
      BY <1>3, <3>3, <3>4 DEF MemoryReleaseMailbox, MemoryAdminEnd, EndedStatus
  <2> QED
    BY <1>1, <1>3, <2>1, <2>2 DEF MemoryReleaseMailbox, MemoryAdminEnd
<1>4. ASSUME NEW r \in Requests, PgCommitMailboxStatus(r)
      PROVE  LeaseStep
  <2>1. /\ box[r] \in Mailboxes
        /\ held[r] \in SUBSET Leases
        /\ \A l \in held[r] : leaseBox[l] = box[r]
    BY <1>4 DEF PgCommitMailboxStatus, RequestsFit, TypeOK
  <2>2. pc'[r] # pc[r] /\ EndedStatus(op[r]) \in {"available", "frozen"}
    BY <1>4 DEF PgCommitMailboxStatus, Finish, EndedStatus, TypeOK
  <2> QED
    BY <1>4, <2>1, <2>2, EndingIsAStep DEF PgCommitMailboxStatus
<1>5. ASSUME NEW r \in Requests, RequestSteps(r),
             ~MemoryReleaseMailbox(r), ~MemoryAdminEnd(r), ~PgCommitMailboxStatus(r)
      PROVE  LeaseStep
  BY <1>1, <1>5 DEF RequestSteps, ProvisionMailbox, SaveMailboxProviderRef,
     IssueMailboxCredentials, PgReleaseActiveLeases, BackendReleaseMailbox, Crash, tables
<1> QED
  BY <1>2, <1>3, <1>4, <1>5 DEF Next, RequestSteps

\* Over either store, whatever the requests overlap with: a lease is ended by
\* a request for its own mailbox, with a status of that mailbox that is not
\* 'leased', and stays with its mailbox until then and ended from then on.
THEOREM LeasesEndOnce == Spec => LeaseHistory
<1>1. BackedInv /\ [Next]_vars => [LeaseStep]_vars
  BY NextIsALeaseStep
<1> QED
  BY <1>1, BackedInvHolds, PTL DEF Spec, LeaseHistory

-----------------------------------------------------------------------------
(* MemoryStore: leases are exclusive, and the module implements            *)
(* ExclusiveLease.                                                         *)

NoOpenTransaction == \A r \in Requests : pc[r] # "commit"

MemoryInv == TypeOK /\ RequestsFit /\ NoOpenTransaction /\ ExclusiveLeases

\* What a step can do to the tables of MemoryStore: nothing, a grant, a
\* release of the only active lease, or an operator's write of the status.
MemoryTables ==
  \/ UNCHANGED tables
  \/ \E m \in Mailboxes, l \in Leases :
       /\ status[m] = "available" /\ leaseState[l] = "unused"
       /\ status' = [status EXCEPT ![m] = "leased"]
       /\ leaseState' = [leaseState EXCEPT ![l] = "active"]
       /\ leaseBox' = [leaseBox EXCEPT ![l] = m]
  \/ \E m \in Mailboxes, s \in {"available", "frozen"} :
       /\ ReleaseRows(ActiveLeases(m))
       /\ status' = [status EXCEPT ![m] = s]
       /\ leaseBox' = leaseBox
       /\ \/ s = "available" /\ ActiveLeases(m) # {}
          \/ \E r \in Requests :
               /\ box[r] = m /\ pc'[r] # pc[r]
               /\ op[r] = (IF s = "frozen" THEN "freeze" ELSE "adminRelease")

LEMMA MemoryStepTables ==
  ASSUME Store = "memory", MemoryInv, Next
  PROVE  MemoryTables /\ NoOpenTransaction'
<1> USE DEF MemoryInv
<1>1. ASSUME NEW r \in Requests, RequestStarts(r)
      PROVE  MemoryTables /\ NoOpenTransaction'
  <2>1. NoOpenTransaction'
    BY <1>1 DEF RequestStarts, AllocateMailbox, ReleaseLease, AdminFreezeMailbox,
                AdminReleaseMailbox, ResetMailboxCredentials, Start, NoOpenTransaction,
                TypeOK
  <2>2. ASSUME NEW m \in Mailboxes, NEW l \in Leases, AllocateMailbox(r, m, l)
        PROVE  MemoryTables
    BY <2>2 DEF AllocateMailbox, MemoryTables
  <2> QED
    BY <1>1, <2>1, <2>2 DEF RequestStarts, ReleaseLease, AdminFreezeMailbox,
                AdminReleaseMailbox, ResetMailboxCredentials, MemoryTables
<1>2. ASSUME NEW r \in Requests, RequestSteps(r)
      PROVE  MemoryTables /\ NoOpenTransaction'
  <2>1. ~PgReleaseActiveLeases(r) /\ ~PgCommitMailboxStatus(r) /\ ~Crash(r)
    BY DEF PgReleaseActiveLeases, PgCommitMailboxStatus, Crash, NoOpenTransaction
  <2>2. NoOpenTransaction'
    BY <1>2, <2>1 DEF RequestSteps, ProvisionMailbox, SaveMailboxProviderRef,
        IssueMailboxCredentials, BackendReleaseMailbox, MemoryReleaseMailbox,
        MemoryAdminEnd, AfterStore, GoTo, Finish, NoOpenTransaction, TypeOK
  <2>3. ASSUME MemoryReleaseMailbox(r) \/ MemoryAdminEnd(r)
        PROVE  MemoryTables
    <3> DEFINE m == box[r]
    <3>1. m \in Mailboxes /\ pc[r] = "tx" /\ leaseBox' = leaseBox
      BY <2>3 DEF MemoryReleaseMailbox, MemoryAdminEnd, RequestsFit
    <3>2. ASSUME NEW l \in ActiveLeases(m)
          PROVE  ActiveLeases(m) = {l}
      BY <3>1, <3>2 DEF ExclusiveLeases
    <3>3. CASE MemoryReleaseMailbox(r) /\ ActiveLeases(m) = {} /\ UNCHANGED <<status, leaseState>>
      BY <3>1, <3>3 DEF MemoryTables, tables
    <3>4. CASE MemoryReleaseMailbox(r) /\ ~(ActiveLeases(m) = {} /\ UNCHANGED <<status, leaseState>>)
      <4>1. PICK l \in ActiveLeases(m) :
              ReleaseRows({l}) /\ status' = [status EXCEPT ![m] = "available"]
        BY <3>4 DEF MemoryReleaseMailbox
      <4> HIDE DEF m
      <4> QED
        BY <3>1, <3>2, <4>1 DEF MemoryTables
    <3>5. CASE MemoryAdminEnd(r)
      <4>1. ReleaseRows(ActiveLeases(m))
        <5>1. CASE ActiveLeases(m) = {} /\ UNCHANGED leaseState
          BY <5>1 DEF ReleaseRows, TypeOK
        <5>2. CASE \E l \in ActiveLeases(m) : ReleaseRows({l})
          BY <5>2, <3>2
        <5> QED
          BY <3>5, <5>1, <5>2 DEF MemoryAdminEnd
      <4>2. pc'[r] # pc[r]
        BY <3>1, <3>5 DEF MemoryAdminEnd, AfterStore, GoTo, Finish, TypeOK
      <4>3. /\ status' = [status EXCEPT ![m] = EndedStatus(op[r])]
            /\ op[r] \in {"freeze", "adminRelease"}
        BY <3>5 DEF MemoryAdminEnd
      <4> QED
        BY <3>1, <4>1, <4>2, <4>3 DEF MemoryTables, EndedStatus
    <3> QED
      BY <2>3, <3>3, <3>4, <3>5
  <2> QED
    BY <1>2, <2>1, <2>2, <2>3 DEF RequestSteps, ProvisionMailbox, SaveMailboxProviderRef,
        IssueMailboxCredentials, BackendReleaseMailbox, MemoryTables
<1> QED
  BY <1>1, <1>2 DEF Next

LEMMA MemoryTablesKeepExclusive ==
  ASSUME MemoryInv, TypeOK', MemoryTables
  PROVE  ExclusiveLeases'
<1> USE DEF MemoryInv
<1>1. CASE UNCHANGED tables
  BY <1>1 DEF tables, ExclusiveLeases, ActiveLeases
<1>2. ASSUME NEW m \in Mailboxes, NEW l \in Leases,
             status[m] = "available", leaseState[l] = "unused",
             status' = [status EXCEPT ![m] = "leased"],
             leaseState' = [leaseState EXCEPT ![l] = "active"],
             leaseBox' = [leaseBox EXCEPT ![l] = m]
      PROVE  ExclusiveLeases'
  <2>1. ActiveLeases(m) = {}
    BY <1>2 DEF ExclusiveLeases
  <2>2. ActiveLeases(m)' = {l}
    BY <1>2, <2>1 DEF ActiveLeases, TypeOK
  <2>3. \A n \in Mailboxes \ {m} : ActiveLeases(n)' = ActiveLeases(n)
    BY <1>2 DEF ActiveLeases, TypeOK
  <2> QED
    BY <1>2, <2>2, <2>3 DEF ExclusiveLeases, TypeOK
<1>3. ASSUME NEW m \in Mailboxes, NEW s \in {"available", "frozen"},
             ReleaseRows(ActiveLeases(m)),
             status' = [status EXCEPT ![m] = s], leaseBox' = leaseBox
      PROVE  ExclusiveLeases'
  <2>1. ActiveLeases(m)' = {}
    BY <1>3 DEF ReleaseRows, ActiveLeases
  <2>2. \A n \in Mailboxes \ {m} : ActiveLeases(n)' = ActiveLeases(n)
    BY <1>3 DEF ReleaseRows, ActiveLeases, TypeOK
  <2> QED
    BY <1>3, <2>1, <2>2 DEF ExclusiveLeases, TypeOK
<1> QED
  BY <1>1, <1>2, <1>3 DEF MemoryTables

LEMMA MemoryInvHolds ==
  ASSUME Store = "memory"
  PROVE  Spec => []MemoryInv
<1>1. Init /\ TypeOK => MemoryInv
  BY DEF Init, MemoryInv, RequestsFit, NoOpenTransaction, ExclusiveLeases, ActiveLeases
<1>2. MemoryInv /\ BackedInv' /\ [Next]_vars => MemoryInv'
  <2> SUFFICES ASSUME MemoryInv, BackedInv', [Next]_vars
               PROVE  MemoryInv'
    OBVIOUS
  <2>1. CASE Next
    BY <2>1, MemoryStepTables, MemoryTablesKeepExclusive DEF MemoryInv, BackedInv
  <2>2. CASE UNCHANGED vars
    BY <2>2 DEF vars, MemoryInv, BackedInv, NoOpenTransaction, ExclusiveLeases, ActiveLeases
  <2> QED
    BY <2>1, <2>2
<1> QED
  BY <1>1, <1>2, BackedInvHolds, TypeCorrect, PTL DEF Spec

\* Over MemoryStore an active lease is the only one of its mailbox, and the
\* mailbox is shown as leased.
THEOREM MemoryLeasesExclusive ==
  ASSUME Store = "memory"
  PROVE  Spec => []ExclusiveLeases
<1>1. MemoryInv => ExclusiveLeases
  BY DEF MemoryInv
<1> QED
  BY <1>1, MemoryInvHolds, PTL

\* Over MemoryStore only an operator's release takes a mailbox out of
\* 'frozen'; late releases and compensations of the tenant do not.
THEOREM MemoryFreezeHolds ==
  ASSUME Store = "memory"
  PROVE  Spec => FreezeHolds
<1>1. MemoryInv /\ [Next]_vars => [ThawedByOperator]_vars
  <2> SUFFICES ASSUME MemoryInv, Next,
                      NEW m \in Mailboxes, status[m] = "frozen", status'[m] # "frozen"
               PROVE  \E r \in Requests : op[r] = "adminRelease" /\ box[r] = m
                                           /\ pc'[r] # pc[r]
    BY DEF ThawedByOperator
  <2>1. ActiveLeases(m) = {}
    BY DEF MemoryInv, ExclusiveLeases
  <2>2. MemoryTables
    BY MemoryStepTables
  <2>3. CASE UNCHANGED tables
    BY <2>3 DEF tables
  <2>4. ASSUME NEW n \in Mailboxes, status[n] = "available",
               status' = [status EXCEPT ![n] = "leased"]
        PROVE  FALSE
    BY <2>4 DEF MemoryInv, TypeOK
  <2>5. ASSUME NEW n \in Mailboxes, NEW s \in {"available", "frozen"},
               status' = [status EXCEPT ![n] = s]
        PROVE  n = m /\ s = "available"
    BY <2>5 DEF MemoryInv, TypeOK
  <2> QED
    BY <2>1, <2>2, <2>3, <2>4, <2>5 DEF MemoryTables
<1> QED
  BY <1>1, MemoryInvHolds, PTL DEF Spec, FreezeHolds

\* Over MemoryStore the requests and the tables implement the abstract
\* leases: granted once to one holder, ended once, never granted while frozen.
THEOREM MemoryImplementsExclusiveLease ==
  ASSUME Store = "memory"
  PROVE  Spec => ImplementsExclusiveLease
<1>1. Init => EL!Init
  BY DEF Init, EL!Init, liveLeases, endedLeases, frozenBoxes
<1>2. MemoryInv /\ TypeOK' /\ [Next]_vars => [EL!Next]_EL!vars
  <2> SUFFICES ASSUME MemoryInv, TypeOK', [Next]_vars
               PROVE  [EL!Next]_EL!vars
    OBVIOUS
  <2> USE DEF MemoryInv
  <2>1. \A m \in Mailboxes : EL!Held(m) = ActiveLeases(m)
    BY DEF EL!Held, liveLeases, ActiveLeases
  <2>2. CASE UNCHANGED tables
    BY <2>2 DEF tables, EL!vars, liveLeases, endedLeases, frozenBoxes
  <2>3. ASSUME NEW m \in Mailboxes, NEW l \in Leases,
               status[m] = "available", leaseState[l] = "unused",
               status' = [status EXCEPT ![m] = "leased"],
               leaseState' = [leaseState EXCEPT ![l] = "active"],
               leaseBox' = [leaseBox EXCEPT ![l] = m]
        PROVE  EL!Grant(m, l)
    <3>1. m \notin frozenBoxes /\ l \notin endedLeases
      BY <2>3 DEF frozenBoxes, endedLeases
    <3>2. EL!Held(m) = {} /\ \A n \in Mailboxes : l \notin EL!Held(n)
      BY <2>1, <2>3 DEF ExclusiveLeases, ActiveLeases
    <3>3. liveLeases' = liveLeases \cup {<<m, l>>}
      BY <2>3 DEF liveLeases, TypeOK
    <3>4. endedLeases' = endedLeases /\ frozenBoxes' = frozenBoxes
      BY <2>3 DEF endedLeases, frozenBoxes, TypeOK
    <3> QED
      BY <3>1, <3>2, <3>3, <3>4 DEF EL!Grant
  <2>4. ASSUME NEW m \in Mailboxes, NEW s \in {"available", "frozen"},
               ReleaseRows(ActiveLeases(m)),
               status' = [status EXCEPT ![m] = s], leaseBox' = leaseBox
        PROVE  /\ EL!EndLeases(m)
               /\ s = "frozen" => frozenBoxes' = frozenBoxes \cup {m}
               /\ s = "available" => frozenBoxes' = frozenBoxes \ {m}
    <3>1. liveLeases' = liveLeases \ ({m} \X ActiveLeases(m))
      BY <2>4 DEF liveLeases, ReleaseRows, ActiveLeases, TypeOK
    <3>2. endedLeases' = endedLeases \cup ActiveLeases(m)
      BY <2>4 DEF endedLeases, ReleaseRows, ActiveLeases
    <3>3. /\ s = "frozen" => frozenBoxes' = frozenBoxes \cup {m}
          /\ s = "available" => frozenBoxes' = frozenBoxes \ {m}
      BY <2>4 DEF frozenBoxes, TypeOK
    <3> QED
      BY <2>1, <3>1, <3>2, <3>3 DEF EL!EndLeases
  <2>5. CASE Next
    <3>1. MemoryTables
      BY <2>5, MemoryStepTables
    <3> QED
      BY <2>2, <2>3, <2>4, <3>1 DEF MemoryTables, EL!Next, EL!Freeze, EL!Reopen
  <2>6. CASE UNCHANGED vars
    BY <2>2, <2>6 DEF vars, tables
  <2> QED
    BY <2>5, <2>6
<1> QED
  BY <1>1, <1>2, MemoryInvHolds, TypeCorrect, PTL DEF Spec, EL!Spec, ImplementsExclusiveLease

=============================================================================
