----------------------------- MODULE Reconcile -----------------------------
(***************************************************************************)
(* reconcileMailboxes --repair (src/src/reconcile.js), the operator's      *)
(* script that brings Mailu in line with the mailboxes table, running      *)
(* beside the requests of MailboxControl.  It reads the table once, then   *)
(* awaits Mailu for every mailbox in turn and repairs what differs from    *)
(* what it read.                                                           *)
(***************************************************************************)
EXTENDS MailboxControl

CONSTANTS Address,  \* the place of each mailbox in the order of the addresses
          Broken    \* mailboxes for which Mailu's answer is always an error

\* mailboxes.address is unique.
ASSUME AddressAssumption ==
  /\ Address \in [Mailboxes -> Nat]
  /\ \A m, n \in Mailboxes : Address[m] = Address[n] => m = n
ASSUME BrokenAssumption == Broken \subseteq Mailboxes

VARIABLES todo,    \* mailboxes of the listing not looked at yet
          listed,  \* the status each had when the table was read
          fixing   \* the mailbox being repaired, or NoMailbox

recVars == <<todo, listed, fixing>>
allVars == <<vars, recVars>>

RecTypeOK ==
  /\ TypeOK
  /\ todo \subseteq Mailboxes
  /\ listed \in [Mailboxes -> Statuses]
  /\ fixing \in Mailboxes \cup {NoMailbox}

RecInit ==
  /\ Init
  /\ todo = {}
  /\ listed = status
  /\ fixing = NoMailbox

\* A pass starts: listMailboxesForReconcile.  (Its join lists a mailbox with
\* two active leases twice; once is enough for what is asked here.)
ListMailboxes ==
  /\ todo = {} /\ fixing = NoMailbox
  /\ todo' = Mailboxes
  /\ listed' = status
  /\ UNCHANGED <<vars, fixing>>

ExpectedEnabled(m) == listed[m] = "leased"

\* Mutant: a missing user is reported but never repaired.
NeedsRepairFound(m) ==
  account[m] # "missing" /\ (account[m] = "enabled") # ExpectedEnabled(m)

\* What the pass repairs: a missing user of a leased mailbox, and a user
\* whose enabled flag is not the expected one.
NeedsRepair(m) ==
  IF account[m] = "missing" THEN ExpectedEnabled(m)
  ELSE (account[m] = "enabled") # ExpectedEnabled(m)

\* Mutant: the listing is in no order, and the broken ones come first.
NextInNoOrder(m) ==
  /\ m \in todo /\ fixing = NoMailbox
  /\ m \in Broken \/ todo \cap Broken = {}

\* The loop is at m: the listing is ordered by address, and a repair is awaited.
NextMailbox(m) ==
  /\ m \in todo /\ fixing = NoMailbox
  /\ \A n \in todo : Address[m] <= Address[n]

\* getMailbox answers for the next mailbox.
ProbeMailbox(m) ==
  /\ NextMailbox(m) /\ m \notin Broken
  /\ todo' = todo \ {m}
  /\ fixing' = IF NeedsRepair(m) THEN m ELSE NoMailbox
  /\ UNCHANGED <<vars, listed>>

\* Mutant: the repair writes the control plane's word into the account.
RepairWithStatus(m) ==
  /\ fixing = m /\ m \in Mailboxes
  /\ account' = [account EXCEPT ![m] = listed[m]]
  /\ fixing' = NoMailbox
  /\ UNCHANGED <<tables, op, pc, box, held, todo, listed>>

\* repairMailboxFinding: provision or release on the backend, by the listing.
RepairMailbox(m) ==
  /\ fixing = m /\ m \in Mailboxes
  /\ account' = [account EXCEPT ![m] =
                   IF ExpectedEnabled(m) THEN "enabled" ELSE ReleaseAccount(m)]
  /\ fixing' = NoMailbox
  /\ UNCHANGED <<tables, op, pc, box, held, todo, listed>>

\* getMailbox throws for the next mailbox: what is listed behind it is left.
ProbeThrows(m) ==
  /\ NextMailbox(m) /\ m \in Broken
  /\ todo' = {}
  /\ UNCHANGED <<vars, listed, fixing>>

\* Mailu or the store throws now and then: the script ends with exit code 1.
AbortPass ==
  /\ todo # {} \/ fixing # NoMailbox
  /\ todo' = {} /\ fixing' = NoMailbox
  /\ UNCHANGED <<vars, listed>>

RecNext ==
  \/ Next /\ UNCHANGED recVars
  \/ ListMailboxes
  \/ \E m \in Mailboxes : ProbeMailbox(m) \/ ProbeThrows(m) \/ RepairMailbox(m)
  \/ AbortPass

\* The operator keeps running the script, and but for the broken mailboxes
\* Mailu does not fail for ever: a mailbox that passes come to again and again
\* is probed and repaired in the end.  Nothing is assumed of the requests.
RecFairness ==
  /\ WF_allVars(ListMailboxes)
  /\ \A m \in Mailboxes : /\ SF_allVars(ProbeMailbox(m))
                         /\ SF_allVars(RepairMailbox(m))
                         /\ WF_allVars(ProbeThrows(m))

RecSpec == RecInit /\ [][RecNext]_allVars /\ RecFairness

-----------------------------------------------------------------------------
(* Properties.                                                             *)

\* The mail account is enabled exactly when the mailbox is leased.
AlignedAt(m) == (account[m] = "enabled") <=> (status[m] = "leased")

\* What a pass comes to before it throws.
InReach(m) == \A n \in Broken : Address[m] < Address[n]

Quiet == \A r \in Requests : pc[r] = "idle"

\* Whatever crashed requests, lost answers, late releases and passes with a
\* stale listing have left behind, repair passes align Mailu with the table
\* once the requests pause, and no later pass undoes it: for every mailbox
\* listed before the first one whose Mailu call throws.  Those behind it are
\* never looked at, and nothing is claimed of them.
EventuallyAligned ==
  <>[]Quiet => \A m \in Mailboxes : InReach(m) => <>[]AlignedAt(m)

=============================================================================
