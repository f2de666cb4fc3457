------------------------------ MODULE Metering ------------------------------
(***************************************************************************)
(* What a tenant's calls cost: the access check before a metered call      *)
(* (usage in the last second, and in the last hour for leases, against the *)
(* limits), the usage record after it, and the overage charge on the       *)
(* month's invoice, over either store.                                     *)
(*                                                                         *)
(* Over Postgres steps are statements and a charge is one transaction at   *)
(* READ COMMITTED; MemoryStore charges in one step.                        *)
(* All metered endpoints are in fetch-app.js's paidBypassTargets, so a     *)
(* call over a limit is never refused with 429: it pays or gets a 402.     *)
(* Calls of a suspended tenant end before the checks and are left out.     *)
(***************************************************************************)
EXTENDS Integers, FiniteSets, FiniteSetsExt

CONSTANTS Slots,     \* calls of the tenant that can be in progress at a time
          Limit,     \* the limit of each window, 0 for none
          Prices,    \* prices an operator sets, in millionths of a USDC
          Invoices,  \* invoice ids
          MaxCalls,  \* bound on the calls
          MaxMonth,  \* bound on the months
          None       \* no invoice

Windows == {"second", "hour"}
Calls == 1 .. MaxCalls

ASSUME LimitAssumption == Limit \in [Windows -> Nat]
ASSUME SlotsAssumption == IsFiniteSet(Slots)
ASSUME PricesAssumption == Prices \subseteq Nat
ASSUME BoundsAssumption == MaxCalls \in Nat /\ MaxMonth \in Nat
ASSUME NoneAssumption == None \notin Invoices

VARIABLES store,     \* the store in use, "memory" or "postgres"
          recent,    \* usage records that are still in the window
          usage,     \* usage_records, by call
          period,    \* invoices.period_start
          phase,     \* invoices.status
          amount,    \* invoices.amount_usdc
          charges,   \* audit_logs of charges: <<call, invoice, price>>
          month,     \* the clock
          price,     \* the overage charge, runtimeSettings
          calls,     \* calls begun
          pc,        \* where the call in a slot is
          call,      \* the call in a slot
          kind,      \* "lease", "other" metered call or "free" of checks
          passed,    \* windows in which it was found below the limit
          bill       \* of its charge: month, price, invoice, new amount

tables == <<recent, usage, period, phase, amount, charges>>
slot == <<pc, call, kind, passed, bill>>
vars == <<store, tables, month, price, calls, slot>>

NoBill == [month |-> 0, price |-> 0, invoice |-> None, total |-> 0]

TypeOK ==
  /\ store \in {"memory", "postgres"}
  /\ recent \in [Windows -> [unpaid : Nat, other : Nat]]
  /\ usage \in SUBSET Calls
  /\ period \in [Invoices -> 0 .. MaxMonth]
  /\ phase \in [Invoices -> {"none", "draft", "issued"}]
  /\ amount \in [Invoices -> Nat]
  /\ charges \in SUBSET (Calls \X Invoices \X Prices)
  /\ month \in 0 .. MaxMonth
  /\ price \in Prices
  /\ calls \in 0 .. MaxCalls
  /\ pc \in [Slots -> {"idle", "second", "hour", "usage", "charge",
                      "lock", "commit", "answer"}]
  /\ call \in [Slots -> 0 .. MaxCalls]
  /\ kind \in [Slots -> {"lease", "other", "free"}]
  /\ passed \in [Slots -> SUBSET Windows]
  /\ bill \in [Slots -> [month : 0 .. MaxMonth, price : Prices \cup {0},
                         invoice : Invoices \cup {None}, total : Nat]]

\* A tenant is created with the draft of the current month's invoice.
Init ==
  /\ store \in {"memory", "postgres"}
  /\ recent = [w \in Windows |-> [unpaid |-> 0, other |-> 0]]
  /\ usage = {}
  /\ period = [i \in Invoices |-> 0]
  /\ \E i \in Invoices :
       phase = [j \in Invoices |-> IF j = i THEN "draft" ELSE "none"]
  /\ amount = [i \in Invoices |-> 0]
  /\ charges = {}
  /\ month = 0
  /\ price \in Prices
  /\ calls = 0
  /\ pc = [r \in Slots |-> "idle"]
  /\ call = [r \in Slots |-> 0]
  /\ kind = [r \in Slots |-> "free"]
  /\ passed = [r \in Slots |-> {}]
  /\ bill = [r \in Slots |-> NoBill]

-----------------------------------------------------------------------------
(* The access check.                                                       *)

\* The windows in which a call of kind k is checked and counted.
CheckedIn(k) == CASE k = "lease" -> Windows
                  [] k = "other" -> {"second"}
                  [] k = "free" -> {}

\* A call begins.  Releases and credential resets are counted, not checked.
Arrive(r, k) ==
  /\ pc[r] = "idle" /\ calls < MaxCalls
  /\ calls' = calls + 1
  /\ call' = [call EXCEPT ![r] = calls + 1]
  /\ kind' = [kind EXCEPT ![r] = k]
  /\ pc' = [pc EXCEPT ![r] = IF k = "free" THEN "usage" ELSE "second"]
  /\ UNCHANGED <<store, tables, month, price, passed, bill>>

\* Mutant: the limit itself is still below the limit.
BelowOrAt(w) == Limit[w] = 0 \/ recent[w].unpaid + recent[w].other <= Limit[w]

Below(w) == Limit[w] = 0 \/ recent[w].unpaid + recent[w].other < Limit[w]

\* One count of evaluateAccess.  In the step of the last one, a call over a
\* limit shows its payment proof and is let through (or is refused: Fail).
CheckWindow(r, w) ==
  /\ pc[r] = w
  /\ LET below == IF Below(w) THEN passed[r] \cup {w} ELSE passed[r]
         last == w = "hour" \/ kind[r] = "other"
     IN /\ passed' = [passed EXCEPT ![r] = below]
        /\ pc' = [pc EXCEPT ![r] = IF last THEN "usage" ELSE "hour"]
  /\ UNCHANGED <<store, tables, month, price, calls, call, kind, bill>>

-----------------------------------------------------------------------------
(* Usage and charge, after the endpoint's own work (it may end the call:   *)
(* Fail).                                                                  *)

MustPay(r) == passed[r] # CheckedIn(kind[r])

\* The windows a record of kind k is counted in: the hour counts leases.
CountedIn(k) == IF k = "lease" THEN Windows ELSE {"second"}

Count(r) ==
  [w \in Windows |->
     IF w \notin CountedIn(kind[r]) THEN recent[w]
     ELSE IF kind[r] # "free" /\ ~MustPay(r)
          THEN [recent[w] EXCEPT !.unpaid = @ + 1]
          ELSE [recent[w] EXCEPT !.other = @ + 1]]

\* Mutant: the charge is left to run after the answer.
RecordUsageAndAnswer(r) ==
  /\ pc[r] = "usage"
  /\ usage' = usage \cup {call[r]}
  /\ recent' = Count(r)
  /\ pc' = [pc EXCEPT ![r] = "answer"]
  /\ UNCHANGED <<store, period, phase, amount, charges, month, price, calls,
                 call, kind, passed, bill>>

RecordUsage(r) ==
  /\ pc[r] = "usage"
  /\ usage' = usage \cup {call[r]}
  /\ recent' = Count(r)
  /\ pc' = [pc EXCEPT ![r] = IF MustPay(r) THEN "charge" ELSE "answer"]
  /\ UNCHANGED <<store, period, phase, amount, charges, month, price, calls,
                 call, kind, passed, bill>>

Current == {i \in Invoices : phase[i] # "none" /\ period[i] = month}

\* MemoryStore finds or makes the month's invoice and adds to it at once.
MemoryCharge(r) ==
  /\ store = "memory" /\ pc[r] = "charge"
  /\ \E i \in Invoices :
       /\ IF Current = {} THEN phase[i] = "none" ELSE i \in Current
       /\ phase' = [phase EXCEPT ![i] = IF @ = "none" THEN "draft" ELSE @]
       /\ period' = [period EXCEPT ![i] = month]
       /\ amount' = [amount EXCEPT ![i] = @ + price]
       /\ charges' = charges \cup {<<call[r], i, price>>}
  /\ pc' = [pc EXCEPT ![r] = "answer"]
  /\ UNCHANGED <<store, recent, usage, month, price, calls, call, kind, passed,
                 bill>>

\* BEGIN and the SELECT of the month's newest invoice, or of none.  (Newest by
\* the start of the transaction that inserted it: which it is is left open.)
StartCharge(r) ==
  /\ store = "postgres" /\ pc[r] = "charge"
  /\ \E i \in IF Current = {} THEN {None} ELSE Current :
       bill' = [bill EXCEPT ![r] = [month |-> month, price |-> price,
                                    invoice |-> i, total |-> 0]]
  /\ pc' = [pc EXCEPT ![r] = "lock"]
  /\ UNCHANGED <<store, tables, month, price, calls, call, kind, passed>>

Locked(i) == \E r \in Slots : pc[r] = "commit" /\ bill[r].invoice = i

\* Mutant: the new amount is computed from one read before, without the lock.
LockInvoiceUnlocked(r) ==
  /\ pc[r] = "lock"
  /\ \E i \in Invoices :
       /\ IF bill[r].invoice = None THEN phase[i] = "none" ELSE i = bill[r].invoice
       /\ bill' = [bill EXCEPT ![r] = [@ EXCEPT !.invoice = i,
                                             !.total = amount[i] + bill[r].price]]
  /\ pc' = [pc EXCEPT ![r] = "commit"]
  /\ UNCHANGED <<store, tables, month, price, calls, call, kind, passed>>

\* Mutant: the charge is subtracted, as a credit.
LockInvoiceCredit(r) ==
  /\ pc[r] = "lock"
  /\ \E i \in Invoices :
       /\ IF bill[r].invoice = None THEN phase[i] = "none" ELSE i = bill[r].invoice
       /\ ~Locked(i)
       /\ bill' = [bill EXCEPT ![r] = [@ EXCEPT !.invoice = i,
                                             !.total = amount[i] - bill[r].price]]
  /\ pc' = [pc EXCEPT ![r] = "commit"]
  /\ UNCHANGED <<store, tables, month, price, calls, call, kind, passed>>

\* The INSERT if there was no invoice, and the UPDATE: it waits for the row's
\* lock and adds to the amount it then finds.
LockInvoice(r) ==
  /\ pc[r] = "lock"
  /\ \E i \in Invoices :
       /\ IF bill[r].invoice = None THEN phase[i] = "none" ELSE i = bill[r].invoice
       /\ ~Locked(i)
       /\ bill' = [bill EXCEPT ![r] = [@ EXCEPT !.invoice = i,
                                             !.total = amount[i] + bill[r].price]]
  /\ pc' = [pc EXCEPT ![r] = "commit"]
  /\ UNCHANGED <<store, tables, month, price, calls, call, kind, passed>>

CommitCharge(r) ==
  /\ pc[r] = "commit"
  /\ LET b == bill[r] IN
       /\ phase' = [phase EXCEPT ![b.invoice] = IF @ = "none" THEN "draft" ELSE @]
       /\ period' = [period EXCEPT ![b.invoice] =
                       IF phase[b.invoice] = "none" THEN b.month ELSE @]
       /\ amount' = [amount EXCEPT ![b.invoice] = b.total]
       /\ charges' = charges \cup {<<call[r], b.invoice, b.price>>}
  /\ bill' = [bill EXCEPT ![r] = NoBill]
  /\ pc' = [pc EXCEPT ![r] = "answer"]
  /\ UNCHANGED <<store, recent, usage, month, price, calls, call, kind, passed>>

\* The slot is free for another call.
Leave(r) ==
  /\ pc' = [pc EXCEPT ![r] = "idle"]
  /\ call' = [call EXCEPT ![r] = 0]
  /\ kind' = [kind EXCEPT ![r] = "free"]
  /\ passed' = [passed EXCEPT ![r] = {}]
  /\ bill' = [bill EXCEPT ![r] = NoBill]
  /\ UNCHANGED <<store, tables, month, price, calls>>

Answer(r) == pc[r] = "answer" /\ Leave(r)

\* The call is refused (402, or by the endpoint), a statement fails, or the
\* process dies: an open transaction is rolled back, records stay.
Fail(r) == pc[r] # "idle" /\ Leave(r)

-----------------------------------------------------------------------------
(* Time and the operators.                                                 *)

\* Records get too old for a window.
Expire(w, part) ==
  /\ recent[w][part] > 0
  /\ recent' = [recent EXCEPT ![w][part] = @ - 1]
  /\ UNCHANGED <<store, usage, period, phase, amount, charges, month, price,
                 calls, slot>>

NewMonth ==
  /\ month < MaxMonth
  /\ month' = month + 1
  /\ UNCHANGED <<store, tables, price, calls, slot>>

SetPrice(p) ==
  /\ price' = p
  /\ UNCHANGED <<store, tables, month, calls, slot>>

\* adminIssueInvoice, whatever the invoice's status: its UPDATE waits for the
\* row's lock.
AdminIssueInvoice(i) ==
  /\ phase[i] # "none" /\ ~Locked(i)
  /\ phase' = [phase EXCEPT ![i] = "issued"]
  /\ UNCHANGED <<store, recent, usage, period, amount, charges, month, price,
                 calls, slot>>

-----------------------------------------------------------------------------
Next ==
  \/ \E r \in Slots :
       \/ \E k \in {"lease", "other", "free"} : Arrive(r, k)
       \/ \E w \in Windows : CheckWindow(r, w)
       \/ RecordUsage(r) \/ MemoryCharge(r) \/ StartCharge(r)
       \/ LockInvoice(r) \/ CommitCharge(r) \/ Answer(r) \/ Fail(r)
  \/ \E w \in Windows, part \in {"unpaid", "other"} : Expire(w, part)
  \/ NewMonth
  \/ \E p \in Prices : SetPrice(p)
  \/ \E i \in Invoices : AdminIssueInvoice(i)

Spec == Init /\ [][Next]_vars

-----------------------------------------------------------------------------
(* Properties.                                                             *)

\* The count and the record of a call are not one step, so calls in progress
\* can pass a limit together; but at most the limit and one more call per
\* other slot go unpaid in any window.
OvershootBounded ==
  \A w \in Windows : Limit[w] > 0 =>
    recent[w].unpaid <= Limit[w] + Cardinality(Slots) - 1

\* An invoice amounts to the charges on record for it: concurrent charges,
\* failed ones and the issuing of the invoice lose and double nothing.
InvoicesAddUp ==
  \A i \in Invoices :
    amount[i] = MapThenSumSet(LAMBDA c : c[3], {c \in charges : c[2] = i})

\* A call that gets its 2xx has its usage record and, let through against
\* payment, its charge; no call is charged twice or without a record.
AnsweredIsMetered ==
  /\ \A r \in Slots : pc[r] = "answer" =>
       /\ call[r] \in usage
       /\ MustPay(r) => \E c \in charges : c[1] = call[r]
  /\ \A c \in charges :
       /\ c[1] \in usage
       /\ \A d \in charges : d[1] = c[1] => d = c

=============================================================================
