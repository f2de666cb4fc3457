--------------------------- MODULE MeteringProofs ---------------------------
(***************************************************************************)
(* Proofs about Metering, for any number of slots, calls and invoices and  *)
(* any limits: how far the calls in progress can pass a limit together     *)
(* (OvershootIsBounded), that an answered call has its record and its      *)
(* charge and none is charged twice (AnsweredCallsAreMetered), and that    *)
(* invoices amount to their charges (ChargesAddUp).                        *)
(***************************************************************************)
EXTENDS Metering, FiniteSetTheorems, WellFoundedInduction, TLAPS

Checking == {"second", "hour"}
Charging == {"charge", "lock", "commit"}

\* A busy slot has a call of its own; what the call has passed is what it was
\* checked in so far.
SlotsFit ==
  \A r \in Slots :
    /\ pc[r] = "idle" => call[r] = 0 /\ passed[r] = {}
    /\ pc[r] # "idle" => call[r] \in 1 .. calls
    /\ pc[r] = "second" => kind[r] # "free"
    /\ pc[r] = "hour" => kind[r] = "lease"
    /\ passed[r] \subseteq CheckedIn(kind[r])
    /\ \A q \in Slots : pc[r] # "idle" /\ call[q] = call[r] => q = r

\* What a call still has to write is not written yet.
WritesFit ==
  /\ usage \subseteq 1 .. calls
  /\ \A r \in Slots :
       /\ pc[r] \in Checking \cup {"usage"} => call[r] \notin usage
       /\ pc[r] \in Charging =>
            /\ call[r] \in usage
            /\ \A c \in charges : c[1] # call[r]
       /\ pc[r] \in {"lock", "commit"} => bill[r].price \in Prices
       /\ pc[r] = "commit" => bill[r].invoice \in Invoices

MeterInv == TypeOK /\ SlotsFit /\ WritesFit /\ AnsweredIsMetered

\* The calls in progress that have passed a window and are not yet recorded.
Going(w) == {r \in Slots : pc[r] \in Checking \cup {"usage"} /\ w \in passed[r]}

\* OvershootBounded made inductive: a call in progress is counted already.
RoomLeft ==
  \A w \in Windows : Limit[w] > 0 =>
    recent[w].unpaid + Cardinality(Going(w)) <= Limit[w] + Cardinality(Slots) - 1

LEMMA MeterInvInit == Init => MeterInv
BY LimitAssumption, PricesAssumption, BoundsAssumption
DEF Init, MeterInv, TypeOK, SlotsFit, WritesFit, AnsweredIsMetered, NoBill,
    Windows, Calls, Checking, Charging, CheckedIn

\* The bill of a charge that has its invoice is still a bill.
Bills == [month : 0 .. MaxMonth, price : Prices \cup {0},
          invoice : Invoices \cup {None}, total : Nat]

LEMMA BillWithInvoice ==
  ASSUME NEW b \in Bills, NEW i \in Invoices, NEW t \in Nat
  PROVE  [b EXCEPT !.invoice = i, !.total = t] \in Bills
BY DEF Bills

LEMMA LeaveStep ==
  ASSUME MeterInv, NEW r \in Slots, pc[r] # "idle", Leave(r)
  PROVE  MeterInv'
<1> USE DEF MeterInv, TypeOK, SlotsFit, WritesFit, AnsweredIsMetered, Leave,
            tables, NoBill, Checking, Charging, CheckedIn, MustPay
<1>1. TypeOK'
  BY BoundsAssumption
<1>2. SlotsFit'
  OBVIOUS
<1>3. WritesFit'
  OBVIOUS
<1>4. AnsweredIsMetered'
  OBVIOUS
<1>. QED
  BY <1>1, <1>2, <1>3, <1>4

\* Nothing that leaves the charges alone and answers nobody disturbs them.
LEMMA StillMetered ==
  ASSUME AnsweredIsMetered, usage' = usage, charges' = charges,
         \A q \in Slots : pc'[q] = "answer" =>
           /\ pc[q] = "answer" /\ call'[q] = call[q]
           /\ passed'[q] = passed[q] /\ kind'[q] = kind[q]
  PROVE  AnsweredIsMetered'
<1>1. \A q \in Slots : pc'[q] = "answer" => pc[q] = "answer" /\ MustPay(q)' = MustPay(q)
  BY DEF MustPay
<1>. QED
  BY <1>1 DEF AnsweredIsMetered

LEMMA MeterInvStep == MeterInv /\ [Next]_vars => MeterInv'
<1> SUFFICES ASSUME MeterInv, [Next]_vars PROVE MeterInv'
  OBVIOUS
<1> USE LimitAssumption, PricesAssumption, BoundsAssumption
    DEF MeterInv, TypeOK, SlotsFit, WritesFit, AnsweredIsMetered, Windows,
        Calls, Checking, Charging, CheckedIn
<1>1. ASSUME NEW r \in Slots, NEW k \in {"lease", "other", "free"}, Arrive(r, k)
      PROVE  MeterInv'
  <2>1. TypeOK'
    BY <1>1 DEF Arrive, tables, MustPay
  <2>2. SlotsFit'
    BY <1>1 DEF Arrive, tables, MustPay
  <2>3. WritesFit'
    BY <1>1 DEF Arrive, tables, MustPay
  <2>4. AnsweredIsMetered'
    BY <1>1, StillMetered DEF Arrive, tables
  <2>. QED
    BY <2>1, <2>2, <2>3, <2>4
<1>2. ASSUME NEW r \in Slots, NEW w \in Windows, CheckWindow(r, w)
      PROVE  MeterInv'
  <2>1. TypeOK'
    BY <1>2 DEF CheckWindow, tables, MustPay
  <2>2. SlotsFit'
    BY <1>2 DEF CheckWindow, tables, MustPay
  <2>3. WritesFit'
    BY <1>2 DEF CheckWindow, tables, MustPay
  <2>4. AnsweredIsMetered'
    BY <1>2, StillMetered DEF CheckWindow, tables
  <2>. QED
    BY <2>1, <2>2, <2>3, <2>4
<1>3. ASSUME NEW r \in Slots, RecordUsage(r)
      PROVE  MeterInv'
  <2>1. Count(r) \in [Windows -> [unpaid : Nat, other : Nat]]
    BY DEF Count
  <2>. QED
    BY <1>3, <2>1 DEF RecordUsage, MustPay
<1>4. ASSUME NEW r \in Slots, StartCharge(r)
      PROVE  MeterInv'
  <2>1. TypeOK'
    BY <1>4 DEF StartCharge, Current, tables, MustPay
  <2>2. SlotsFit'
    BY <1>4 DEF StartCharge, Current, tables, MustPay
  <2>3. WritesFit'
    BY <1>4 DEF StartCharge, Current, tables, MustPay
  <2>4. AnsweredIsMetered'
    BY <1>4, StillMetered DEF StartCharge, Current, tables
  <2>. QED
    BY <2>1, <2>2, <2>3, <2>4
<1>5. ASSUME NEW r \in Slots, LockInvoice(r)
      PROVE  MeterInv'
  <2>1. TypeOK'
    <3>1. PICK i \in Invoices :
            bill' = [bill EXCEPT ![r] = [bill[r] EXCEPT !.invoice = i,
                                           !.total = amount[i] + bill[r].price]]
      BY <1>5 DEF LockInvoice
    <3>2. bill[r] \in Bills
      BY DEF Bills
    <3>3. amount[i] + bill[r].price \in Nat
      <4>1. bill[r].price \in Nat /\ amount[i] \in Nat
        BY <3>2 DEF Bills
      <4>. QED
        BY <4>1
    <3>4. [bill[r] EXCEPT !.invoice = i, !.total = amount[i] + bill[r].price] \in Bills
      BY <3>2, <3>3, BillWithInvoice
    <3>. QED
      BY <1>5, <3>1, <3>4 DEF LockInvoice, tables, Bills
  <2>2. SlotsFit'
    BY <1>5 DEF LockInvoice, tables, MustPay
  <2>3. WritesFit'
    BY <1>5 DEF LockInvoice, tables, MustPay
  <2>4. AnsweredIsMetered'
    BY <1>5, StillMetered DEF LockInvoice, tables
  <2>. QED
    BY <2>1, <2>2, <2>3, <2>4
<1>6. ASSUME NEW r \in Slots, CommitCharge(r)
      PROVE  MeterInv'
  <2>1. TypeOK'
    BY <1>6 DEF CommitCharge, NoBill, MustPay
  <2>2. SlotsFit'
    BY <1>6 DEF CommitCharge, NoBill, MustPay
  <2>3. WritesFit'
    BY <1>6 DEF CommitCharge, NoBill, MustPay
  <2>4. AnsweredIsMetered'
    <3> DEFINE new == <<call[r], bill[r].invoice, bill[r].price>>
    <3>1. /\ charges' = charges \cup {new} /\ new[1] = call[r]
          /\ usage' = usage /\ call' = call /\ passed' = passed /\ kind' = kind
          /\ \A q \in Slots : pc'[q] = "answer" => q = r \/ pc[q] = "answer"
          /\ call[r] \in usage /\ \A c \in charges : c[1] # new[1]
      BY <1>6 DEF CommitCharge
    <3>2. \A q \in Slots : MustPay(q)' = MustPay(q)
      BY <3>1 DEF MustPay
    <3> HIDE DEF new, MustPay
    <3>3. \A q \in Slots : pc'[q] = "answer" =>
            /\ call[q] \in usage
            /\ MustPay(q) => \E c \in charges' : c[1] = call[q]
      BY <3>1
    <3>4. \A c \in charges' :
            c[1] \in usage' /\ \A d \in charges' : d[1] = c[1] => d = c
      BY <3>1
    <3>. QED
      BY <3>1, <3>2, <3>3, <3>4
  <2>. QED
    BY <2>1, <2>2, <2>3, <2>4
<1>11. ASSUME NEW r \in Slots, MemoryCharge(r)
       PROVE  MeterInv'
  <2>a. PICK i \in Invoices :
          /\ phase' = [phase EXCEPT ![i] = IF @ = "none" THEN "draft" ELSE @]
          /\ period' = [period EXCEPT ![i] = month]
          /\ amount' = [amount EXCEPT ![i] = @ + price]
          /\ charges' = charges \cup {<<call[r], i, price>>}
    BY <1>11 DEF MemoryCharge
  <2>b. /\ pc[r] = "charge" /\ pc' = [pc EXCEPT ![r] = "answer"]
        /\ call[r] \in Calls /\ price \in Nat
    BY <1>11 DEF MemoryCharge
  <2>1. TypeOK'
    BY <1>11, <2>a, <2>b DEF MemoryCharge
  <2>2. SlotsFit'
    BY <1>11 DEF MemoryCharge
  <2>3. WritesFit'
    BY <1>11, <2>a DEF MemoryCharge
  <2>4. AnsweredIsMetered'
    <3> DEFINE new == <<call[r], i, price>>
    <3>1. /\ charges' = charges \cup {new} /\ new[1] = call[r]
          /\ usage' = usage /\ call' = call /\ passed' = passed /\ kind' = kind
          /\ \A q \in Slots : pc'[q] = "answer" => q = r \/ pc[q] = "answer"
          /\ call[r] \in usage /\ \A c \in charges : c[1] # new[1]
      BY <1>11, <2>a DEF MemoryCharge
    <3>2. \A q \in Slots : MustPay(q)' = MustPay(q)
      BY <3>1 DEF MustPay
    <3> HIDE DEF new, MustPay
    <3>3. \A q \in Slots : pc'[q] = "answer" =>
            /\ call[q] \in usage
            /\ MustPay(q) => \E c \in charges' : c[1] = call[q]
      BY <3>1
    <3>4. \A c \in charges' :
            c[1] \in usage' /\ \A d \in charges' : d[1] = c[1] => d = c
      BY <3>1
    <3>. QED
      BY <3>1, <3>2, <3>3, <3>4
  <2>. QED
    BY <2>1, <2>2, <2>3, <2>4
<1>7. ASSUME NEW r \in Slots, Answer(r) \/ Fail(r)
      PROVE  MeterInv'
  BY <1>7, LeaveStep DEF Answer, Fail
<1>8. ASSUME NEW w \in Windows, NEW part \in {"unpaid", "other"}, Expire(w, part)
      PROVE  MeterInv'
  <2>1. TypeOK' /\ SlotsFit' /\ WritesFit'
    BY <1>8 DEF Expire, slot, MustPay
  <2>2. AnsweredIsMetered'
    BY <1>8, StillMetered DEF Expire, slot
  <2>. QED
    BY <2>1, <2>2
<1>9. CASE NewMonth \/ (\E p \in Prices : SetPrice(p))
             \/ \E i \in Invoices : AdminIssueInvoice(i)
  <2>1. TypeOK'
    BY <1>9 DEF NewMonth, SetPrice, AdminIssueInvoice, tables, slot, MustPay
  <2>2. SlotsFit'
    BY <1>9 DEF NewMonth, SetPrice, AdminIssueInvoice, tables, slot, MustPay
  <2>3. WritesFit'
    BY <1>9 DEF NewMonth, SetPrice, AdminIssueInvoice, tables, slot, MustPay
  <2>4. AnsweredIsMetered'
    BY <1>9, StillMetered DEF NewMonth, SetPrice, AdminIssueInvoice, tables, slot
  <2>. QED
    BY <2>1, <2>2, <2>3, <2>4
<1>10. CASE UNCHANGED vars
  BY <1>10 DEF vars, tables, slot, MustPay
<1>. QED
  BY <1>1, <1>2, <1>3, <1>4, <1>5, <1>6, <1>7, <1>8, <1>9, <1>10, <1>11 DEF Next

-----------------------------------------------------------------------------
\* Calls that only leave the window's path make no more of them.
LEMMA GoingShrinks ==
  ASSUME NEW w, NEW A \in SUBSET Slots, NEW B \in SUBSET A
  PROVE  /\ Cardinality(B) \in Nat /\ Cardinality(A) \in Nat
         /\ Cardinality(B) <= Cardinality(A)
<1>1. IsFiniteSet(A)
  BY SlotsAssumption, FS_Subset
<1>. QED
  BY <1>1, FS_Subset, FS_CardinalityType

LEMMA RoomStep == MeterInv /\ RoomLeft /\ [Next]_vars => RoomLeft'
<1> SUFFICES ASSUME MeterInv, RoomLeft, [Next]_vars,
                    NEW w \in Windows, Limit[w] > 0
             PROVE  recent'[w].unpaid + Cardinality(Going(w)')
                      <= Limit[w] + Cardinality(Slots) - 1
  BY DEF RoomLeft
<1> DEFINE unpaid == recent[w].unpaid
<1>a. /\ Going(w) \in SUBSET Slots /\ Going(w)' \in SUBSET Slots
      /\ Cardinality(Going(w)) \in Nat /\ Cardinality(Going(w)') \in Nat
      /\ Cardinality(Slots) \in Nat /\ Limit[w] \in Nat
      /\ unpaid \in Nat /\ recent[w].other \in Nat
      /\ unpaid + Cardinality(Going(w)) <= Limit[w] + Cardinality(Slots) - 1
  <2>1. Going(w) \in SUBSET Slots /\ Going(w)' \in SUBSET Slots
    BY DEF Going
  <2>2. Limit[w] \in Nat /\ unpaid \in Nat /\ recent[w].other \in Nat
    BY LimitAssumption DEF MeterInv, TypeOK
  <2>. QED
    BY <2>1, <2>2, GoingShrinks, SlotsAssumption, FS_CardinalityType DEF RoomLeft
<1>b. ASSUME Going(w)' \subseteq Going(w), recent'[w].unpaid \in Nat,
             recent'[w].unpaid <= unpaid
      PROVE  recent'[w].unpaid + Cardinality(Going(w)')
               <= Limit[w] + Cardinality(Slots) - 1
  <2>1. Cardinality(Going(w)') <= Cardinality(Going(w))
    BY <1>a, <1>b, GoingShrinks
  <2>. QED
    BY <1>a, <1>b, <2>1
<1>1. ASSUME NEW r \in Slots, NEW k \in {"lease", "other", "free"}, Arrive(r, k)
      PROVE  Going(w)' \subseteq Going(w) /\ recent' = recent
  BY <1>1 DEF Arrive, Going, MeterInv, SlotsFit, TypeOK, tables
<1>2. ASSUME NEW r \in Slots, NEW v \in Windows, CheckWindow(r, v)
      PROVE  recent'[w].unpaid + Cardinality(Going(w)')
               <= Limit[w] + Cardinality(Slots) - 1
  <2>0. recent' = recent
    BY <1>2 DEF CheckWindow, tables
  <2>1. CASE v = w /\ Below(w)
    <3>1. unpaid <= Limit[w] - 1
      BY <1>a, <2>1 DEF Below
    <3>2. Cardinality(Going(w)') <= Cardinality(Slots)
      BY <1>a, GoingShrinks
    <3>. QED
      BY <1>a, <2>0, <3>1, <3>2
  <2>2. CASE ~(v = w /\ Below(w))
    <3>1. Going(w)' \subseteq Going(w)
      BY <1>2, <2>2 DEF CheckWindow, Going, MeterInv, TypeOK, Checking, Windows
    <3>. QED
      BY <1>a, <1>b, <2>0, <3>1
  <2>. QED
    BY <2>1, <2>2
<1>3. ASSUME NEW r \in Slots, RecordUsage(r)
      PROVE  recent'[w].unpaid + Cardinality(Going(w)')
               <= Limit[w] + Cardinality(Slots) - 1
  <2>1. Going(w)' = Going(w) \ {r}
    BY <1>3 DEF RecordUsage, Going, MeterInv, TypeOK, Checking
  <2>2. recent'[w] = Count(r)[w] /\ recent[w] \in [unpaid : Nat, other : Nat]
    BY <1>3 DEF RecordUsage, MeterInv, TypeOK
  <2>3. CASE kind[r] # "free" /\ ~MustPay(r) /\ w \in CountedIn(kind[r])
    <3>1. r \in Going(w)
      BY <1>3, <2>3 DEF RecordUsage, Going, MustPay, CountedIn, CheckedIn,
                        MeterInv, TypeOK, Windows
    <3>2. Cardinality(Going(w)') = Cardinality(Going(w)) - 1
      <4>1. IsFiniteSet(Going(w))
        BY <1>a, SlotsAssumption, FS_Subset
      <4>. QED
        BY <2>1, <3>1, <4>1, FS_RemoveElement
    <3>3. recent'[w].unpaid = unpaid + 1
      BY <2>2, <2>3 DEF Count
    <3>. QED
      BY <1>a, <3>2, <3>3
  <2>4. CASE ~(kind[r] # "free" /\ ~MustPay(r) /\ w \in CountedIn(kind[r]))
    <3>1. recent'[w].unpaid = unpaid
      BY <2>2, <2>4 DEF Count
    <3>. QED
      BY <1>a, <1>b, <2>1, <3>1
  <2>. QED
    BY <2>3, <2>4
<1>4. ASSUME NEW r \in Slots,
             \/ MemoryCharge(r) \/ StartCharge(r) \/ LockInvoice(r)
             \/ CommitCharge(r) \/ Answer(r) \/ Fail(r)
      PROVE  Going(w)' \subseteq Going(w) /\ recent' = recent
  BY <1>4 DEF MemoryCharge, StartCharge, LockInvoice, CommitCharge, Answer, Fail, Leave, tables,
              Going, Checking, MeterInv, TypeOK
<1>5. ASSUME NEW v \in Windows, NEW part \in {"unpaid", "other"}, Expire(v, part)
      PROVE  /\ Going(w)' \subseteq Going(w)
             /\ recent'[w].unpaid \in Nat /\ recent'[w].unpaid <= unpaid
  BY <1>a, <1>5 DEF Expire, slot, Going, MeterInv, TypeOK
<1>6. CASE \/ NewMonth
           \/ \E p \in Prices : SetPrice(p)
           \/ \E i \in Invoices : AdminIssueInvoice(i)
           \/ UNCHANGED vars
  <2>1. Going(w)' = Going(w) /\ recent' = recent
    BY <1>6 DEF NewMonth, SetPrice, AdminIssueInvoice, vars, tables, slot, Going
  <2>. QED
    BY <1>a, <1>b, <2>1
<1>. QED
  BY <1>a, <1>b, <1>1, <1>2, <1>3, <1>4, <1>5, <1>6 DEF Next

-----------------------------------------------------------------------------
(* Sums over a set of charges.  The induction is by a smallest set without *)
(* the property.                                                           *)

\* Among subsets of a finite set there is a smallest one.
LEMMA SmallestSet ==
  ASSUME NEW S, IsFiniteSet(S), NEW T \in SUBSET SUBSET S, T # {}
  PROVE  \E s \in T : \A u \in T : u \subseteq s => u = s
<1>1. IsWellFoundedOn(StrictSubsetOrdering(S), SUBSET S)
  BY FS_StrictSubsetOrderingWellFounded, FS_FiniteSubsetsOfFinite
<1>2. \E s \in T : \A u \in T : ~ (<<u, s>> \in StrictSubsetOrdering(S))
  BY <1>1, WFMin
<1>3. PICK s \in T : \A u \in T : ~ (<<u, s>> \in StrictSubsetOrdering(S))
  BY <1>2
<1>4. \A u \in T : u \subseteq s => u = s
  BY <1>3 DEF StrictSubsetOrdering
<1>5. QED
  BY <1>4

Sum(S) == MapThenSumSet(LAMBDA c : c[3], S)

\* The function the sum unfolds, one charge after another.
ByChoice(g, S) ==
  g = [s \in SUBSET S |-> IF s = {} THEN 0
                          ELSE LET x == CHOOSE x \in s : TRUE
                               IN  x[3] + g[s \ {x}]]

LEMMA SumUnfolds == \A S : Sum(S) = (CHOOSE g : ByChoice(g, S))[S]
BY DEF Sum, MapThenSumSet, MapThenFoldSet, ByChoice

Charge == Calls \X Invoices \X Prices

\* A function that sums up every subset of S, whichever charge comes last.
Adds(g, S) ==
  /\ g \in [SUBSET S -> Nat] /\ g[{}] = 0
  /\ \A s \in SUBSET S : \A c \in s : g[s] = c[3] + g[s \ {c}]

LEMMA PaidType == \A c \in Charge : c[3] \in Nat
BY PricesAssumption DEF Charge

LEMMA AddsOneMore ==
  ASSUME NEW S \in SUBSET Charge, NEW c \in S, NEW h, Adds(h, S \ {c})
  PROVE  \E g : Adds(g, S)
<1>. DEFINE g == [s \in SUBSET S |-> IF c \in s THEN c[3] + h[s \ {c}] ELSE h[s]]
<1>1. \A s \in SUBSET S : s \ {c} \in SUBSET (S \ {c}) /\ (c \notin s => s \in SUBSET (S \ {c}))
  OBVIOUS
<1>2. \A s \in SUBSET (S \ {c}) : h[s] \in Nat
  BY DEF Adds
<1>3. \A d \in S : d[3] \in Nat
  BY PaidType
<1>4. \A s \in SUBSET S : g[s] = IF c \in s THEN c[3] + h[s \ {c}] ELSE h[s]
  OBVIOUS
<1>5. g \in [SUBSET S -> Nat]
  BY <1>1, <1>2, <1>3
<1>6. g[{}] = 0
  BY <1>4 DEF Adds
<1>. HIDE DEF g
<1>7. ASSUME NEW s \in SUBSET S, NEW d \in s
      PROVE  g[s] = d[3] + g[s \ {d}]
  <2>1. CASE d = c
    <3>1. g[s \ {d}] = h[s \ {c}]
      BY <1>4, <2>1
    <3>2. QED
      BY <1>4, <2>1, <3>1
  <2>2. CASE d # c /\ c \in s
    <3>1. h[s \ {c}] = d[3] + h[(s \ {c}) \ {d}]
      BY <1>1, <2>2 DEF Adds
    <3>2. (s \ {c}) \ {d} = (s \ {d}) \ {c}
      OBVIOUS
    <3>3. g[s] = c[3] + h[s \ {c}] /\ g[s \ {d}] = c[3] + h[(s \ {d}) \ {c}]
      BY <1>4, <2>2
    <3>4. h[(s \ {d}) \ {c}] \in Nat /\ c[3] \in Nat /\ d[3] \in Nat
      BY <1>1, <1>2, <1>3
    <3>. DEFINE k == h[(s \ {d}) \ {c}]
                paid == c[3]
                more == d[3]
    <3>5. g[s] = paid + (more + k) /\ g[s \ {d}] = paid + k
      BY <3>1, <3>2, <3>3
    <3>6. k \in Nat /\ paid \in Nat /\ more \in Nat
      BY <3>4
    <3>. HIDE DEF k, paid, more
    <3>7. g[s] = more + g[s \ {d}]
      BY <3>5, <3>6
    <3>8. QED
      BY <3>7 DEF more
  <2>3. CASE c \notin s
    <3>1. h[s] = d[3] + h[s \ {d}]
      BY <1>1, <2>3 DEF Adds
    <3>2. QED
      BY <1>4, <2>3, <3>1
  <2>4. QED
    BY <2>1, <2>2, <2>3
<1>8. QED
  BY <1>5, <1>6, <1>7 DEF Adds

LEMMA AddsExists ==
  ASSUME NEW S \in SUBSET Charge, IsFiniteSet(S)
  PROVE  \E g : Adds(g, S)
<1>. DEFINE T == {s \in SUBSET S : ~\E g : Adds(g, s)}
<1>1. SUFFICES ASSUME T # {}
               PROVE  FALSE
  OBVIOUS
<1>2. PICK s \in T : \A u \in T : u \subseteq s => u = s
  <2>1. T \in SUBSET SUBSET S
    OBVIOUS
  <2>. HIDE DEF T
  <2>2. QED
    BY <1>1, <2>1, SmallestSet
<1>3. s # {}
  <2>1. Adds([u \in SUBSET {} |-> 0], {})
    BY DEF Adds
  <2>2. QED
    BY <2>1
<1>4. PICK c \in s : TRUE
  BY <1>3
<1>5. s \ {c} \notin T /\ s \ {c} \in SUBSET S
  BY <1>2, <1>4
<1>6. PICK h : Adds(h, s \ {c})
  BY <1>5
<1>7. \E g : Adds(g, s)
  BY <1>4, <1>6, AddsOneMore
<1>8. QED
  BY <1>7

\* Such a function is the one the sum unfolds, and there is no other.
LEMMA AddsByChoice ==
  ASSUME NEW S, NEW g, Adds(g, S)
  PROVE  ByChoice(g, S)
<1>1. g = [s \in SUBSET S |-> g[s]]
  BY DEF Adds
<1>2. \A s \in SUBSET S :
        g[s] = IF s = {} THEN 0
               ELSE LET x == CHOOSE x \in s : TRUE IN  x[3] + g[s \ {x}]
  BY DEF Adds
<1>3. QED
  BY <1>1, <1>2 DEF ByChoice

LEMMA OneByChoice ==
  ASSUME NEW S, IsFiniteSet(S), NEW g, NEW h, ByChoice(g, S), ByChoice(h, S)
  PROVE  g = h
<1>. DEFINE T == {s \in SUBSET S : g[s] # h[s]}
<1>1. ASSUME T # {}
      PROVE  FALSE
  <2>1. PICK s \in T : \A u \in T : u \subseteq s => u = s
    <3>1. T \in SUBSET SUBSET S
      OBVIOUS
    <3>. HIDE DEF T
    <3>2. QED
      BY <1>1, <3>1, SmallestSet
  <2>2. s # {}
    BY DEF ByChoice
  <2>. DEFINE x == CHOOSE x \in s : TRUE
  <2>3. x \in s
    BY <2>2
  <2>4. g[s] = x[3] + g[s \ {x}] /\ h[s] = x[3] + h[s \ {x}]
    BY <2>2 DEF ByChoice
  <2>. HIDE DEF x
  <2>5. s \ {x} \notin T /\ s \ {x} \in SUBSET S
    BY <2>1, <2>3
  <2>6. QED
    BY <2>4, <2>5
<1>2. QED
  BY <1>1 DEF ByChoice

LEMMA SumAdds ==
  ASSUME NEW S \in SUBSET Charge, IsFiniteSet(S), NEW g, Adds(g, S)
  PROVE  Sum(S) = g[S]
<1>1. ByChoice(g, S)
  BY AddsByChoice
<1>2. ByChoice(CHOOSE f : ByChoice(f, S), S)
  BY <1>1
<1>3. QED
  BY <1>1, <1>2, OneByChoice, SumUnfolds

LEMMA SumOfNone == Sum({}) = 0
<1>1. IsFiniteSet({})
  BY FS_EmptySet
<1>2. PICK g : Adds(g, {})
  BY <1>1, AddsExists
<1>3. QED
  BY <1>1, <1>2, SumAdds DEF Adds

LEMMA SumOfOneMore ==
  ASSUME NEW S \in SUBSET Charge, IsFiniteSet(S), NEW c \in Charge, c \notin S
  PROVE  Sum(S \cup {c}) = Sum(S) + c[3]
<1>. DEFINE T == S \cup {c}
<1>1. IsFiniteSet(T) /\ T \in SUBSET Charge
  BY FS_AddElement
<1>2. PICK g : Adds(g, T)
  BY <1>1, AddsExists
<1>3. g[T] = c[3] + g[S]
  <2>1. T \ {c} = S
    OBVIOUS
  <2>2. QED
    BY <1>2, <2>1 DEF Adds
<1>4. Adds([s \in SUBSET S |-> g[s]], S)
  <2>. DEFINE f == [s \in SUBSET S |-> g[s]]
  <2>1. \A s \in SUBSET S : s \in SUBSET T /\ f[s] = g[s]
    OBVIOUS
  <2>2. f \in [SUBSET S -> Nat]
    BY <1>2, <2>1 DEF Adds
  <2>. HIDE DEF f
  <2>3. f[{}] = 0
    BY <1>2, <2>1 DEF Adds
  <2>4. \A s \in SUBSET S : \A d \in s : f[s] = d[3] + f[s \ {d}]
    BY <1>2, <2>1 DEF Adds
  <2>5. QED
    BY <2>2, <2>3, <2>4 DEF Adds, f
<1>5. Sum(S) = g[S]
  BY <1>4, SumAdds
<1>6. Sum(T) = g[T]
  BY <1>1, <1>2, SumAdds
<1>7. g[S] \in Nat /\ c[3] \in Nat
  BY <1>2, PaidType DEF Adds
<1>8. QED
  BY <1>3, <1>5, <1>6, <1>7

-----------------------------------------------------------------------------
(* The invoices.                                                           *)

AddUp == \A i \in Invoices : amount[i] = Sum({c \in charges : c[2] = i})

LEMMA SumOfInvoice == InvoicesAddUp <=> AddUp
BY DEF InvoicesAddUp, AddUp, Sum

\* InvoicesAddUp made inductive: an invoice whose row is locked has one bill,
\* and the bill adds its charge to the amount that is there.
BillInv ==
  /\ IsFiniteSet(charges)
  /\ AddUp
  /\ \A r \in Slots :
       /\ pc[r] \in {"lock", "commit"} => store = "postgres"
       /\ pc[r] = "commit" =>
            /\ bill[r].total = amount[bill[r].invoice] + bill[r].price
            /\ \A q \in Slots :
                 pc[q] = "commit" /\ bill[q].invoice = bill[r].invoice => q = r

LEMMA ChargeAdded ==
  ASSUME MeterInv, BillInv, NEW i \in Invoices, NEW c \in Charge, c[2] = i,
         c \notin charges, charges' = charges \cup {c},
         amount' = [amount EXCEPT ![i] = amount[i] + c[3]]
  PROVE  IsFiniteSet(charges') /\ AddUp'
<1>1. charges \in SUBSET Charge /\ amount \in [Invoices -> Nat] /\ IsFiniteSet(charges)
  BY DEF MeterInv, TypeOK, BillInv, Charge
<1>2. IsFiniteSet(charges')
  BY <1>1, FS_AddElement
<1>3. ASSUME NEW j \in Invoices
      PROVE  amount'[j] = Sum({d \in charges' : d[2] = j})
  <2>. DEFINE S == {d \in charges : d[2] = j}
  <2>1. S \in SUBSET Charge /\ IsFiniteSet(S) /\ c \notin S
    BY <1>1, FS_Subset
  <2>2. amount[j] = Sum(S)
    BY DEF BillInv, AddUp
  <2>3. CASE j = i
    <3>1. {d \in charges' : d[2] = j} = S \cup {c}
      BY <2>3
    <3>2. Sum(S \cup {c}) = Sum(S) + c[3]
      BY <2>1, SumOfOneMore
    <3>3. amount'[j] = amount[j] + c[3]
      BY <1>1, <2>3
    <3>4. QED
      BY <2>2, <3>1, <3>2, <3>3
  <2>4. CASE j # i
    <3>1. {d \in charges' : d[2] = j} = S
      BY <2>4
    <3>2. amount'[j] = amount[j]
      BY <1>1, <2>4
    <3>3. QED
      BY <2>2, <3>1, <3>2
  <2>5. QED
    BY <2>3, <2>4
<1>4. AddUp'
  BY <1>3 DEF AddUp
<1>5. QED
  BY <1>2, <1>4

\* Nothing that leaves the amounts, the charges and the bills alone disturbs
\* them.
LEMMA BillsKept ==
  ASSUME BillInv, UNCHANGED <<store, amount, charges>>,
         \A q \in Slots :
           /\ pc'[q] \in {"lock", "commit"} =>
                store = "postgres" \/ pc[q] \in {"lock", "commit"}
           /\ pc'[q] = "commit" => pc[q] = "commit" /\ bill'[q] = bill[q]
  PROVE  BillInv'
<1>1. AddUp'
  BY DEF BillInv, AddUp
<1>2. QED
  BY <1>1 DEF BillInv

LEMMA LockBill ==
  ASSUME MeterInv, BillInv, NEW r \in Slots, LockInvoice(r)
  PROVE  BillInv'
<1>1. PICK i \in Invoices :
        /\ ~Locked(i)
        /\ bill' = [bill EXCEPT ![r] = [@ EXCEPT !.invoice = i,
                                               !.total = amount[i] + bill[r].price]]
  BY DEF LockInvoice
<1>2. /\ pc[r] = "lock" /\ pc' = [pc EXCEPT ![r] = "commit"]
      /\ UNCHANGED <<store, amount, charges>>
  BY DEF LockInvoice, tables
<1>3. /\ bill'[r].invoice = i /\ bill'[r].total = amount[i] + bill[r].price
      /\ bill'[r].price = bill[r].price
      /\ \A q \in Slots \ {r} : bill'[q] = bill[q] /\ pc'[q] = pc[q]
      /\ pc'[r] = "commit"
  BY <1>1, <1>2 DEF MeterInv, TypeOK
<1>4. \A q \in Slots \ {r} : pc'[q] = "commit" => bill'[q].invoice # i
  BY <1>1, <1>3 DEF Locked
<1>5. AddUp'
  BY <1>2 DEF BillInv, AddUp
<1>6. QED
  BY <1>2, <1>3, <1>4, <1>5 DEF BillInv

LEMMA CommitBill ==
  ASSUME MeterInv, BillInv, NEW r \in Slots, CommitCharge(r)
  PROVE  BillInv'
<1>. DEFINE i == bill[r].invoice
            c == <<call[r], i, bill[r].price>>
<1>1. /\ pc[r] = "commit" /\ pc' = [pc EXCEPT ![r] = "answer"]
      /\ amount' = [amount EXCEPT ![i] = bill[r].total]
      /\ charges' = charges \cup {c}
      /\ bill' = [bill EXCEPT ![r] = NoBill] /\ UNCHANGED store
  BY DEF CommitCharge
<1>2. /\ i \in Invoices /\ c \in Charge /\ c[2] = i /\ c[3] = bill[r].price
      /\ c \notin charges
  <2>1. i \in Invoices /\ bill[r].price \in Prices /\ call[r] \in Calls
    BY <1>1 DEF MeterInv, WritesFit, TypeOK, Calls, SlotsFit
  <2>2. \A d \in charges : d[1] # call[r]
    BY <1>1 DEF MeterInv, WritesFit, Charging
  <2>3. QED
    BY <2>1, <2>2 DEF Charge
<1>3. bill[r].total = amount[i] + c[3]
  BY <1>1, <1>2 DEF BillInv
<1>. HIDE DEF c
<1>4. IsFiniteSet(charges') /\ AddUp'
  BY <1>1, <1>2, <1>3, ChargeAdded
<1>5. \A q \in Slots \ {r} : bill'[q] = bill[q] /\ pc'[q] = pc[q]
  BY <1>1 DEF MeterInv, TypeOK
<1>6. pc'[r] = "answer"
  BY <1>1 DEF MeterInv, TypeOK
<1>7. \A q \in Slots \ {r} : pc[q] = "commit" => bill[q].invoice # i
  BY <1>1 DEF BillInv
<1>8. \A q \in Slots \ {r} :
        pc[q] = "commit" => amount'[bill[q].invoice] = amount[bill[q].invoice]
  BY <1>1, <1>7 DEF MeterInv, TypeOK, WritesFit
<1>9. QED
  BY <1>1, <1>4, <1>5, <1>6, <1>8 DEF BillInv

LEMMA MemoryBill ==
  ASSUME MeterInv, BillInv, NEW r \in Slots, MemoryCharge(r)
  PROVE  BillInv'
<1>1. PICK i \in Invoices : /\ amount' = [amount EXCEPT ![i] = @ + price]
                            /\ charges' = charges \cup {<<call[r], i, price>>}
  BY DEF MemoryCharge
<1>. DEFINE c == <<call[r], i, price>>
<1>2. c \in Charge /\ c[2] = i /\ c[3] = price /\ c \notin charges
  <2>1. pc[r] = "charge"
    BY DEF MemoryCharge
  <2>2. price \in Prices /\ call[r] \in Calls
    BY <2>1 DEF MeterInv, TypeOK, Calls, SlotsFit
  <2>3. \A d \in charges : d[1] # call[r]
    BY <2>1 DEF MeterInv, WritesFit, Charging
  <2>4. QED
    BY <2>2, <2>3 DEF Charge
<1>3. charges' = charges \cup {c} /\ amount' = [amount EXCEPT ![i] = amount[i] + c[3]]
  BY <1>1, <1>2
<1>. HIDE DEF c
<1>4. IsFiniteSet(charges') /\ AddUp'
  BY <1>2, <1>3, ChargeAdded
<1>5. \A q \in Slots : pc'[q] \notin {"lock", "commit"}
  BY DEF MemoryCharge, BillInv, MeterInv, TypeOK
<1>6. QED
  BY <1>4, <1>5 DEF BillInv

LEMMA BillStep == MeterInv /\ BillInv /\ [Next]_vars => BillInv'
<1> SUFFICES ASSUME MeterInv, BillInv, [Next]_vars
             PROVE  BillInv'
  OBVIOUS
<1>1. ASSUME NEW r \in Slots, NEW k \in {"lease", "other", "free"}, Arrive(r, k)
      PROVE  BillInv'
  BY <1>1, BillsKept DEF Arrive, tables, MeterInv, TypeOK
<1>2. ASSUME NEW r \in Slots, NEW w \in Windows, CheckWindow(r, w)
      PROVE  BillInv'
  BY <1>2, BillsKept DEF CheckWindow, tables, MeterInv, TypeOK
<1>3. ASSUME NEW r \in Slots, RecordUsage(r)
      PROVE  BillInv'
  BY <1>3, BillsKept DEF RecordUsage, MeterInv, TypeOK
<1>4. ASSUME NEW r \in Slots, StartCharge(r)
      PROVE  BillInv'
  BY <1>4, BillsKept DEF StartCharge, tables, MeterInv, TypeOK
<1>5. ASSUME NEW r \in Slots, Answer(r) \/ Fail(r)
      PROVE  BillInv'
  BY <1>5, BillsKept DEF Answer, Fail, Leave, tables, MeterInv, TypeOK
<1>6. CASE \/ \E w \in Windows, part \in {"unpaid", "other"} : Expire(w, part)
           \/ NewMonth
           \/ \E p \in Prices : SetPrice(p)
           \/ \E i \in Invoices : AdminIssueInvoice(i)
           \/ UNCHANGED vars
  BY <1>6, BillsKept
  DEF Expire, NewMonth, SetPrice, AdminIssueInvoice, vars, tables, slot
<1>. QED
  BY <1>1, <1>2, <1>3, <1>4, <1>5, <1>6, LockBill, CommitBill, MemoryBill DEF Next

-----------------------------------------------------------------------------
\* Types of the metering state.
THEOREM MeteringTypes == Spec => []TypeOK
<1>1. MeterInv => TypeOK
  BY DEF MeterInv
<1>. QED
  BY <1>1, MeterInvInit, MeterInvStep, PTL DEF Spec

\* An answered call has its usage record and the charge it owed, and no call
\* is charged twice or without a record, whichever calls fail or overlap.
THEOREM AnsweredCallsAreMetered == Spec => []AnsweredIsMetered
<1>1. MeterInv => AnsweredIsMetered
  BY DEF MeterInv
<1>. QED
  BY <1>1, MeterInvInit, MeterInvStep, PTL DEF Spec

\* Concurrent calls pass a limit by at most one unpaid call per other slot.
THEOREM OvershootIsBounded == Spec => []OvershootBounded
<1>1. Init => RoomLeft
  <2>1. ASSUME Init, NEW w \in Windows, Limit[w] > 0
        PROVE  recent[w].unpaid + Cardinality(Going(w))
                 <= Limit[w] + Cardinality(Slots) - 1
    <3>1. Going(w) = {} /\ recent[w].unpaid = 0
      BY <2>1 DEF Init, Going
    <3>. QED
      BY <2>1, <3>1, LimitAssumption, SlotsAssumption, FS_EmptySet, FS_CardinalityType
  <2>. QED
    BY <2>1 DEF RoomLeft
<1>2. MeterInv /\ RoomLeft => OvershootBounded
  <2>1. ASSUME MeterInv, RoomLeft, NEW w \in Windows, Limit[w] > 0
        PROVE  recent[w].unpaid <= Limit[w] + Cardinality(Slots) - 1
    <3>1. Going(w) \in SUBSET Slots
      BY DEF Going
    <3>2. Cardinality(Going(w)) \in Nat /\ Cardinality(Slots) \in Nat
      BY <3>1, GoingShrinks, SlotsAssumption, FS_CardinalityType
    <3>3. recent[w].unpaid \in Nat /\ Limit[w] \in Nat
      BY <2>1, LimitAssumption DEF MeterInv, TypeOK
    <3>. QED
      BY <2>1, <3>2, <3>3 DEF RoomLeft
  <2>. QED
    BY <2>1 DEF OvershootBounded
<1>. QED
  BY <1>1, <1>2, MeterInvInit, MeterInvStep, RoomStep, PTL DEF Spec

\* An invoice amounts to the charges on record for it, whichever calls, months
\* and operators overlap: for any number of slots, invoices and prices.
THEOREM ChargesAddUp == Spec => []InvoicesAddUp
<1>1. Init => BillInv
  <2>1. ASSUME Init
        PROVE  BillInv
    <3>1. charges = {} /\ IsFiniteSet(charges)
      BY <2>1, FS_EmptySet DEF Init
    <3>2. \A i \in Invoices : {c \in charges : c[2] = i} = {} /\ amount[i] = 0
      BY <2>1, <3>1 DEF Init
    <3>3. AddUp
      BY <3>2, SumOfNone DEF AddUp
    <3>4. QED
      BY <2>1, <3>1, <3>3 DEF Init, BillInv
  <2>2. QED
    BY <2>1
<1>2. BillInv => InvoicesAddUp
  BY SumOfInvoice DEF BillInv
<1>. QED
  BY <1>1, <1>2, MeterInvInit, MeterInvStep, BillStep, PTL DEF Spec

=============================================================================
