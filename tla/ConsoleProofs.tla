--------------------------- MODULE ConsoleProofs ---------------------------
(***************************************************************************)
(* Proofs about Console and Sending, for any number of calls of any kind   *)
(* and any size of the pool: types and who holds a client (ConsoleTypes),  *)
(* what alone can starve the pool (OnlyNestingStarves), which commands are *)
(* logged before their answer (AnsweredCallsAreAudited), and, from what    *)
(* each step does to tables and log, how far sends can pass the cooldown   *)
(* (CooldownBounds).                                                       *)
(***************************************************************************)
EXTENDS Console, FiniteSetTheorems, TLAPS

USE DEF CallIds

-----------------------------------------------------------------------------
(* Rows of the audit log.                                                  *)

Rows == {audit[n] : n \in 1..Len(audit)}

LEMMA AppendedRows ==
  ASSUME NEW s \in Seq(AuditRow), NEW e \in AuditRow
  PROVE  /\ Append(s, e) \in Seq(AuditRow)
         /\ Len(Append(s, e)) = Len(s) + 1
         /\ \A n \in 1..Len(s) : Append(s, e)[n] = s[n]
         /\ Append(s, e)[Len(s) + 1] = e
OBVIOUS

LEMMA InsertedRows ==
  ASSUME NEW s \in Seq(AuditRow), NEW i \in 1..(Len(s) + 1), NEW e \in AuditRow
  PROVE  /\ InsertAt(s, i, e) \in Seq(AuditRow)
         /\ Len(InsertAt(s, i, e)) = Len(s) + 1
         /\ \A n \in 1..(Len(s) + 1) : InsertAt(s, i, e)[n] =
              IF n < i THEN s[n] ELSE IF n = i THEN e ELSE s[n - 1]
<1> DEFINE a == SubSeq(s, 1, i - 1)
           c == SubSeq(s, i, Len(s))
           b == a \o <<e>>
           t == b \o c
<1>1. a \in Seq(AuditRow) /\ Len(a) = i - 1 /\ \A n \in 1..(i - 1) : a[n] = s[n]
  OBVIOUS
<1>2. /\ c \in Seq(AuditRow) /\ Len(c) = Len(s) - i + 1
      /\ \A n \in 1..(Len(s) - i + 1) : c[n] = s[n + i - 1]
  OBVIOUS
<1>3. InsertAt(s, i, e) = t
  BY DEF InsertAt
<1>. HIDE DEF a, c
<1>4. b \in Seq(AuditRow) /\ Len(b) = i /\ b[i] = e /\ \A n \in 1..(i - 1) : b[n] = s[n]
  BY <1>1
<1>. HIDE DEF b
<1>5. t \in Seq(AuditRow) /\ Len(t) = Len(s) + 1 /\ \A n \in 1..i : t[n] = b[n]
  BY <1>2, <1>4
<1>6. \A n \in (i + 1)..(Len(s) + 1) : t[n] = s[n - 1]
  <2>1. TAKE n \in (i + 1)..(Len(s) + 1)
  <2>2. t[n] = c[n - i]
    BY <1>2, <1>4
  <2>3. n - i \in 1..(Len(s) - i + 1) /\ n - i + i - 1 = n - 1
    OBVIOUS
  <2>4. QED
    BY <1>2, <2>2, <2>3
<1>. HIDE DEF t
<1>7. QED
  BY <1>3, <1>4, <1>5, <1>6

\* The log after a step: it has the rows it had and, if one is new, that one.
LEMMA LogStep ==
  ASSUME audit \in Seq(AuditRow), NEW e \in AuditRow, NEW k \in 0..Len(audit),
         audit' = Append(audit, e) \/ audit' = InsertAt(audit, k + 1, e)
  PROVE  /\ audit' \in Seq(AuditRow)
         /\ Len(audit') = Len(audit) + 1
         /\ Rows' = Rows \cup {e}
<1>1. CASE audit' = Append(audit, e)
  BY <1>1, AppendedRows DEF Rows
<1>2. CASE audit' = InsertAt(audit, k + 1, e)
  <2>. DEFINE j == k + 1
  <2>1. j \in 1..(Len(audit) + 1) /\ audit' = InsertAt(audit, j, e)
    BY <1>2
  <2>. HIDE DEF j
  <2>2. /\ audit' \in Seq(AuditRow) /\ Len(audit') = Len(audit) + 1
        /\ \A n \in 1..(Len(audit) + 1) : audit'[n] =
             IF n < j THEN audit[n] ELSE IF n = j THEN e ELSE audit[n - 1]
    <3>1. /\ InsertAt(audit, j, e) \in Seq(AuditRow)
          /\ Len(InsertAt(audit, j, e)) = Len(audit) + 1
          /\ \A n \in 1..(Len(audit) + 1) : InsertAt(audit, j, e)[n] =
               IF n < j THEN audit[n] ELSE IF n = j THEN e ELSE audit[n - 1]
      BY <2>1, InsertedRows
    <3>2. QED
      BY <2>1, <3>1, Zenon
  <2>3. \A n \in 1..Len(audit) : audit'[IF n < j THEN n ELSE n + 1] = audit[n]
    BY <2>1, <2>2
  <2>4. Rows \cup {e} \subseteq Rows'
    <3>1. \A n \in 1..Len(audit) : audit[n] \in Rows'
      BY <2>1, <2>2, <2>3 DEF Rows
    <3>2. e \in Rows'
      BY <2>1, <2>2 DEF Rows
    <3>3. QED
      BY <3>1, <3>2 DEF Rows
  <2>5. Rows' \subseteq Rows \cup {e}
    <3>1. \A n \in 1..Len(audit') : audit'[n] \in Rows \cup {e}
      BY <2>1, <2>2 DEF Rows
    <3>2. QED
      BY <3>1 DEF Rows
  <2>6. QED
    BY <2>2, <2>4, <2>5
<1>3. QED
  BY <1>1, <1>2

-----------------------------------------------------------------------------
(* The inductive invariant.                                                *)

Plain == Steps \ InTransaction

\* Steps that follow the audit row of a call.
Logging == {"reread", "show", "meter", "answer", "ok"}

Types ==
  /\ op \in [CallIds -> Ops \cup {"none"}]
  /\ arg \in [CallIds -> Inputs]
  /\ kept \in [CallIds -> Nat]
  /\ db \in Tables
  /\ audit \in Seq(AuditRow)
  /\ mailed \in [CallIds -> Nat]
  /\ api \in [cache : 0..MaxCalls, loaded : BOOLEAN, muddled : BOOLEAN]

Pool ==
  /\ pc \in [CallIds -> Steps]
  /\ clients = {i \in CallIds : store = "postgres" /\ pc[i] \in InTransaction}
  /\ Cardinality(clients) <= PoolSize

\* What is kept across an await is settings, or a place in the log.
KeptFits ==
  \A i \in CallIds :
    /\ pc[i] = "loaded" => kept[i] <= MaxCalls
    /\ pc[i] \in InTransaction => kept[i] <= Len(audit)

Nesting ==
  \A i \in CallIds :
    /\ pc[i] = "nested" => op[i] \in {"parse", "updateSettings"}
    /\ pc[i] = "upsert" => op[i] = "updateSettings"

Audited ==
  \A i \in CallIds : op[i] \in Logged /\ pc[i] \in Logging => Row(i) \in Rows

Calling == KeptFits /\ Nesting /\ Audited

IInv == Types /\ Pool /\ Calling

-----------------------------------------------------------------------------
(* Progress.                                                               *)

LEMMA ClientsFinite ==
  ASSUME Pool
  PROVE  IsFiniteSet(clients) /\ Cardinality(clients) \in Nat
<1>1. IsFiniteSet(CallIds)
  BY MaxCallsAssumption, FS_Interval
<1>2. clients \subseteq CallIds
  BY DEF Pool
<1>3. QED
  BY <1>1, <1>2, FS_Subset, FS_CardinalityType

LEMMA PlainStep ==
  ASSUME Pool, NEW i \in CallIds, NEW s \in Plain, NEW t \in Plain,
         Step(i, s, t), UNCHANGED clients
  PROVE  Pool'
BY DEF Pool, Step, Plain, asked

LEMMA BeginStep ==
  ASSUME Pool, NEW i \in CallIds, NEW s \in Plain, NEW t \in InTransaction,
         Begin(i, s, t)
  PROVE  Pool'
<1>1. t \in Steps
  BY DEF Steps, InTransaction
<1>2. pc' \in [CallIds -> Steps] /\ store = "postgres" /\ store' = store
  BY <1>1 DEF Pool, Begin, Step, asked
<1>3. clients' = {j \in CallIds : store = "postgres" /\ pc'[j] \in InTransaction}
  BY <1>2 DEF Pool, Begin, Step, Plain
<1>4. Cardinality(clients') <= PoolSize
  <2>1. i \notin clients
    BY DEF Pool, Begin, Step, Plain
  <2>2. Cardinality(clients') = Cardinality(clients) + 1
    BY <2>1, ClientsFinite, FS_AddElement DEF Begin
  <2>3. QED
    BY <2>2, ClientsFinite, PoolSizeAssumption DEF Begin, Free
<1>5. QED
  BY <1>2, <1>3, <1>4 DEF Pool

LEMMA InTxStep ==
  ASSUME Pool, NEW i \in CallIds, NEW s \in InTransaction, NEW t \in InTransaction,
         InTx(i, s, t)
  PROVE  Pool'
<1>1. t \in Steps
  BY DEF Steps, InTransaction
<1>2. QED
  BY <1>1 DEF Pool, InTx, Step, asked

LEMMA CommitStep ==
  ASSUME Pool, NEW i \in CallIds, NEW s \in InTransaction, NEW t \in Plain,
         Commit(i, s, t)
  PROVE  Pool'
<1>1. pc' \in [CallIds -> Steps] /\ store' = store
  BY DEF Pool, Commit, Step, asked, Plain
<1>2. clients' = {j \in CallIds : store = "postgres" /\ pc'[j] \in InTransaction}
  BY DEF Pool, Commit, Step, Plain
<1>3. Cardinality(clients') <= PoolSize
  <2>1. Cardinality(clients') \in Nat /\ Cardinality(clients') <= Cardinality(clients)
    BY ClientsFinite, FS_Subset, FS_CardinalityType DEF Commit
  <2>2. QED
    BY <2>1, ClientsFinite, PoolSizeAssumption DEF Pool
<1>4. QED
  BY <1>1, <1>2, <1>3 DEF Pool

\* A step of one call leaves the others as they are, but for the place in the
\* log of an open transaction when a row is put in before it.
LEMMA CallingStep ==
  ASSUME Types, Pool, Calling, NEW i \in CallIds, NEW s, NEW t \in Steps,
         Step(i, s, t),
         kept' \in [CallIds -> Nat],
         \A j \in CallIds : \/ j = i \/ kept'[j] = kept[j]
                            \/ /\ j \in clients /\ kept'[j] = kept[j] + 1
                               /\ Len(audit') = Len(audit) + 1,
         Rows \subseteq Rows', Len(audit) <= Len(audit'), Len(audit') \in Nat,
         t = "loaded" => kept'[i] <= MaxCalls,
         t \in InTransaction => kept'[i] <= Len(audit'),
         t = "nested" => op[i] \in {"parse", "updateSettings"},
         t = "upsert" => op[i] = "updateSettings",
         t \in Logging => s \in Logging \/ op[i] \notin Logged \/ Row(i) \in Rows'
  PROVE  Calling'
<1>1. /\ pc[i] = s /\ pc'[i] = t /\ op' = op
      /\ \A j \in CallIds : j = i \/ pc'[j] = pc[j]
  BY DEF Pool, Step, asked
<1>2. Len(audit) \in Nat
  BY DEF Types
<1>3. KeptFits'
  <2>1. SUFFICES ASSUME NEW j \in CallIds
                 PROVE  /\ pc'[j] = "loaded" => kept'[j] <= MaxCalls
                        /\ pc'[j] \in InTransaction => kept'[j] <= Len(audit')
    BY DEF KeptFits
  <2>2. kept[j] \in Nat /\ kept'[j] \in Nat
    BY DEF Types
  <2>3. CASE j = i
    BY <1>1, <2>3
  <2>4. CASE j # i
    <3>1. CASE kept'[j] = kept[j]
      BY <1>1, <1>2, <2>2, <2>4, <3>1, MaxCallsAssumption DEF Calling, KeptFits
    <3>2. CASE kept'[j] # kept[j]
      <4>1. /\ pc[j] \in InTransaction /\ pc'[j] = pc[j]
            /\ kept'[j] = kept[j] + 1 /\ Len(audit') = Len(audit) + 1
        BY <1>1, <2>4, <3>2 DEF Pool
      <4>2. pc'[j] # "loaded"
        BY <4>1 DEF InTransaction
      <4>3. kept[j] <= Len(audit)
        BY <4>1 DEF Calling, KeptFits
      <4>4. QED
        BY <1>2, <2>2, <4>1, <4>2, <4>3
    <3>3. QED
      BY <3>1, <3>2
  <2>5. QED
    BY <2>3, <2>4
<1>4. Nesting'
  BY <1>1 DEF Calling, Nesting
<1>5. Audited'
  <2>1. SUFFICES ASSUME NEW j \in CallIds, op[j] \in Logged, pc'[j] \in Logging
                 PROVE  Row(j) \in Rows'
    BY <1>1 DEF Audited, Row, Entry, LoggedAs
  <2>2. CASE j = i
    BY <1>1, <2>1, <2>2 DEF Calling, Audited
  <2>3. CASE j # i
    BY <1>1, <2>1, <2>3 DEF Calling, Audited
  <2>4. QED
    BY <2>2, <2>3
<1>6. QED
  BY <1>3, <1>4, <1>5 DEF Calling

-----------------------------------------------------------------------------
(* Statements.                                                             *)

\* A step that needs no new row in the log.
Quiet(i, s, t) == t \in Logging => s \in Logging \/ op[i] \notin Logged

LEMMA QuietStep ==
  ASSUME IInv, NEW i \in CallIds, NEW s \in Plain, NEW t \in Plain,
         Step(i, s, t), UNCHANGED <<clients, kept, audit>>,
         t # "loaded", Quiet(i, s, t),
         db' \in Tables, mailed' \in [CallIds -> Nat],
         api' \in [cache : 0..MaxCalls, loaded : BOOLEAN, muddled : BOOLEAN]
  PROVE  IInv'
<1>1. t \in Steps /\ t \notin InTransaction /\ t # "nested" /\ t # "upsert"
  BY DEF Plain, InTransaction
<1>2. Pool'
  BY PlainStep DEF IInv
<1>3. Types'
  BY DEF IInv, Types, Step, asked
<1>4. Calling'
  <2>1. Rows \subseteq Rows' /\ Len(audit) <= Len(audit') /\ Len(audit') \in Nat
    BY DEF Rows, IInv, Types
  <2>2. t \in Logging => s \in Logging \/ op[i] \notin Logged
    BY DEF Quiet
  <2>3. kept' \in [CallIds -> Nat] /\ \A j \in CallIds : kept'[j] = kept[j]
    BY DEF IInv, Types
  <2>4. QED
    BY <1>1, <2>1, <2>2, <2>3, CallingStep DEF IInv
<1>5. QED
  BY <1>2, <1>3, <1>4 DEF IInv

LEMMA LoggedStep ==
  ASSUME IInv, NEW i \in CallIds, NEW s \in Plain, NEW t \in Plain,
         Step(i, s, t), UNCHANGED <<clients, kept, mailed, api>>,
         t # "loaded", db' \in Tables,
         NEW e \in AuditRow, audit' = Append(audit, e), t \in Logging => e = Row(i)
  PROVE  IInv'
<1>1. t \in Steps /\ t \notin InTransaction /\ t # "nested" /\ t # "upsert"
  BY DEF Plain, InTransaction
<1>2. Pool'
  BY PlainStep DEF IInv
<1>3. audit' \in Seq(AuditRow) /\ Len(audit') = Len(audit) + 1 /\ Rows' = Rows \cup {e}
  <2>1. 0 \in 0..Len(audit) /\ audit \in Seq(AuditRow)
    BY DEF IInv, Types
  <2>2. QED
    BY <2>1, LogStep
<1>4. Types'
  BY <1>3 DEF IInv, Types, Step, asked
<1>5. Calling'
  <2>1. Rows \subseteq Rows' /\ Len(audit) <= Len(audit') /\ Len(audit') \in Nat
    BY <1>3 DEF IInv, Types
  <2>2. kept' \in [CallIds -> Nat] /\ \A j \in CallIds : kept'[j] = kept[j]
    BY DEF IInv, Types
  <2>3. QED
    BY <1>1, <1>3, <2>1, <2>2, CallingStep DEF IInv
<1>6. QED
  BY <1>2, <1>4, <1>5 DEF IInv

LEMMA OpenStep ==
  ASSUME IInv, NEW i \in CallIds, NEW t \in InTransaction, Open(i, t),
         t = "nested" => op[i] \in {"parse", "updateSettings"},
         t = "upsert" => op[i] = "updateSettings"
  PROVE  IInv'
<1>1. /\ t \in Steps /\ "begin" \in Plain /\ t # "loaded" /\ t \notin Logging
  BY DEF Plain, Steps, InTransaction, Over, Logging
<1>2. Pool'
  BY <1>1, BeginStep DEF IInv, Open
<1>3. /\ kept' = [kept EXCEPT ![i] = Len(audit)] /\ UNCHANGED <<db, audit, mailed, api>>
      /\ UNCHANGED asked /\ Step(i, "begin", t)
  BY DEF Open, Begin, Step
<1>4. Types'
  BY <1>3 DEF IInv, Types, asked
<1>5. Calling'
  <2>1. Rows \subseteq Rows' /\ Len(audit) <= Len(audit') /\ Len(audit') \in Nat
    BY <1>3 DEF Rows, IInv, Types
  <2>2. /\ kept' \in [CallIds -> Nat] /\ \A j \in CallIds : j = i \/ kept'[j] = kept[j]
        /\ kept'[i] <= Len(audit')
    BY <1>3, <2>1 DEF IInv, Types
  <2>3. QED
    BY <1>1, <1>3, <2>1, <2>2, CallingStep DEF IInv
<1>6. QED
  BY <1>2, <1>4, <1>5 DEF IInv

LEMMA WithinStep ==
  ASSUME IInv, NEW i \in CallIds, NEW s \in InTransaction, NEW t \in InTransaction,
         Within(i, s, t),
         t = "nested" => op[i] \in {"parse", "updateSettings"},
         t # "upsert"
  PROVE  IInv'
<1>1. /\ t \in Steps /\ t # "loaded" /\ t \notin Logging
  BY DEF Steps, InTransaction, Over, Logging
<1>2. Pool'
  BY InTxStep DEF IInv, Within
<1>3. UNCHANGED <<asked, kept, db, audit, mailed, api>> /\ Step(i, s, t)
  BY DEF Within, InTx, Step
<1>4. Types'
  BY <1>3 DEF IInv, Types, asked
<1>5. Calling'
  <2>1. Rows \subseteq Rows' /\ Len(audit) <= Len(audit') /\ Len(audit') \in Nat
    BY <1>3 DEF Rows, IInv, Types
  <2>2. /\ kept' \in [CallIds -> Nat] /\ \A j \in CallIds : kept'[j] = kept[j]
        /\ kept'[i] <= Len(audit')
    BY <1>3, <2>1 DEF IInv, Types, Calling, KeptFits, Step
  <2>3. QED
    BY <1>1, <1>3, <2>1, <2>2, CallingStep DEF IInv
<1>6. QED
  BY <1>2, <1>4, <1>5 DEF IInv

\* The places of the other open transactions after a commit.
LEMMA CommitPlaces ==
  ASSUME IInv, NEW i \in CallIds, NEW t, NEW tables, NEW e, CommitWith(i, t, tables, e)
  PROVE  /\ kept' \in [CallIds -> Nat]
         /\ \A j \in CallIds : \/ kept'[j] = kept[j]
                               \/ j # i /\ j \in clients /\ kept'[j] = kept[j] + 1
<1>1. PICK later \in SUBSET {j \in clients \ {i} : kept[j] >= kept[i]} :
        kept' = [j \in CallIds |-> IF j \in later THEN kept[j] + 1 ELSE kept[j]]
  BY DEF CommitWith
<1>2. \A j \in CallIds : kept[j] \in Nat
  BY DEF IInv, Types
<1>3. QED
  BY <1>1, <1>2

LEMMA CommitWithStep ==
  ASSUME IInv, NEW i \in CallIds, NEW tables \in Tables, Row(i) \in AuditRow,
         CommitWith(i, "answer", tables, Row(i))
  PROVE  IInv'
<1>1. "answer" \in Plain /\ "answer" \in Steps /\ "commit" \in InTransaction /\ "answer" \notin InTransaction
  BY DEF Plain, Steps, InTransaction, Over
<1>2. /\ Commit(i, "commit", "answer") /\ Step(i, "commit", "answer")
      /\ db' = tables /\ audit' = InsertAt(audit, kept[i] + 1, Row(i))
      /\ UNCHANGED <<asked, mailed, api>>
  BY DEF CommitWith, Commit, Step
<1>3. Pool'
  BY <1>1, <1>2, CommitStep DEF IInv
<1>4. audit' \in Seq(AuditRow) /\ Len(audit') = Len(audit) + 1 /\ Rows' = Rows \cup {Row(i)}
  <2>1. kept[i] \in 0..Len(audit) /\ audit \in Seq(AuditRow)
    BY <1>1, <1>2 DEF IInv, Types, Calling, KeptFits, Step
  <2>2. QED
    BY <1>2, <2>1, LogStep
<1>5. Types'
  BY <1>2, <1>4, CommitPlaces DEF IInv, Types, asked
<1>6. Calling'
  <2>1. Rows \subseteq Rows' /\ Len(audit) <= Len(audit') /\ Len(audit') \in Nat
    BY <1>4 DEF IInv, Types
  <2>2. /\ kept' \in [CallIds -> Nat]
        /\ \A j \in CallIds : \/ kept'[j] = kept[j]
                              \/ j \in clients /\ kept'[j] = kept[j] + 1
    BY CommitPlaces
  <2>3. QED
    BY <1>1, <1>2, <1>4, <2>1, <2>2, CallingStep DEF IInv
<1>7. QED
  BY <1>3, <1>5, <1>6 DEF IInv

-----------------------------------------------------------------------------
(* The steps of a call.                                                    *)

LEMMA Names ==
  /\ {"unborn", "load", "loaded", "auth", "find", "status", "quotas", "change",
      "audit", "show", "meter", "cooldown", "create", "smtp", "complete",
      "reread", "failing", "begin", "set", "open", "turn", "answer",
      "ok", "failed", "lost"} = Plain
  /\ {"upsert", "nested", "write", "commit"} = InTransaction
BY DEF Plain, Steps, InTransaction, Over

LEMMA SelectStep ==
  ASSUME IInv, NEW i \in CallIds, NEW s \in Plain, NEW t \in Plain,
         Select(i, s, t), t # "loaded", Quiet(i, s, t)
  PROVE  IInv'
<1>1. Step(i, s, t) /\ UNCHANGED <<clients, kept, audit, db, mailed, api>>
  BY DEF Select, Query, Step
<1>2. QED
  BY <1>1, QuietStep DEF IInv, Types

LEMMA WriteStep ==
  ASSUME IInv, NEW i \in CallIds, NEW s \in Plain, NEW t \in Plain,
         NEW tables \in Tables,
         Write(i, s, t, tables), t # "loaded", Quiet(i, s, t)
  PROVE  IInv'
<1>1. Step(i, s, t) /\ UNCHANGED <<clients, kept, audit, mailed, api>> /\ db' = tables
  BY DEF Write, Query, Step
<1>2. QED
  BY <1>1, QuietStep DEF IInv, Types

LEMMA RecordStep ==
  ASSUME IInv, NEW i \in CallIds, NEW s \in Plain, NEW t \in Plain,
         NEW e \in AuditRow,
         Record(i, s, t, e), t # "loaded", t \in Logging => e = Row(i)
  PROVE  IInv'
<1>1. /\ Step(i, s, t) /\ UNCHANGED <<clients, kept, db, mailed, api>>
      /\ audit' = Append(audit, e)
  BY DEF Record, Query, Step
<1>2. QED
  BY <1>1, LoggedStep DEF IInv, Types

LEMMA InMemoryStep ==
  ASSUME IInv, NEW i \in CallIds, NEW s \in Plain, NEW t \in Plain,
         NEW tables \in Tables, NEW e \in AuditRow,
         InMemory(i, s, t, tables, e), t # "loaded", t \in Logging => e = Row(i)
  PROVE  IInv'
<1>1. /\ Step(i, s, t) /\ UNCHANGED <<clients, kept, mailed, api>>
      /\ audit' = Append(audit, e) /\ db' = tables
  BY DEF InMemory, AtOnce, Step
<1>2. QED
  BY <1>1, LoggedStep DEF IInv, Types

LEMMA RowType ==
  ASSUME Types, NEW i \in CallIds, op[i] \in Logged
  PROVE  Row(i) \in AuditRow
<1>1. LoggedAs(i) \in Actions
  BY DEF LoggedAs, Actions
<1>2. (op[i] \in Named) \in BOOLEAN
  OBVIOUS
<1>3. QED
  BY <1>1, <1>2 DEF Row, Entry, AuditRow

LEMMA NumberType == \A i \in CallIds : i \in 0..MaxCalls
BY MaxCallsAssumption

LEMMA EventType ==
  ASSUME Types, NEW status \in Inputs
  PROVE  Event(status) \in Tables
<1>1. db.events \in Seq(Inputs)
  BY DEF Types, Tables
<1>2. Append(db.events, status) \in Seq(Inputs)
  BY <1>1
<1>3. QED
  BY <1>2 DEF Event, Types, Tables

LEMMA PatchTenantSteps ==
  ASSUME IInv, NEW i \in CallIds, MemoryPatchTenant(i) \/ PgPatchTenant(i)
  PROVE  IInv'
<1>1. op[i] = "patchTenant"
  BY DEF MemoryPatchTenant, PgPatchTenant
<1>2. Row(i) \in AuditRow
  BY <1>1, RowType DEF IInv, Logged
<1>3. Patched(i) \in Tables /\ [db EXCEPT !.status = "suspended"] \in Tables
  BY DEF IInv, Types, Tables, Patched
<1>4. CASE InMemory(i, "find", "answer", Patched(i), Row(i))
  BY <1>2, <1>3, <1>4, InMemoryStep, Names
<1>5. CASE PgPatchTenant(i)
  <2>1. CASE Select(i, "find", "status")
    BY <2>1, SelectStep, Names DEF Quiet, Logging
  <2>2. CASE Write(i, "status", IF arg[i] = "disable" THEN "audit" ELSE "quotas",
                   [db EXCEPT !.status = "suspended"])
    BY <1>3, <2>2, WriteStep, Names DEF Quiet, Logging
  <2>3. CASE Write(i, "quotas", "audit", Patched(i))
    BY <1>3, <2>3, WriteStep, Names DEF Quiet, Logging
  <2>4. CASE Select(i, "quotas", "failed")
    BY <2>4, SelectStep, Names DEF Quiet, Logging
  <2>5. CASE Record(i, "audit", "show", Row(i))
    BY <1>2, <2>5, RecordStep, Names
  <2>6. CASE Select(i, "show", "answer")
    BY <2>6, SelectStep, Names DEF Quiet, Logging
  <2>7. QED
    BY <1>5, <2>1, <2>2, <2>3, <2>4, <2>5, <2>6 DEF PgPatchTenant
<1>6. QED
  BY <1>4, <1>5 DEF MemoryPatchTenant

LEMMA IssueInvoiceSteps ==
  ASSUME IInv, NEW i \in CallIds, MemoryIssueInvoice(i) \/ PgIssueInvoice(i)
  PROVE  IInv'
<1>1. Row(i) \in AuditRow
  BY RowType DEF MemoryIssueInvoice, PgIssueInvoice, IInv, Logged
<1>2. [db EXCEPT !.invoice = "issued"] \in Tables
  BY DEF IInv, Types, Tables
<1>3. CASE MemoryIssueInvoice(i)
  BY <1>1, <1>2, <1>3, InMemoryStep, Names DEF MemoryIssueInvoice
<1>4. CASE PgIssueInvoice(i)
  <2>1. CASE Select(i, "find", "change")
    BY <2>1, SelectStep, Names DEF Quiet, Logging
  <2>2. CASE Write(i, "change", "audit", [db EXCEPT !.invoice = "issued"])
    BY <1>2, <2>2, WriteStep, Names DEF Quiet, Logging
  <2>3. CASE Record(i, "audit", "answer", Row(i))
    BY <1>1, <2>3, RecordStep, Names
  <2>4. QED
    BY <1>4, <2>1, <2>2, <2>3 DEF PgIssueInvoice
<1>5. QED
  BY <1>3, <1>4

LEMMA UpsertPolicySteps ==
  ASSUME IInv, NEW i \in CallIds, MemoryUpsertPolicy(i) \/ PgUpsertPolicy(i)
  PROVE  IInv'
<1>1. Row(i) \in AuditRow
  BY RowType DEF MemoryUpsertPolicy, PgUpsertPolicy, IInv, Logged
<1>2. [db EXCEPT !.policy = arg[i]] \in Tables
  BY DEF IInv, Types, Tables
<1>3. CASE MemoryUpsertPolicy(i)
  BY <1>1, <1>2, <1>3, InMemoryStep, Names DEF MemoryUpsertPolicy
<1>4. CASE PgUpsertPolicy(i)
  <2>1. CASE Write(i, "find", "audit", [db EXCEPT !.policy = arg[i]])
    BY <1>2, <2>1, WriteStep, Names DEF Quiet, Logging
  <2>2. CASE Record(i, "audit", "answer", Row(i))
    BY <1>1, <2>2, RecordStep, Names
  <2>3. QED
    BY <1>4, <2>1, <2>2 DEF PgUpsertPolicy
<1>5. QED
  BY <1>3, <1>4

LEMMA RotateSteps ==
  ASSUME IInv, NEW i \in CallIds, MemoryRotate(i) \/ PgRotate(i)
  PROVE  IInv'
<1>1. Row(i) \in AuditRow
  BY RowType DEF MemoryRotate, PgRotate, IInv, Logged
<1>2. [db EXCEPT !.secret = i] \in Tables
  BY NumberType DEF IInv, Types, Tables
<1>3. CASE MemoryRotate(i)
  BY <1>1, <1>2, <1>3, InMemoryStep, Names DEF MemoryRotate
<1>4. CASE PgRotate(i)
  <2>1. CASE Select(i, "find", "change")
    BY <2>1, SelectStep, Names DEF Quiet, Logging
  <2>2. CASE Write(i, "change", "audit", [db EXCEPT !.secret = i])
    BY <1>2, <2>2, WriteStep, Names DEF Quiet, Logging
  <2>3. CASE Record(i, "audit", "answer", Row(i))
    BY <1>1, <2>3, RecordStep, Names
  <2>4. QED
    BY <1>4, <2>1, <2>2, <2>3 DEF PgRotate
<1>5. QED
  BY <1>3, <1>4

LEMMA AdminRotateSteps ==
  ASSUME IInv, NEW i \in CallIds, MemoryAdminRotate(i) \/ PgAdminRotate(i)
  PROVE  IInv'
<1>1. Row(i) \in AuditRow
  BY RowType DEF MemoryAdminRotate, PgAdminRotate, IInv, Logged
<1>2. [db EXCEPT !.secret = i] \in Tables
  BY NumberType DEF IInv, Types, Tables
<1>3. CASE MemoryAdminRotate(i)
  BY <1>1, <1>2, <1>3, InMemoryStep, Names DEF MemoryAdminRotate
<1>4. CASE PgAdminRotate(i)
  <2>1. CASE Select(i, "find", "change")
    BY <2>1, SelectStep, Names DEF Quiet, Logging
  <2>2. CASE Write(i, "change", "audit", [db EXCEPT !.secret = i])
    BY <1>2, <2>2, WriteStep, Names DEF Quiet, Logging
  <2>3. CASE Record(i, "audit", "answer", Row(i))
    BY <1>1, <2>3, RecordStep, Names
  <2>4. QED
    BY <1>4, <2>1, <2>2, <2>3 DEF PgAdminRotate
<1>5. QED
  BY <1>3, <1>4

LEMMA ReplayWebhookSteps ==
  ASSUME IInv, NEW i \in CallIds, MemoryReplayWebhook(i) \/ PgReplayWebhook(i)
  PROVE  IInv'
<1>1. Row(i) \in AuditRow
  BY RowType DEF MemoryReplayWebhook, PgReplayWebhook, IInv, Logged
<1>2. Pinged({0}) \in Tables
  BY DEF IInv, Types, Tables, Pinged, Inputs
<1>3. CASE MemoryReplayWebhook(i)
  BY <1>1, <1>2, <1>3, InMemoryStep, Names DEF MemoryReplayWebhook
<1>4. CASE PgReplayWebhook(i)
  <2>1. CASE Select(i, "find", "change")
    BY <2>1, SelectStep, Names DEF Quiet, Logging
  <2>2. CASE Write(i, "change", "audit", Pinged({0}))
    BY <1>2, <2>2, WriteStep, Names DEF Quiet, Logging
  <2>3. CASE Record(i, "audit", "answer", Row(i))
    BY <1>1, <2>3, RecordStep, Names
  <2>4. QED
    BY <1>4, <2>1, <2>2, <2>3 DEF PgReplayWebhook
<1>5. QED
  BY <1>3, <1>4

LEMMA ReplayMessageSteps ==
  ASSUME IInv, NEW i \in CallIds, MemoryReplayMessage(i) \/ PgReplayMessage(i)
  PROVE  IInv'
<1>1. Row(i) \in AuditRow
  BY RowType DEF MemoryReplayMessage, PgReplayMessage, IInv, Logged
<1>2. Pinged({0}) \in Tables /\ Pinged(db.hooks) \in Tables
  BY DEF IInv, Types, Tables, Pinged, Inputs
<1>3. CASE MemoryReplayMessage(i)
  BY <1>1, <1>2, <1>3, InMemoryStep, Names DEF MemoryReplayMessage
<1>4. CASE PgReplayMessage(i)
  <2>1. CASE Select(i, "find", "change")
    BY <2>1, SelectStep, Names DEF Quiet, Logging
  <2>2. CASE Write(i, "change", "audit", Pinged(db.hooks))
    BY <1>2, <2>2, WriteStep, Names DEF Quiet, Logging
  <2>3. CASE Record(i, "audit", "answer", Row(i))
    BY <1>1, <2>3, RecordStep, Names
  <2>4. QED
    BY <1>4, <2>1, <2>2, <2>3 DEF PgReplayMessage
<1>5. QED
  BY <1>3, <1>4

LEMMA CreateWebhookSteps ==
  ASSUME IInv, NEW i \in CallIds, MemoryCreateWebhook(i) \/ PgCreateWebhook(i)
  PROVE  IInv'
<1>1. Row(i) \in AuditRow
  BY RowType DEF MemoryCreateWebhook, PgCreateWebhook, IInv, Logged
<1>2. NewHook(i) \in Tables
  <2>1. db.hooks \cup {i} \in SUBSET (0..MaxCalls)
    BY NumberType DEF IInv, Types, Tables
  <2>2. QED
    BY <2>1 DEF IInv, Types, Tables, NewHook
<1>3. CASE MemoryCreateWebhook(i)
  BY <1>1, <1>2, <1>3, InMemoryStep, Names DEF MemoryCreateWebhook
<1>4. CASE PgCreateWebhook(i)
  <2>1. CASE Write(i, "change", "audit", NewHook(i))
    BY <1>2, <2>1, WriteStep, Names DEF Quiet, Logging
  <2>2. CASE Record(i, "audit", "meter", Row(i))
    BY <1>1, <2>2, RecordStep, Names
  <2>3. QED
    BY <1>4, <2>1, <2>2 DEF PgCreateWebhook
<1>5. QED
  BY <1>3, <1>4

LEMMA DeliverSteps ==
  ASSUME IInv, NEW i \in CallIds, MemoryDeliver(i) \/ PgDeliver(i)
  PROVE  IInv'
<1>1. Row(i) \in AuditRow
  BY RowType DEF MemoryDeliver, PgDeliver, IInv, Logged
<1>2. Delivered(i) \in Tables
  BY DEF IInv, Types, Tables, Delivered
<1>3. CASE MemoryDeliver(i)
  BY <1>1, <1>2, <1>3, InMemoryStep, Names DEF MemoryDeliver
<1>4. CASE PgDeliver(i)
  <2>1. CASE Open(i, "commit")
    BY <1>4, <2>1, OpenStep, Names DEF PgDeliver
  <2>2. CASE CommitWith(i, "answer", Delivered(i), Row(i))
    BY <1>1, <1>2, <2>2, CommitWithStep
  <2>3. QED
    BY <1>4, <2>1, <2>2 DEF PgDeliver
<1>5. QED
  BY <1>3, <1>4

LEMMA ReparseSteps ==
  ASSUME IInv, NEW i \in CallIds, MemoryReparse(i) \/ PgReparse(i)
  PROVE  IInv'
<1>1. Row(i) \in AuditRow
  BY RowType DEF MemoryReparse, PgReparse, IInv, Logged
<1>2. Event("parsed") \in Tables
  BY EventType DEF IInv, Inputs
<1>3. CASE MemoryReparse(i)
  BY <1>1, <1>2, <1>3, InMemoryStep, Names DEF MemoryReparse
<1>4. CASE PgReparse(i)
  <2>1. CASE Open(i, "write")
    BY <1>4, <2>1, OpenStep, Names DEF PgReparse
  <2>2. CASE Within(i, "write", "commit")
    BY <2>2, WithinStep, Names
  <2>3. CASE CommitWith(i, "answer", Event("parsed"), Row(i))
    BY <1>1, <1>2, <2>3, CommitWithStep
  <2>4. QED
    BY <1>4, <2>1, <2>2, <2>3 DEF PgReparse
<1>5. QED
  BY <1>3, <1>4

LEMMA ApplyResultSteps ==
  ASSUME IInv, NEW i \in CallIds, MemoryApplyResult(i) \/ PgApplyResult(i)
  PROVE  IInv'
<1>1. Row(i) \in AuditRow
  BY RowType DEF MemoryApplyResult, PgApplyResult, IInv, Logged
<1>2. Event(arg[i]) \in Tables
  BY EventType DEF IInv, Types
<1>3. CASE MemoryApplyResult(i)
  BY <1>1, <1>2, <1>3, InMemoryStep, Names DEF MemoryApplyResult
<1>4. CASE PgApplyResult(i)
  <2>1. CASE Open(i, "nested")
    BY <1>4, <2>1, OpenStep, Names DEF PgApplyResult
  <2>2. CASE Within(i, "nested", "write")
    BY <2>2, WithinStep, Names
  <2>3. CASE Within(i, "write", "commit")
    BY <2>3, WithinStep, Names
  <2>4. CASE CommitWith(i, "answer", Event(arg[i]), Row(i))
    BY <1>1, <1>2, <2>4, CommitWithStep
  <2>5. QED
    BY <1>4, <2>1, <2>2, <2>3, <2>4 DEF PgApplyResult
<1>5. QED
  BY <1>3, <1>4

\* A read of either store.
LEMMA ReadStep ==
  ASSUME IInv, NEW i \in CallIds, NEW s \in Plain, NEW t \in Plain,
         AtOnce(i, s, t) \/ Query(i, s, t),
         UNCHANGED <<kept, db, audit, mailed, api>>,
         t # "loaded", Quiet(i, s, t)
  PROVE  IInv'
<1>1. Step(i, s, t) /\ UNCHANGED clients
  BY DEF AtOnce, Query
<1>2. QED
  BY <1>1, QuietStep DEF IInv, Types

LEMMA NotFoundStep ==
  ASSUME IInv, NEW i \in CallIds, NotFound(i, "find")
  PROVE  IInv'
BY ReadStep, Names DEF NotFound, Quiet, Logging

LEMMA SendSteps ==
  ASSUME IInv, NEW i \in CallIds, SendMessage(i)
  PROVE  IInv'
<1>1. op[i] = "send"
  BY DEF SendMessage
<1>2. Row(i) = Entry(i, "send_attempt.completed", TRUE) /\ Row(i) \in AuditRow
  <2>1. op[i] \in Named /\ op[i] \in Logged
    BY <1>1 DEF Named, Logged
  <2>2. LoggedAs(i) = "send_attempt.completed"
    BY <1>1 DEF LoggedAs
  <2>3. QED
    BY <2>1, <2>2, RowType DEF Row, IInv
<1>3. /\ Entry(i, "send_attempt.created", TRUE) \in AuditRow
      /\ Entry(i, "send_attempt.failed", TRUE) \in AuditRow
  BY DEF Entry, AuditRow, Actions
<1>4. \A a \in {"queued", "accepted", "failed"} : [db EXCEPT !.attempt[i] = a] \in Tables
  BY DEF IInv, Types, Tables
<1>5. CASE EnforceCooldown(i)
  <2>1. CASE Allowed
    BY <1>5, <2>1, ReadStep, Names DEF EnforceCooldown, Quiet, Logging
  <2>2. CASE ~Allowed
    BY <1>5, <2>2, ReadStep, Names DEF EnforceCooldown, Quiet, Logging
  <2>3. QED
    BY <2>1, <2>2
<1>6. CASE FindMailbox(i)
  BY <1>6, ReadStep, SelectStep, Names DEF FindMailbox, Quiet, Logging
<1>7. CASE NotFound(i, "find")
  BY <1>7, NotFoundStep
<1>8. CASE MemoryCreateAttempt(i)
  BY <1>3, <1>4, <1>8, InMemoryStep, Names DEF MemoryCreateAttempt, Logging
<1>9. CASE PgCreateAttempt(i)
  BY <1>3, <1>9, RecordStep, Names DEF PgCreateAttempt, Logging
<1>10. CASE Submit(i)
  <2>1. PICK t \in {"complete", "failing"} : Step(i, "smtp", t)
    BY <1>10 DEF Submit
  <2>2. mailed' \in [CallIds -> Nat] /\ UNCHANGED <<kept, clients, db, audit, api>>
    BY <1>10 DEF Submit, IInv, Types
  <2>3. t \in Plain /\ t # "loaded" /\ t \notin Logging /\ "smtp" \in Plain
    BY Names DEF Logging
  <2>4. QED
    BY <2>1, <2>2, <2>3, QuietStep DEF Quiet, IInv, Types
<1>11. CASE Refused(i)
  BY <1>11, QuietStep, Names DEF Refused, Quiet, Logging, IInv, Types
<1>12. CASE MemoryCompleteAttempt(i)
  BY <1>2, <1>4, <1>12, InMemoryStep, Names DEF MemoryCompleteAttempt
<1>13. CASE PgCompleteAttempt(i)
  <2>1. CASE Record(i, "complete", "reread", Entry(i, "send_attempt.completed", TRUE))
    BY <1>2, <2>1, RecordStep, Names
  <2>2. CASE Select(i, "reread", "show")
    BY <2>2, SelectStep, Names DEF Quiet, Logging
  <2>3. QED
    BY <1>13, <2>1, <2>2 DEF PgCompleteAttempt
<1>14. CASE CaughtError(i)
  <2>1. PICK s \in {"complete", "reread"} : Step(i, s, "failing")
    BY <1>14 DEF CaughtError
  <2>2. s \in Plain /\ "failing" \in Plain /\ "failing" \notin Logging
    BY Names DEF Logging
  <2>3. UNCHANGED <<kept, clients, db, audit, mailed, api>>
    BY <1>14 DEF CaughtError
  <2>4. QED
    BY <2>1, <2>2, <2>3, QuietStep DEF Quiet, IInv, Types
<1>15. CASE MemoryFailAttempt(i)
  BY <1>3, <1>4, <1>15, InMemoryStep, Names DEF MemoryFailAttempt, Logging
<1>16. CASE PgFailAttempt(i)
  BY <1>3, <1>16, RecordStep, Names DEF PgFailAttempt, Logging
<1>17. CASE ShowAttempt(i)
  BY <1>17, ReadStep, SelectStep, Names DEF ShowAttempt, Quiet, Logging
<1>18. QED
  BY <1>5, <1>6, <1>7, <1>8, <1>9, <1>10, <1>11, <1>12, <1>13, <1>14, <1>15,
     <1>16, <1>17 DEF SendMessage

LEMMA MeterSteps ==
  ASSUME IInv, NEW i \in CallIds, Meter(i)
  PROVE  IInv'
<1>1. db' \in Tables
  <2>1. [db EXCEPT !.usage = @ \cup {i}] \in Tables
    BY DEF IInv, Types, Tables
  <2>2. QED
    BY <2>1 DEF Meter, IInv, Types
<1>2. Step(i, "meter", "answer") /\ UNCHANGED <<clients, kept, audit, mailed, api>>
  BY DEF Meter, AtOnce, Query
<1>3. QED
  BY <1>1, <1>2, QuietStep, Names DEF Quiet, Logging, IInv, Types

LEMMA AuthenticateSteps ==
  ASSUME IInv, NEW i \in CallIds, Authenticate(i)
  PROVE  IInv'
<1>1. PICK t \in {"failed", "cooldown", "change", "find"} :
        AtOnce(i, "auth", t) \/ Query(i, "auth", t)
  BY DEF Authenticate
<1>2. t \in Plain /\ t # "loaded" /\ t \notin Logging /\ "auth" \in Plain
  BY Names DEF Logging
<1>3. QED
  BY <1>1, <1>2, ReadStep DEF Authenticate, Quiet

LEMMA FirstType ==
  ASSUME NEW o
  PROVE  First(o) \in Plain /\ First(o) # "loaded" /\ First(o) \notin Logging
<1>1. First(o) \in {"auth", "begin", "set", "open", "find"}
  BY DEF First
<1>2. QED
  BY <1>1, Names DEF Logging

LEMMA AskSteps ==
  ASSUME IInv, NEW i \in CallIds, Ask(i)
  PROVE  IInv'
<1>1. PICK t \in Plain : t # "loaded" /\ t \notin Logging /\ Start(i, t)
  BY FirstType, Names DEF Ask, Logging
<1>2. QED
  BY <1>1, QuietStep, Names DEF Start, Quiet, IInv, Types

LEMMA AnswerSteps ==
  ASSUME IInv, NEW i \in CallIds, Answer(i)
  PROVE  IInv'
BY QuietStep, Names DEF Answer, Quiet, Logging, IInv, Types

LEMMA LogSteps ==
  ASSUME IInv, NEW i \in CallIds, OpenLog(i) \/ TurnPage(i)
  PROVE  IInv'
<1>1. op[i] \notin Logged
  BY DEF OpenLog, TurnPage, Logged
<1>2. \E s \in {"open", "turn"}, t \in {"answer", "turn"} : AtOnce(i, s, t) \/ Query(i, s, t)
  BY DEF OpenLog, TurnPage, Fetch
<1>3. UNCHANGED <<kept, db, audit, mailed, api>>
  BY DEF OpenLog, TurnPage
<1>4. QED
  BY <1>1, <1>2, <1>3, ReadStep, Names DEF Quiet

LEMMA LoadSteps ==
  ASSUME IInv, NEW i \in CallIds, Load(i)
  PROVE  IInv'
<1>1. /\ Step(i, "load", "loaded") /\ UNCHANGED <<clients, db, audit, mailed>>
      /\ kept' = [kept EXCEPT ![i] = db.settings]
  BY DEF Load, AtOnce, Query
<1>2. db.settings \in 0..MaxCalls /\ db.settings \in Nat /\ db.settings <= MaxCalls
  BY MaxCallsAssumption DEF IInv, Types, Tables
<1>3. api' \in [cache : 0..MaxCalls, loaded : BOOLEAN, muddled : BOOLEAN]
  <2>1. (\E j \in Running : Unstored(j)) \in BOOLEAN
    OBVIOUS
  <2>. DEFINE muddles == \E j \in Running : Unstored(j)
  <2>2. api' = [api EXCEPT !.muddled = @ \/ muddles]
    BY DEF Load
  <2>. HIDE DEF muddles
  <2>3. QED
    BY <2>2 DEF IInv, Types
<1>4. Types'
  BY <1>1, <1>2, <1>3 DEF IInv, Types, Step, asked
<1>5. "loaded" \in Plain /\ "load" \in Plain /\ "loaded" \in Steps
      /\ "loaded" \notin InTransaction /\ "loaded" \notin Logging
  BY Names DEF Plain, Logging
<1>6. Pool'
  BY <1>1, <1>5, PlainStep DEF IInv
<1>7. Calling'
  <2>1. Rows \subseteq Rows' /\ Len(audit) <= Len(audit') /\ Len(audit') \in Nat
    BY <1>1 DEF Rows, IInv, Types
  <2>2. /\ kept' \in [CallIds -> Nat] /\ \A j \in CallIds : j = i \/ kept'[j] = kept[j]
        /\ kept'[i] <= MaxCalls
    BY <1>1, <1>2 DEF IInv, Types
  <2>3. QED
    BY <1>1, <1>5, <2>1, <2>2, CallingStep DEF IInv
<1>8. QED
  BY <1>4, <1>6, <1>7 DEF IInv

LEMMA FinishLoadSteps ==
  ASSUME IInv, NEW i \in CallIds, FinishLoad(i)
  PROVE  IInv'
<1>1. PICK t \in Plain : t # "loaded" /\ t \notin Logging /\ Step(i, "loaded", t)
  BY FirstType DEF FinishLoad
<1>2. kept[i] \in 0..MaxCalls
  BY <1>1, MaxCallsAssumption DEF IInv, Types, Calling, KeptFits, Step
<1>3. api' \in [cache : 0..MaxCalls, loaded : BOOLEAN, muddled : BOOLEAN]
  BY <1>2 DEF FinishLoad, IInv, Types
<1>4. QED
  BY <1>1, <1>3, QuietStep, Names DEF FinishLoad, Quiet, IInv, Types

LEMMA SetCacheSteps ==
  ASSUME IInv, NEW i \in CallIds, SetCache(i)
  PROVE  IInv'
<1>1. PICK t \in {"answer", "begin"} : Step(i, "set", t)
  BY DEF SetCache
<1>2. api' \in [cache : 0..MaxCalls, loaded : BOOLEAN, muddled : BOOLEAN]
  <2>. DEFINE muddles == SettingsInHand(i)
  <2>1. muddles \in BOOLEAN
    BY DEF SettingsInHand
  <2>2. api' = [api EXCEPT !.cache = i, !.muddled = @ \/ muddles]
    BY DEF SetCache
  <2>. HIDE DEF muddles
  <2>3. QED
    BY <2>2, NumberType DEF IInv, Types
<1>3. db' \in Tables
  BY NumberType DEF SetCache, IInv, Types, Tables
<1>4. op[i] \notin Logged
  BY DEF SetCache, Logged
<1>5. t \in Plain /\ "set" \in Plain /\ t # "loaded"
  BY Names
<1>6. QED
  BY <1>1, <1>2, <1>3, <1>4, <1>5, QuietStep DEF SetCache, Quiet, IInv, Types

LEMMA UpdateSettingsSteps ==
  ASSUME IInv, NEW i \in CallIds, PgUpdateSettings(i)
  PROVE  IInv'
<1>1. op[i] = "updateSettings" /\ op[i] \notin Logged
  BY DEF PgUpdateSettings, Logged
<1>2. CASE Open(i, "upsert")
  BY <1>1, <1>2, OpenStep, Names
<1>3. CASE Within(i, "upsert", "nested")
  BY <1>1, <1>3, WithinStep, Names
<1>4. CASE Within(i, "nested", "commit")
  BY <1>4, WithinStep, Names
<1>5. CASE /\ Commit(i, "commit", "answer")
           /\ db' = [db EXCEPT !.settings = i]
           /\ UNCHANGED <<kept, audit, mailed, api, log>>
  <2>1. /\ "answer" \in Plain /\ "answer" \in Steps /\ "answer" # "loaded"
        /\ "commit" \in InTransaction /\ "answer" \notin InTransaction
    BY Names DEF Plain
  <2>2. Pool'
    BY <1>5, <2>1, CommitStep DEF IInv
  <2>3. Types'
    BY <1>5, NumberType DEF Commit, Step, asked, IInv, Types, Tables
  <2>4. Rows \subseteq Rows' /\ Len(audit) <= Len(audit') /\ Len(audit') \in Nat
    BY <1>5 DEF Rows, IInv, Types
  <2>5. kept' \in [CallIds -> Nat] /\ \A j \in CallIds : kept'[j] = kept[j]
    BY <1>5 DEF IInv, Types
  <2>6. Step(i, "commit", "answer")
    BY <1>5 DEF Commit
  <2>7. Calling'
    BY <1>1, <2>1, <2>4, <2>5, <2>6, CallingStep DEF IInv
  <2>8. QED
    BY <2>2, <2>3, <2>7 DEF IInv
<1>6. QED
  BY <1>2, <1>3, <1>4, <1>5 DEF PgUpdateSettings

LEMMA FailSteps ==
  ASSUME IInv, NEW i \in CallIds, Fail(i)
  PROVE  IInv'
<1>1. /\ pc' = [pc EXCEPT ![i] = "failed"] /\ clients' = clients \ {i}
      /\ UNCHANGED <<asked, kept, db, audit, mailed>>
  BY DEF Fail
<1>2. "failed" \in Steps /\ "failed" \notin InTransaction /\ "failed" \notin Logging
  BY Names DEF Plain, Logging
<1>3. Pool'
  <2>1. clients' = {j \in CallIds : store' = "postgres" /\ pc'[j] \in InTransaction}
    BY <1>1, <1>2 DEF asked, IInv, Pool
  <2>2. Cardinality(clients') \in Nat /\ Cardinality(clients') <= Cardinality(clients)
    BY <1>1, ClientsFinite, FS_Subset, FS_CardinalityType DEF IInv
  <2>3. Cardinality(clients') <= PoolSize
    BY <2>2, ClientsFinite, PoolSizeAssumption DEF IInv, Pool
  <2>4. QED
    BY <1>1, <1>2, <2>1, <2>3 DEF IInv, Pool
<1>4. Types'
  <2>. DEFINE muddles == Unstored(i)
  <2>1. muddles \in BOOLEAN
    BY DEF Unstored
  <2>2. api' = [api EXCEPT !.muddled = @ \/ muddles]
    BY DEF Fail
  <2>. HIDE DEF muddles
  <2>3. QED
    BY <1>1, <2>1, <2>2 DEF asked, IInv, Types
<1>5. Calling'
  <2>1. Step(i, pc[i], "failed")
    BY <1>1 DEF Step
  <2>2. Rows \subseteq Rows' /\ Len(audit) <= Len(audit') /\ Len(audit') \in Nat
    BY <1>1 DEF Rows, IInv, Types
  <2>3. kept' \in [CallIds -> Nat] /\ \A j \in CallIds : kept'[j] = kept[j]
    BY <1>1 DEF IInv, Types
  <2>4. QED
    BY <1>2, <2>1, <2>2, <2>3, CallingStep DEF IInv
<1>6. QED
  BY <1>3, <1>4, <1>5 DEF IInv

LEMMA CrashStep ==
  ASSUME IInv, Crash
  PROVE  IInv'
<1>1. /\ clients' = {} /\ UNCHANGED <<asked, kept, db, audit, mailed>> /\ api' = FreshApi
      /\ pc' = [i \in CallIds |-> IF i \in Running THEN "lost" ELSE pc[i]]
  BY DEF Crash
<1>2. "lost" \in Plain /\ "lost" \in Steps /\ "lost" \notin InTransaction
      /\ "lost" \notin Logging /\ "lost" # "loaded"
  BY Names DEF Plain, Logging
<1>3. \A i \in CallIds : pc'[i] = "lost" \/ (pc'[i] = pc[i] /\ i \notin Running)
  BY <1>1
<1>4. \A i \in CallIds : pc[i] \in InTransaction => i \in Running
  BY DEF Running, Over, InTransaction
<1>5. Pool'
  <2>1. pc' \in [CallIds -> Steps]
    BY <1>1, <1>2 DEF IInv, Pool
  <2>2. \A i \in CallIds : pc'[i] \notin InTransaction
    BY <1>2, <1>3, <1>4
  <2>3. Cardinality(clients') <= PoolSize
    BY <1>1, FS_EmptySet, PoolSizeAssumption
  <2>4. QED
    BY <1>1, <2>1, <2>2, <2>3 DEF Pool
<1>6. Types'
  BY <1>1, MaxCallsAssumption DEF asked, IInv, Types, FreshApi
<1>7. KeptFits' /\ Nesting'
  BY <1>1, <1>2, <1>3 DEF asked, IInv, Calling, KeptFits, Nesting, InTransaction
<1>8. Audited'
  BY <1>1, <1>2, <1>3 DEF asked, IInv, Calling, Audited, Rows, Row, Entry, LoggedAs
<1>9. QED
  BY <1>5, <1>6, <1>7, <1>8 DEF IInv, Calling

LEMMA Initially ==
  ASSUME Init
  PROVE  IInv
<1>1. PICK calls \in Menu : /\ op = [i \in CallIds |-> calls[i].op]
                           /\ arg = [i \in CallIds |-> calls[i].arg]
  BY DEF Init
<1>2. \A i \in CallIds : calls[i].op \in Ops \cup {"none"} /\ calls[i].arg \in Inputs
  BY MenuAssumption
<1>3. db \in Tables
  BY MaxCallsAssumption DEF Init, CallsInit, InitialDb, Tables, Inputs
<1>4. Types
  <2>1. op \in [CallIds -> Ops \cup {"none"}]
    BY <1>1, <1>2
  <2>2. arg \in [CallIds -> Inputs]
    BY <1>1, <1>2
  <2>3. audit \in Seq(AuditRow)
    BY DEF Init, CallsInit
  <2>4. /\ kept \in [CallIds -> Nat] /\ mailed \in [CallIds -> Nat]
        /\ api \in [cache : 0..MaxCalls, loaded : BOOLEAN, muddled : BOOLEAN]
    BY MaxCallsAssumption DEF Init, CallsInit, FreshApi
  <2>5. QED
    BY <1>3, <2>1, <2>2, <2>3, <2>4 DEF Types
<1>5. "unborn" \in Plain /\ "unborn" \in Steps /\ "unborn" \notin InTransaction
      /\ "unborn" \notin Logging
  BY Names DEF Plain, Logging
<1>6. Pool
  BY <1>5, FS_EmptySet, PoolSizeAssumption DEF Init, CallsInit, Pool
<1>7. Calling
  BY <1>5 DEF Init, CallsInit, Calling, KeptFits, Nesting, Audited, InTransaction
<1>8. QED
  BY <1>4, <1>6, <1>7 DEF IInv

LEMMA Inductive ==
  ASSUME IInv, [Next]_vars
  PROVE  IInv'
<1>1. CASE Crash
  BY <1>1, CrashStep
<1>2. CASE \E i \in CallIds : CallStep(i)
  <2>1. PICK i \in CallIds : CallStep(i)
    BY <1>2
  <2>2. CASE OperatorStep(i)
    BY <2>2, PatchTenantSteps, IssueInvoiceSteps, UpsertPolicySteps,
       AdminRotateSteps, ReplayWebhookSteps, ReplayMessageSteps, ReparseSteps,
       LogSteps DEF OperatorStep
  <2>3. CASE TenantStep(i)
    BY <2>3, AuthenticateSteps, CreateWebhookSteps, RotateSteps, SendSteps,
       MeterSteps DEF TenantStep
  <2>4. CASE WorkerStep(i)
    BY <2>4, ApplyResultSteps, DeliverSteps DEF WorkerStep
  <2>5. CASE SettingsStep(i)
    BY <2>5, LoadSteps, FinishLoadSteps, SetCacheSteps, UpdateSettingsSteps
       DEF SettingsStep
  <2>6. CASE Ask(i) \/ UnknownId(i) \/ Fail(i) \/ Answer(i)
    BY <2>6, AskSteps, NotFoundStep, FailSteps, AnswerSteps DEF UnknownId
  <2>7. QED
    BY <2>1, <2>2, <2>3, <2>4, <2>5, <2>6 DEF CallStep
<1>3. CASE UNCHANGED vars
  BY <1>3 DEF vars, asked, IInv, Types, Pool, Calling, KeptFits, Nesting, Audited,
     Rows, Row, Entry, LoggedAs
<1>4. QED
  BY <1>1, <1>2, <1>3 DEF Next

-----------------------------------------------------------------------------
(* The theorems.                                                           *)

LEMMA Invariance == Spec => []IInv
<1>1. QED
  BY Initially, Inductive, PTL DEF Spec

\* The types, and that a client of the pool is held by the calls suspended
\* inside a transaction and by no other, failures and restarts included, so
\* no more are held than there are.
THEOREM ConsoleTypes == Spec => []TypeOK
<1>1. IInv => TypeOK
  BY DEF IInv, Types, Pool, TypeOK
<1>2. QED
  BY <1>1, Invariance, PTL

\* Whatever the calls and the size of the pool: a call of a command whose row
\* carries the request id (all writes but createWebhook and updateSettings) is
\* not answered as done before that id finds its row in the log.
THEOREM AnsweredCallsAreAudited == Spec => []AnsweredIsAudited
<1>1. ASSUME IInv PROVE AnsweredIsAudited
  <2>1. SUFFICES ASSUME NEW i \in CallIds, op[i] \in Named, pc[i] = "ok"
                 PROVE  LoggedAs(i) \in AuditOf(i)
    BY DEF AnsweredIsAudited
  <2>2. PICK n \in 1..Len(audit) : audit[n] = Row(i)
    BY <1>1, <2>1 DEF IInv, Calling, Audited, Logging, Rows, Named
  <2>3. audit[n] = [action |-> LoggedAs(i), call |-> i, named |-> TRUE]
    BY <2>1, <2>2 DEF Row, Entry
  <2>4. QED
    BY <2>3 DEF AuditOf
<1>2. QED
  BY <1>1, Invariance, PTL

\* A pool of any size runs dry, every holder of a client waiting, only when as
\* many parse results and settings updates as it has clients are in progress.
THEOREM OnlyNestingStarves == Spec => []OnlyNestingStarvesPool
<1>1. ASSUME IInv PROVE OnlyNestingStarvesPool
  <2>. DEFINE Nested == {i \in Running : op[i] \in {"parse", "updateSettings"}}
  <2>1. SUFFICES ASSUME clients # {}, \A i \in clients : Waiting(i)
                 PROVE  Cardinality(Nested) >= PoolSize
    BY DEF OnlyNestingStarvesPool
  <2>2. \A i \in clients : i \in CallIds /\ i \in Running /\ pc[i] \in InTransaction
    BY <1>1 DEF IInv, Pool, Running, Over, InTransaction
  <2>3. \A i \in clients : \/ pc[i] = "nested" /\ ~Free
                           \/ pc[i] = "upsert" /\ Locked(i)
    BY <2>1, <2>2 DEF Waiting
  <2>4. clients \subseteq Nested
    BY <1>1, <2>2, <2>3 DEF IInv, Calling, Nesting
  <2>5. ~Free
    <3>1. PICK i \in clients : TRUE
      BY <2>1
    <3>2. CASE pc[i] = "nested"
      BY <2>3, <3>2
    <3>3. CASE pc[i] = "upsert" /\ Locked(i)
      <4>1. PICK j \in clients : pc[j] \in {"nested", "commit"}
        BY <3>3 DEF Locked
      <4>2. QED
        BY <2>3, <4>1
    <3>4. QED
      BY <2>3, <3>2, <3>3
  <2>6. IsFiniteSet(Nested)
    <3>1. IsFiniteSet(CallIds)
      BY MaxCallsAssumption, FS_Interval
    <3>2. Nested \subseteq CallIds
      BY DEF Running
    <3>3. QED
      BY <3>1, <3>2, FS_Subset
  <2>7. Cardinality(clients) <= Cardinality(Nested) /\ Cardinality(Nested) \in Nat
    BY <2>4, <2>6, FS_Subset, FS_CardinalityType
  <2>8. Cardinality(clients) >= PoolSize
    BY <1>1, <2>5, ClientsFinite, PoolSizeAssumption DEF Free, IInv
  <2>9. QED
    BY <1>1, <2>7, <2>8, ClientsFinite, PoolSizeAssumption DEF IInv
<1>2. QED
  BY <1>1, Invariance, PTL

-----------------------------------------------------------------------------
(* The step of a call, by what it does to the tables, the log and mailed.  *)

\* Entry e is put into the log at place p.
Inserted(p, e) ==
  /\ p \in 1..(Len(audit) + 1)
  /\ Len(audit') = Len(audit) + 1
  /\ \A n \in 1..(Len(audit) + 1) : audit'[n] =
       IF n < p THEN audit[n] ELSE IF n = p THEN e ELSE audit[n - 1]

Logs(e) == \E p \in Nat : Inserted(p, e)

\* The steps of a send before its attempt, and those from the cooldown on that
\* lead to its usage.
Early == {"unborn", "load", "loaded", "auth", "cooldown", "find", "create"}

Through == {"find", "create", "smtp", "complete", "reread", "show", "meter",
            "failing"}

SendMove(s, t) ==
  \/ s \in Early /\ t \in Early
  \/ s \in Caught /\ t = "failing"
  \/ s \in Logging /\ t \in Logging
  \/ t = "failed"

Onward(s, t) == s \in Logging => t \in Logging \cup {"failed"}

Passing(i) ==
  /\ UNCHANGED <<db, audit, mailed>>
  /\ pc'[i] # "audit"
  /\ pc'[i] \in Logging => pc[i] \in Logging \/ op[i] \notin Logged
  /\ op[i] # "send" => Onward(pc[i], pc'[i])
  /\ op[i] = "send" =>
       /\ SendMove(pc[i], pc'[i])
       /\ pc'[i] \in Through => pc[i] \in Through \/ Allowed

\* The calls that are logged by a statement of their own.
Commands == Logged \ {"send"}

Separate == Commands \ {"parse", "reparse", "deliver"}

\* The change a command is for.
Does(i) ==
  \/ op[i] = "patchTenant" /\ db' = Patched(i)
  \/ op[i] = "issueInvoice" /\ db' = [db EXCEPT !.invoice = "issued"]
  \/ op[i] = "upsertPolicy" /\ db' = [db EXCEPT !.policy = arg[i]]
  \/ op[i] \in {"rotateSecret", "adminRotate"} /\ db' = [db EXCEPT !.secret = i]
  \/ op[i] = "replayWebhook" /\ db' = Pinged({0})
  \/ op[i] = "replayMessage" /\ db' \in {Pinged({0}), Pinged(db.hooks)}
  \/ op[i] = "createWebhook" /\ db' = NewHook(i)
  \/ op[i] = "deliver" /\ db' = Delivered(i)
  \/ op[i] = "reparse" /\ db' = Event("parsed")
  \/ op[i] = "parse" /\ db' = Event(arg[i])

Suspending(i) ==
  /\ op[i] = "patchTenant" /\ pc[i] = "status" /\ pc'[i] = "quotas"
  /\ db' = [db EXCEPT !.status = "suspended"]
  /\ UNCHANGED <<audit, mailed>>

Changing(i) ==
  /\ op[i] \in Separate
  /\ pc[i] \notin Logging \cup {"audit"} /\ pc'[i] = "audit"
  /\ Does(i)
  /\ UNCHANGED <<audit, mailed>>

Recording(i) ==
  /\ op[i] \in Separate
  /\ pc[i] = "audit" /\ pc'[i] \in Logging
  /\ Logs(Row(i))
  /\ UNCHANGED <<db, mailed>>

DoingBoth(i) ==
  /\ op[i] \in Commands
  /\ pc[i] \notin Logging \cup {"audit"} /\ pc'[i] \in Logging
  /\ Does(i) /\ Logs(Row(i))
  /\ UNCHANGED mailed

Storing(i) ==
  /\ op[i] = "updateSettings" /\ pc'[i] = "answer"
  /\ db' = [db EXCEPT !.settings = i]
  /\ UNCHANGED <<audit, mailed>>

\* A send writes down what has become of its attempt.
Notes(i, s, to, action, status) ==
  /\ op[i] = "send" /\ pc[i] = s /\ pc'[i] \in to
  /\ audit' = Append(audit, Entry(i, action, TRUE))
  /\ db' = IF store = "memory" THEN [db EXCEPT !.attempt[i] = status] ELSE db
  /\ UNCHANGED mailed

Creating(i) == Notes(i, "create", {"smtp"}, "send_attempt.created", "queued")

Accepting(i) ==
  Notes(i, "complete", {"reread", "show"}, "send_attempt.completed", "accepted")

Failing(i) == Notes(i, "failing", {"failed"}, "send_attempt.failed", "failed")

Giving(i) ==
  /\ op[i] = "send" /\ pc[i] = "smtp" /\ pc'[i] \in {"complete", "failing"}
  /\ mailed' = [mailed EXCEPT ![i] = @ + 1]
  /\ UNCHANGED <<db, audit>>

Metering(i) ==
  /\ op[i] = "send" /\ pc[i] = "meter" /\ pc'[i] = "answer"
  /\ db' = [db EXCEPT !.usage = @ \cup {i}]
  /\ UNCHANGED <<audit, mailed>>

Effect(i) ==
  \/ Passing(i) \/ Suspending(i) \/ Changing(i) \/ Recording(i) \/ DoingBoth(i)
  \/ Storing(i) \/ Creating(i) \/ Accepting(i) \/ Failing(i) \/ Giving(i)
  \/ Metering(i)

\* Only call i goes on.
Alone(i) ==
  /\ UNCHANGED asked
  /\ pc[i] \notin Over /\ pc'[i] # "unborn"
  /\ pc[i] = "unborn" => /\ Cardinality(Running) < InFlight
                         /\ UNCHANGED <<db, audit, mailed>>
  /\ \A j \in CallIds \ {i} : pc'[j] = pc[j]

LEMMA StepAlone ==
  ASSUME IInv, NEW i \in CallIds, NEW s, NEW t, Step(i, s, t),
         s \notin Over \cup {"unborn"}, t # "unborn"
  PROVE  Alone(i) /\ pc[i] = s /\ pc'[i] = t
BY DEF Step, Alone, IInv, Pool

\* Where the rows of the log are once one has been put in at p.
Shift(p, n) == IF n < p THEN n ELSE n + 1

LEMMA ShiftedRows ==
  ASSUME IInv, NEW p, NEW e, Inserted(p, e)
  PROVE  /\ Len(audit) \in Nat /\ Len(audit') = Len(audit) + 1
         /\ p \in 1..Len(audit') /\ audit'[p] = e
         /\ \A n \in 1..Len(audit) : /\ Shift(p, n) \in 1..Len(audit')
                                     /\ Shift(p, n) # p
                                     /\ audit'[Shift(p, n)] = audit[n]
         /\ \A m \in 1..Len(audit') : m = p \/ \E n \in 1..Len(audit) : m = Shift(p, n)
         /\ \A n, m \in 1..Len(audit) : n <= m <=> Shift(p, n) <= Shift(p, m)
<1>1. /\ Len(audit) \in Nat /\ p \in 1..(Len(audit) + 1) /\ p \in 1..Len(audit')
      /\ Len(audit') = Len(audit) + 1
  BY DEF IInv, Types, Inserted
<1>2. \A n \in 1..Len(audit) : /\ Shift(p, n) \in 1..Len(audit') /\ Shift(p, n) # p
                               /\ audit'[Shift(p, n)] = audit[n]
  BY <1>1 DEF Inserted, Shift
<1>3. ASSUME NEW m \in 1..Len(audit'), m # p
      PROVE  \E n \in 1..Len(audit) : m = Shift(p, n)
  <2>1. CASE m < p
    BY <1>1, <2>1 DEF Shift
  <2>2. CASE m > p
    <3>1. m - 1 \in 1..Len(audit) /\ m = Shift(p, m - 1)
      BY <1>1, <2>2 DEF Shift
    <3>2. QED
      BY <3>1
  <2>3. QED
    BY <1>1, <1>3, <2>1, <2>2
<1>4. \A n, m \in 1..Len(audit) : n <= m <=> Shift(p, n) <= Shift(p, m)
  BY <1>1 DEF Shift
<1>5. audit'[p] = e
  BY <1>1 DEF Inserted
<1>6. QED
  BY <1>1, <1>2, <1>3, <1>4, <1>5

LEMMA InsertedSet ==
  ASSUME IInv, NEW p, NEW e, Inserted(p, e)
  PROVE  Rows' = Rows \cup {e}
<1>1. \A n \in 1..Len(audit) : audit[n] \in Rows'
  <2>1. TAKE n \in 1..Len(audit)
  <2>2. Shift(p, n) \in 1..Len(audit') /\ audit'[Shift(p, n)] = audit[n]
    BY ShiftedRows
  <2>3. QED
    BY <2>2 DEF Rows
<1>2. e \in Rows'
  BY ShiftedRows DEF Rows
<1>3. \A m \in 1..Len(audit') : audit'[m] \in Rows \cup {e}
  <2>1. TAKE m \in 1..Len(audit')
  <2>2. CASE m = p
    BY <2>2, ShiftedRows
  <2>3. CASE m # p
    <3>1. PICK n \in 1..Len(audit) : m = Shift(p, n)
      BY <2>3, ShiftedRows
    <3>2. audit'[m] = audit[n]
      BY <3>1, ShiftedRows
    <3>3. QED
      BY <3>2 DEF Rows
  <2>4. QED
    BY <2>2, <2>3
<1>4. QED
  BY <1>1, <1>2, <1>3 DEF Rows

LEMMA ShiftCounts ==
  ASSUME NEW p \in Nat, NEW S \in SUBSET Nat, IsFiniteSet(S)
  PROVE  /\ IsFiniteSet({Shift(p, n) : n \in S})
         /\ Cardinality({Shift(p, n) : n \in S}) = Cardinality(S)
<1>. DEFINE T == {Shift(p, n) : n \in S}
            f == [n \in S |-> Shift(p, n)]
<1>1. \A m, n \in S : Shift(p, m) = Shift(p, n) => m = n
  BY DEF Shift
<1>2. f \in [S -> T] /\ \A n \in S : f[n] = Shift(p, n)
  OBVIOUS
<1>3. \A t \in T : \E n \in S : f[n] = t
  BY <1>2
<1>. HIDE DEF f, T
<1>4. f \in Injection(S, T) /\ f \in Surjection(S, T)
  BY <1>1, <1>2, <1>3 DEF Injection, IsInjective, Surjection
<1>5. ExistsBijection(S, T)
  BY <1>4 DEF ExistsBijection, Bijection
<1>6. QED
  BY <1>5, FS_Bijection DEF T

LEMMA AppendLogs ==
  ASSUME IInv, NEW e \in AuditRow, audit' = Append(audit, e)
  PROVE  Logs(e)
<1>1. audit \in Seq(AuditRow) /\ Len(audit) \in Nat
  BY DEF IInv, Types
<1>2. Inserted(Len(audit) + 1, e)
  BY <1>1, AppendedRows DEF Inserted
<1>3. QED
  BY <1>1, <1>2 DEF Logs

LEMMA InsertLogs ==
  ASSUME IInv, NEW e \in AuditRow, NEW k \in 0..Len(audit),
         audit' = InsertAt(audit, k + 1, e)
  PROVE  Logs(e)
<1>1. audit \in Seq(AuditRow) /\ Len(audit) \in Nat
  BY DEF IInv, Types
<1>. DEFINE p == k + 1
<1>2. p \in 1..(Len(audit) + 1) /\ p \in Nat /\ audit' = InsertAt(audit, p, e)
  BY <1>1
<1>. HIDE DEF p
<1>3. /\ Len(InsertAt(audit, p, e)) = Len(audit) + 1
      /\ \A n \in 1..(Len(audit) + 1) : InsertAt(audit, p, e)[n] =
           IF n < p THEN audit[n] ELSE IF n = p THEN e ELSE audit[n - 1]
  BY <1>1, <1>2, InsertedRows
<1>4. Inserted(p, e)
  BY <1>2, <1>3, Zenon DEF Inserted
<1>5. QED
  BY <1>2, <1>4 DEF Logs

\* A statement that changes nothing.
LEMMA ReadPasses ==
  ASSUME IInv, NEW i \in CallIds, NEW s, NEW t, Step(i, s, t),
         UNCHANGED <<db, audit, mailed>>, s \notin Over \cup {"unborn"},
         t \notin {"unborn", "audit"}, Quiet(i, s, t), op[i] # "send" => Onward(s, t),
         op[i] = "send" => SendMove(s, t) /\ (t \in Through => s \in Through)
  PROVE  Alone(i) /\ Effect(i)
<1>1. Alone(i) /\ pc[i] = s /\ pc'[i] = t
  BY StepAlone
<1>2. Passing(i)
  BY <1>1 DEF Passing, Quiet
<1>3. QED
  BY <1>1, <1>2 DEF Effect

\* A command over MemoryStore, or the commit of one.
LEMMA CommandDoesBoth ==
  ASSUME IInv, NEW i \in CallIds, op[i] \in Commands, NEW s, NEW t, Step(i, s, t),
         s \in {"find", "change", "begin", "commit"}, t \in Logging,
         Does(i), Logs(Row(i)), UNCHANGED mailed
  PROVE  Alone(i) /\ Effect(i)
<1>1. Alone(i) /\ pc[i] = s /\ pc'[i] = t
  BY StepAlone DEF Over, Logging
<1>2. DoingBoth(i)
  BY <1>1 DEF DoingBoth, Logging
<1>3. QED
  BY <1>1, <1>2 DEF Effect

LEMMA MemoryCommand ==
  ASSUME IInv, NEW i \in CallIds, op[i] \in Commands,
         NEW s \in {"find", "change", "begin"}, NEW t \in Logging, NEW tables,
         InMemory(i, s, t, tables, Row(i)), db' = tables => Does(i)
  PROVE  Alone(i) /\ Effect(i)
<1>1. op[i] \in Logged
  BY DEF Commands
<1>2. Row(i) \in AuditRow
  BY <1>1, RowType DEF IInv
<1>3. Logs(Row(i))
  BY <1>2, AppendLogs DEF InMemory
<1>4. Step(i, s, t) /\ UNCHANGED mailed /\ Does(i)
  BY DEF InMemory, AtOnce
<1>5. QED
  BY <1>3, <1>4, CommandDoesBoth

LEMMA CommitCommand ==
  ASSUME IInv, NEW i \in CallIds, op[i] \in Commands, NEW tables,
         CommitWith(i, "answer", tables, Row(i)), db' = tables => Does(i)
  PROVE  Alone(i) /\ Effect(i)
<1>1. Step(i, "commit", "answer") /\ UNCHANGED mailed /\ Does(i)
  BY DEF CommitWith, Commit
<1>2. Row(i) \in AuditRow
  BY RowType DEF IInv, Commands
<1>3. kept[i] \in 0..Len(audit)
  BY <1>1 DEF IInv, Types, Calling, KeptFits, Step, InTransaction
<1>4. Logs(Row(i))
  BY <1>2, <1>3, InsertLogs DEF CommitWith
<1>5. QED
  BY <1>1, <1>4, CommandDoesBoth DEF Logging

\* The statements of a command over PostgresStore.
LEMMA SeparateWrite ==
  ASSUME IInv, NEW i \in CallIds, op[i] \in Separate,
         NEW s \in {"find", "status", "quotas", "change"}, NEW tables,
         Write(i, s, "audit", tables), db' = tables => Does(i)
  PROVE  Alone(i) /\ Effect(i)
<1>1. Step(i, s, "audit") /\ UNCHANGED <<audit, mailed>> /\ Does(i)
  BY DEF Write, Query
<1>2. Alone(i) /\ pc[i] = s /\ pc'[i] = "audit"
  BY <1>1, StepAlone DEF Over
<1>3. Changing(i)
  BY <1>1, <1>2 DEF Changing, Logging
<1>4. QED
  BY <1>2, <1>3 DEF Effect

LEMMA SeparateRecord ==
  ASSUME IInv, NEW i \in CallIds, op[i] \in Separate, NEW t \in Logging,
         Record(i, "audit", t, Row(i))
  PROVE  Alone(i) /\ Effect(i)
<1>1. Step(i, "audit", t) /\ UNCHANGED <<db, mailed>>
  BY DEF Record, Query
<1>2. Alone(i) /\ pc[i] = "audit" /\ pc'[i] = t
  BY <1>1, StepAlone DEF Over, Logging
<1>3. Row(i) \in AuditRow
  BY RowType DEF IInv, Commands, Separate
<1>4. Logs(Row(i))
  BY <1>3, AppendLogs DEF Record
<1>5. Recording(i)
  BY <1>1, <1>2, <1>4 DEF Recording
<1>6. QED
  BY <1>2, <1>5 DEF Effect

LEMMA SelectPasses ==
  ASSUME IInv, NEW i \in CallIds, op[i] # "send", NEW s, NEW t, Select(i, s, t),
         s \notin Over \cup {"unborn"}, t \notin {"unborn", "audit"}, Quiet(i, s, t),
         Onward(s, t)
  PROVE  Alone(i) /\ Effect(i)
<1>1. Step(i, s, t) /\ UNCHANGED <<db, audit, mailed>>
  BY DEF Select, Query
<1>2. QED
  BY <1>1, ReadPasses

LEMMA TransactionPasses ==
  ASSUME IInv, NEW i \in CallIds, op[i] # "send", NEW s \in InTransaction \cup {"begin"},
         NEW t \in InTransaction, Within(i, s, t) \/ (Open(i, t) /\ s = "begin")
  PROVE  Alone(i) /\ Effect(i)
<1>1. Step(i, s, t) /\ UNCHANGED <<db, audit, mailed>>
  BY DEF Within, InTx, Open, Begin
<1>2. QED
  BY <1>1, ReadPasses DEF InTransaction, Over, Quiet, Onward, Logging

LEMMA PatchEffect ==
  ASSUME IInv, NEW i \in CallIds, MemoryPatchTenant(i) \/ PgPatchTenant(i)
  PROVE  Alone(i) /\ Effect(i)
<1>1. op[i] = "patchTenant" /\ op[i] \in Separate /\ op[i] \in Commands /\ op[i] # "send"
  BY DEF MemoryPatchTenant, PgPatchTenant, Separate, Commands, Logged
<1>2. db' = Patched(i) => Does(i)
  BY <1>1 DEF Does
<1>3. "answer" \in Logging /\ "show" \in Logging
  BY DEF Logging
<1>4. CASE MemoryPatchTenant(i)
  BY <1>1, <1>2, <1>3, <1>4, MemoryCommand DEF MemoryPatchTenant
<1>5. CASE Select(i, "find", "status") \/ Select(i, "quotas", "failed")
           \/ Select(i, "show", "answer")
  BY <1>1, <1>5, SelectPasses DEF Quiet, Onward, Logging, Over
<1>6. CASE Write(i, "status", IF arg[i] = "disable" THEN "audit" ELSE "quotas",
                 [db EXCEPT !.status = "suspended"])
  <2>1. CASE arg[i] = "disable"
    <3>1. Patched(i) = [db EXCEPT !.status = "suspended"]
      BY <2>1 DEF Patched
    <3>2. Write(i, "status", "audit", Patched(i))
      BY <1>6, <2>1, <3>1
    <3>3. QED
      BY <1>1, <1>2, <3>2, SeparateWrite
  <2>2. CASE arg[i] # "disable"
    <3>1. /\ Step(i, "status", "quotas") /\ UNCHANGED <<audit, mailed>>
          /\ db' = [db EXCEPT !.status = "suspended"]
      BY <1>6, <2>2 DEF Write, Query
    <3>2. Alone(i) /\ Suspending(i)
      BY <1>1, <3>1, StepAlone DEF Suspending, Over
    <3>3. QED
      BY <3>2 DEF Effect
  <2>3. QED
    BY <2>1, <2>2
<1>7. CASE Write(i, "quotas", "audit", Patched(i))
  BY <1>1, <1>2, <1>7, SeparateWrite
<1>8. CASE Record(i, "audit", "show", Row(i))
  BY <1>1, <1>3, <1>8, SeparateRecord
<1>9. QED
  BY <1>4, <1>5, <1>6, <1>7, <1>8 DEF PgPatchTenant

LEMMA CommandEffect ==
  ASSUME IInv, NEW i \in CallIds,
         \/ MemoryIssueInvoice(i) \/ PgIssueInvoice(i)
         \/ MemoryUpsertPolicy(i) \/ PgUpsertPolicy(i)
         \/ MemoryRotate(i) \/ PgRotate(i)
         \/ MemoryAdminRotate(i) \/ PgAdminRotate(i)
         \/ MemoryReplayWebhook(i) \/ PgReplayWebhook(i)
         \/ MemoryReplayMessage(i) \/ PgReplayMessage(i)
         \/ MemoryCreateWebhook(i) \/ PgCreateWebhook(i)
  PROVE  Alone(i) /\ Effect(i)
<1>1. "answer" \in Logging /\ "meter" \in Logging
  BY DEF Logging
<1>. DEFINE Done(tables) ==
       /\ op[i] \in Separate /\ op[i] \in Commands /\ op[i] # "send"
       /\ db' = tables => Does(i)
<1>2. ASSUME NEW tables, Done(tables), Select(i, "find", "change")
      PROVE  Alone(i) /\ Effect(i)
  BY <1>2, SelectPasses DEF Quiet, Onward, Logging, Over
<1>3. ASSUME NEW tables, Done(tables),
             \E s \in {"find", "change"} : Write(i, s, "audit", tables)
      PROVE  Alone(i) /\ Effect(i)
  BY <1>3, SeparateWrite
<1>4. ASSUME NEW tables, Done(tables), \E t \in Logging : Record(i, "audit", t, Row(i))
      PROVE  Alone(i) /\ Effect(i)
  BY <1>4, SeparateRecord
<1>5. ASSUME NEW tables, Done(tables),
             \E s \in {"find", "change"}, t \in Logging : InMemory(i, s, t, tables, Row(i))
      PROVE  Alone(i) /\ Effect(i)
  BY <1>5, MemoryCommand
<1>6. CASE MemoryIssueInvoice(i) \/ PgIssueInvoice(i)
  <2>1. Done([db EXCEPT !.invoice = "issued"])
    BY <1>6 DEF MemoryIssueInvoice, PgIssueInvoice, Does, Separate, Commands, Logged
  <2>. HIDE DEF Done
  <2>2. QED
    BY <1>1, <1>2, <1>3, <1>4, <1>5, <1>6, <2>1 DEF MemoryIssueInvoice, PgIssueInvoice
<1>7. CASE MemoryUpsertPolicy(i) \/ PgUpsertPolicy(i)
  <2>1. Done([db EXCEPT !.policy = arg[i]])
    BY <1>7 DEF MemoryUpsertPolicy, PgUpsertPolicy, Does, Separate, Commands, Logged
  <2>. HIDE DEF Done
  <2>2. QED
    BY <1>1, <1>2, <1>3, <1>4, <1>5, <1>7, <2>1 DEF MemoryUpsertPolicy, PgUpsertPolicy
<1>8. CASE \/ MemoryRotate(i) \/ PgRotate(i)
           \/ MemoryAdminRotate(i) \/ PgAdminRotate(i)
  <2>1. Done([db EXCEPT !.secret = i])
    BY <1>8 DEF MemoryRotate, PgRotate, MemoryAdminRotate, PgAdminRotate, Does,
       Separate, Commands, Logged
  <2>. HIDE DEF Done
  <2>2. QED
    BY <1>1, <1>2, <1>3, <1>4, <1>5, <1>8, <2>1
    DEF MemoryRotate, PgRotate, MemoryAdminRotate, PgAdminRotate
<1>9. CASE MemoryReplayWebhook(i) \/ PgReplayWebhook(i)
  <2>1. Done(Pinged({0}))
    BY <1>9 DEF MemoryReplayWebhook, PgReplayWebhook, Does, Separate, Commands, Logged
  <2>. HIDE DEF Done
  <2>2. QED
    BY <1>1, <1>2, <1>3, <1>4, <1>5, <1>9, <2>1 DEF MemoryReplayWebhook, PgReplayWebhook
<1>10. CASE MemoryReplayMessage(i) \/ PgReplayMessage(i)
  <2>1. Done(Pinged({0})) /\ Done(Pinged(db.hooks))
    BY <1>10 DEF MemoryReplayMessage, PgReplayMessage, Does, Separate, Commands, Logged
  <2>. HIDE DEF Done
  <2>2. QED
    BY <1>1, <1>2, <1>3, <1>4, <1>5, <1>10, <2>1 DEF MemoryReplayMessage, PgReplayMessage
<1>11. CASE MemoryCreateWebhook(i) \/ PgCreateWebhook(i)
  <2>1. Done(NewHook(i))
    BY <1>11 DEF MemoryCreateWebhook, PgCreateWebhook, Does, Separate, Commands, Logged
  <2>. HIDE DEF Done
  <2>2. QED
    BY <1>1, <1>2, <1>3, <1>4, <1>5, <1>11, <2>1 DEF MemoryCreateWebhook, PgCreateWebhook
<1>12. QED
  BY <1>6, <1>7, <1>8, <1>9, <1>10, <1>11

LEMMA TransactionEffect ==
  ASSUME IInv, NEW i \in CallIds,
         \/ MemoryDeliver(i) \/ PgDeliver(i)
         \/ MemoryReparse(i) \/ PgReparse(i)
         \/ MemoryApplyResult(i) \/ PgApplyResult(i)
  PROVE  Alone(i) /\ Effect(i)
<1>1. op[i] \in Commands /\ op[i] # "send" /\ "answer" \in Logging
  BY DEF MemoryDeliver, PgDeliver, MemoryReparse, PgReparse, MemoryApplyResult,
     PgApplyResult, Commands, Logged, Logging
<1>2. ASSUME NEW tables, db' = tables => Does(i),
             \/ InMemory(i, "begin", "answer", tables, Row(i))
             \/ CommitWith(i, "answer", tables, Row(i))
      PROVE  Alone(i) /\ Effect(i)
  BY <1>1, <1>2, MemoryCommand, CommitCommand
<1>3. ASSUME \/ \E t \in InTransaction : Open(i, t)
             \/ \E s, t \in InTransaction : Within(i, s, t)
      PROVE  Alone(i) /\ Effect(i)
  BY <1>1, <1>3, TransactionPasses
<1>4. {"nested", "write", "commit"} \subseteq InTransaction
  BY DEF InTransaction
<1>5. CASE MemoryDeliver(i) \/ PgDeliver(i)
  <2>1. db' = Delivered(i) => Does(i)
    BY <1>5 DEF MemoryDeliver, PgDeliver, Does
  <2>2. QED
    BY <1>2, <1>3, <1>4, <1>5, <2>1 DEF MemoryDeliver, PgDeliver
<1>6. CASE MemoryReparse(i) \/ PgReparse(i)
  <2>1. db' = Event("parsed") => Does(i)
    BY <1>6 DEF MemoryReparse, PgReparse, Does
  <2>2. QED
    BY <1>2, <1>3, <1>4, <1>6, <2>1 DEF MemoryReparse, PgReparse
<1>7. CASE MemoryApplyResult(i) \/ PgApplyResult(i)
  <2>1. db' = Event(arg[i]) => Does(i)
    BY <1>7 DEF MemoryApplyResult, PgApplyResult, Does
  <2>2. QED
    BY <1>2, <1>3, <1>4, <1>7, <2>1 DEF MemoryApplyResult, PgApplyResult
<1>8. QED
  BY <1>5, <1>6, <1>7

LEMMA SettingsEffect ==
  ASSUME IInv, NEW i \in CallIds, SettingsStep(i)
  PROVE  Alone(i) /\ Effect(i)
<1>1. CASE Load(i)
  <2>1. Step(i, "load", "loaded") /\ UNCHANGED <<db, audit, mailed>>
    BY <1>1 DEF Load, AtOnce, Query
  <2>2. QED
    BY <2>1, ReadPasses DEF Over, Quiet, Onward, Logging, SendMove, Early, Through
<1>2. CASE FinishLoad(i)
  <2>1. First(op[i]) \in {"auth", "begin", "set", "open", "find"}
        /\ (op[i] = "send" => First(op[i]) = "auth")
    BY DEF First, TenantOps
  <2>2. Step(i, "loaded", First(op[i])) /\ UNCHANGED <<db, audit, mailed>>
    BY <1>2 DEF FinishLoad
  <2>3. QED
    BY <2>1, <2>2, ReadPasses DEF Over, Quiet, Onward, Logging, SendMove, Early, Through
<1>3. CASE SetCache(i) \/ PgUpdateSettings(i)
  <2>1. op[i] = "updateSettings" /\ op[i] # "send" /\ op[i] \notin Logged
    BY <1>3 DEF SetCache, PgUpdateSettings, Logged
  <2>2. ASSUME NEW s \in {"set", "commit"}, Step(i, s, "answer"),
               db' = [db EXCEPT !.settings = i], UNCHANGED <<audit, mailed>>
        PROVE  Alone(i) /\ Effect(i)
    BY <2>1, <2>2, StepAlone DEF Effect, Storing, Over
  <2>3. CASE SetCache(i)
    <3>1. CASE store = "memory"
      BY <2>2, <2>3, <3>1 DEF SetCache
    <3>2. CASE store # "memory"
      <4>1. Step(i, "set", "begin") /\ UNCHANGED <<db, audit, mailed>>
        BY <2>3, <3>2 DEF SetCache
      <4>2. QED
        BY <2>1, <4>1, ReadPasses DEF Over, Quiet, Onward, Logging
    <3>3. QED
      BY <3>1, <3>2
  <2>4. CASE Open(i, "upsert") \/ Within(i, "upsert", "nested")
             \/ Within(i, "nested", "commit")
    BY <2>1, <2>4, TransactionPasses DEF InTransaction
  <2>5. CASE /\ Commit(i, "commit", "answer")
             /\ db' = [db EXCEPT !.settings = i]
             /\ UNCHANGED <<kept, audit, mailed, api, log>>
    BY <2>2, <2>5 DEF Commit
  <2>6. QED
    BY <1>3, <2>3, <2>4, <2>5 DEF PgUpdateSettings
<1>4. QED
  BY <1>1, <1>2, <1>3 DEF SettingsStep

LEMMA SendEffect ==
  ASSUME IInv, NEW i \in CallIds, SendMessage(i)
  PROVE  Alone(i) /\ Effect(i)
<1>1. op[i] = "send" /\ i \in CallIds
  BY DEF SendMessage
<1>2. ASSUME NEW s, NEW t, AtOnce(i, s, t) \/ Query(i, s, t),
             UNCHANGED <<db, audit, mailed>>, s \notin Over \cup {"unborn"},
             t \notin {"unborn", "audit"}, Quiet(i, s, t),
             SendMove(s, t) /\ (t \in Through => s \in Through)
      PROVE  Alone(i) /\ Effect(i)
  BY <1>1, <1>2, ReadPasses DEF AtOnce, Query
<1>3. ASSUME NEW s \in {"create", "complete", "failing"}, NEW t, t # "unborn", Step(i, s, t)
      PROVE  Alone(i) /\ pc[i] = s /\ pc'[i] = t
  BY <1>3, StepAlone DEF Over
<1>4. CASE EnforceCooldown(i)
  <2>1. PICK t \in {"find", "failed"} : /\ Step(i, "cooldown", t)
                                        /\ t = "find" => Allowed
    BY <1>4 DEF EnforceCooldown, Query, AtOnce
  <2>2. Alone(i) /\ pc[i] = "cooldown" /\ pc'[i] = t
    BY <2>1, StepAlone DEF Over
  <2>3. UNCHANGED <<db, audit, mailed>>
    BY <1>4 DEF EnforceCooldown
  <2>4. Passing(i)
    BY <1>1, <2>1, <2>2, <2>3 DEF Passing, SendMove, Early, Through, Logging
  <2>5. QED
    BY <2>2, <2>4 DEF Effect
<1>5. CASE FindMailbox(i)
  BY <1>2, <1>5 DEF FindMailbox, Select, Over, Quiet, Logging, SendMove, Early, Through
<1>6. CASE NotFound(i, "find")
  BY <1>2, <1>6 DEF NotFound, Over, Quiet, Logging, SendMove, Early, Through
<1>7. CASE MemoryCreateAttempt(i)
  <2>1. store = "memory" /\ Step(i, "create", "smtp")
    BY <1>7 DEF MemoryCreateAttempt, InMemory, AtOnce
  <2>2. Alone(i) /\ pc[i] = "create" /\ pc'[i] = "smtp"
    BY <1>3, <2>1
  <2>3. Creating(i)
    BY <1>1, <1>7, <2>1, <2>2 DEF MemoryCreateAttempt, InMemory, Creating, Notes
  <2>4. QED
    BY <2>2, <2>3 DEF Effect
<1>8. CASE PgCreateAttempt(i)
  <2>1. store # "memory" /\ Step(i, "create", "smtp")
    BY <1>8 DEF PgCreateAttempt, Record, Query
  <2>2. Alone(i) /\ pc[i] = "create" /\ pc'[i] = "smtp"
    BY <1>3, <2>1
  <2>3. Creating(i)
    BY <1>1, <1>8, <2>1, <2>2 DEF PgCreateAttempt, Record, Creating, Notes
  <2>4. QED
    BY <2>2, <2>3 DEF Effect
<1>9. CASE Submit(i)
  <2>1. PICK t \in {"complete", "failing"} : Step(i, "smtp", t)
    BY <1>9 DEF Submit
  <2>2. Alone(i) /\ Giving(i)
    BY <1>1, <1>9, <2>1, StepAlone DEF Submit, Giving, Over
  <2>3. QED
    BY <2>2 DEF Effect
<1>10. CASE Refused(i) \/ CaughtError(i)
  <2>1. PICK s \in Caught : Step(i, s, "failing") /\ UNCHANGED <<db, audit, mailed>>
    BY <1>10 DEF Refused, CaughtError, Caught
  <2>2. QED
    BY <1>1, <2>1, ReadPasses DEF Caught, Over, Quiet, Onward, Logging, SendMove, Early, Through
<1>11. CASE MemoryCompleteAttempt(i)
  <2>1. store = "memory" /\ Step(i, "complete", "show")
    BY <1>11 DEF MemoryCompleteAttempt, InMemory, AtOnce
  <2>2. Alone(i) /\ pc[i] = "complete" /\ pc'[i] = "show"
    BY <1>3, <2>1
  <2>3. Accepting(i)
    BY <1>1, <1>11, <2>1, <2>2 DEF MemoryCompleteAttempt, InMemory, Accepting, Notes
  <2>4. QED
    BY <2>2, <2>3 DEF Effect
<1>12. CASE Record(i, "complete", "reread", Entry(i, "send_attempt.completed", TRUE))
  <2>1. store # "memory" /\ Step(i, "complete", "reread")
    BY <1>12 DEF Record, Query
  <2>2. Alone(i) /\ pc[i] = "complete" /\ pc'[i] = "reread"
    BY <1>3, <2>1
  <2>3. Accepting(i)
    BY <1>1, <1>12, <2>1, <2>2 DEF Record, Accepting, Notes
  <2>4. QED
    BY <2>2, <2>3 DEF Effect
<1>13. CASE Select(i, "reread", "show")
  BY <1>2, <1>13 DEF Select, Over, Quiet, Logging, SendMove, Early, Through
<1>14. CASE MemoryFailAttempt(i)
  <2>1. store = "memory" /\ Step(i, "failing", "failed")
    BY <1>14 DEF MemoryFailAttempt, InMemory, AtOnce
  <2>2. Alone(i) /\ pc[i] = "failing" /\ pc'[i] = "failed"
    BY <1>3, <2>1
  <2>3. Failing(i)
    BY <1>1, <1>14, <2>1, <2>2 DEF MemoryFailAttempt, InMemory, Failing, Notes
  <2>4. QED
    BY <2>2, <2>3 DEF Effect
<1>15. CASE PgFailAttempt(i)
  <2>1. store # "memory" /\ Step(i, "failing", "failed")
    BY <1>15 DEF PgFailAttempt, Record, Query
  <2>2. Alone(i) /\ pc[i] = "failing" /\ pc'[i] = "failed"
    BY <1>3, <2>1
  <2>3. Failing(i)
    BY <1>1, <1>15, <2>1, <2>2 DEF PgFailAttempt, Record, Failing, Notes
  <2>4. QED
    BY <2>2, <2>3 DEF Effect
<1>16. CASE ShowAttempt(i)
  BY <1>2, <1>16 DEF ShowAttempt, Select, Over, Quiet, Logging, SendMove, Early, Through
<1>17. QED
  BY <1>4, <1>5, <1>6, <1>7, <1>8, <1>9, <1>10, <1>11, <1>12, <1>13, <1>14,
     <1>15, <1>16 DEF SendMessage, PgCompleteAttempt

LEMMA MeterEffect ==
  ASSUME IInv, NEW i \in CallIds, Meter(i)
  PROVE  Alone(i) /\ Effect(i)
<1>1. Step(i, "meter", "answer") /\ UNCHANGED <<audit, mailed>>
  BY DEF Meter, AtOnce, Query
<1>2. Alone(i) /\ pc[i] = "meter" /\ pc'[i] = "answer"
  BY <1>1, StepAlone DEF Over
<1>3. CASE op[i] = "send"
  BY <1>1, <1>2, <1>3 DEF Meter, Metering, Effect
<1>4. CASE op[i] # "send"
  BY <1>1, <1>2, <1>4, ReadPasses DEF Meter, Over, Quiet, Onward, Logging
<1>5. QED
  BY <1>3, <1>4

LEMMA AskEffect ==
  ASSUME IInv, NEW i \in CallIds, Ask(i)
  PROVE  Alone(i) /\ Effect(i)
<1>1. PICK t \in {"load", "auth", "begin", "set", "open", "find"} :
        /\ Start(i, t)
        /\ op[i] = "send" => t \in {"load", "auth"}
  BY DEF Ask, First, TenantOps, Background
<1>2. /\ pc[i] = "unborn" /\ pc'[i] = t /\ UNCHANGED asked
      /\ \A j \in CallIds \ {i} : pc'[j] = pc[j]
  BY <1>1 DEF Start, Step, IInv, Pool
<1>3. UNCHANGED <<db, audit, mailed>> /\ Cardinality(Running) < InFlight
  BY <1>1 DEF Start
<1>4. Alone(i)
  BY <1>1, <1>2, <1>3 DEF Alone, Over
<1>5. Passing(i)
  BY <1>1, <1>2, <1>3 DEF Passing, Onward, Logging, SendMove, Early, Through
<1>6. QED
  BY <1>4, <1>5 DEF Effect

LEMMA OtherEffect ==
  ASSUME IInv, NEW i \in CallIds,
         \/ Authenticate(i) \/ OpenLog(i) \/ TurnPage(i)
         \/ UnknownId(i) \/ Fail(i) \/ Answer(i)
  PROVE  Alone(i) /\ Effect(i)
<1>1. CASE Authenticate(i)
  <2>1. PICK t \in {"failed", "cooldown", "change", "find"} :
          /\ Step(i, "auth", t)
          /\ op[i] = "send" => t \in {"failed", "cooldown"}
    BY <1>1 DEF Authenticate, AtOnce, Query
  <2>2. QED
    BY <1>1, <2>1, ReadPasses
    DEF Authenticate, Over, Quiet, Onward, Logging, SendMove, Early, Through
<1>2. CASE OpenLog(i) \/ TurnPage(i)
  <2>1. PICK s \in {"open", "turn"}, t \in {"answer", "turn"} : Step(i, s, t)
    BY <1>2 DEF OpenLog, TurnPage, Fetch, AtOnce, Query
  <2>2. op[i] # "send" /\ op[i] \notin Logged /\ UNCHANGED <<db, audit, mailed>>
    BY <1>2 DEF OpenLog, TurnPage, Logged
  <2>3. QED
    BY <2>1, <2>2, ReadPasses DEF Over, Quiet, Onward, Logging
<1>3. CASE UnknownId(i)
  BY <1>3, ReadPasses DEF UnknownId, NotFound, AtOnce, Query, Over, Quiet, Onward, Logging
<1>4. CASE Fail(i)
  <2>1. /\ pc[i] \notin Over \cup {"unborn"} /\ Step(i, pc[i], "failed")
        /\ UNCHANGED <<db, audit, mailed>>
    BY <1>4 DEF Fail, Running, Step
  <2>2. QED
    BY <2>1, ReadPasses DEF Quiet, Onward, Logging, SendMove, Through
<1>5. CASE Answer(i)
  BY <1>5, ReadPasses DEF Answer, Over, Quiet, Onward, Logging, SendMove, Early, Through
<1>6. QED
  BY <1>1, <1>2, <1>3, <1>4, <1>5

LEMMA Effects ==
  ASSUME IInv, NEW i \in CallIds, CallStep(i)
  PROVE  Alone(i) /\ Effect(i)
<1>1. CASE OperatorStep(i)
  BY <1>1, PatchEffect, CommandEffect, TransactionEffect, OtherEffect DEF OperatorStep
<1>2. CASE TenantStep(i)
  BY <1>2, CommandEffect, SendEffect, MeterEffect, OtherEffect DEF TenantStep
<1>3. CASE WorkerStep(i)
  BY <1>3, TransactionEffect DEF WorkerStep
<1>4. QED
  BY <1>1, <1>2, <1>3, AskEffect, SettingsEffect, OtherEffect DEF CallStep

\* A restart ends the calls in progress and changes nothing they have done.
LEMMA CrashEffect ==
  ASSUME IInv, Crash
  PROVE  /\ UNCHANGED <<asked, db, audit, mailed>>
         /\ \A j \in CallIds : pc'[j] = IF j \in Running THEN "lost" ELSE pc[j]
BY DEF Crash

-----------------------------------------------------------------------------
(* What no command touches.                                                *)

LEMMA CommandsLeave ==
  ASSUME IInv, NEW i \in CallIds, Does(i) \/ Suspending(i)
  PROVE  /\ db'.usage = db.usage /\ db'.attempt = db.attempt
         /\ db'.settings = db.settings
<1>1. db \in Tables
  BY DEF IInv, Types
<1>2. QED
  BY <1>1 DEF Does, Suspending, Patched, Pinged, NewHook, Delivered, Event, Tables

LEMMA UsageStep ==
  ASSUME IInv, NEW i \in CallIds, Effect(i)
  PROVE  db'.usage = db.usage \/ Metering(i)
<1>1. CASE Changing(i) \/ DoingBoth(i) \/ Suspending(i)
  BY <1>1, CommandsLeave DEF Changing, DoingBoth
<1>2. CASE Storing(i)
  BY <1>2 DEF Storing, IInv, Types, Tables
<1>3. CASE Creating(i) \/ Accepting(i) \/ Failing(i)
  BY <1>3 DEF Creating, Accepting, Failing, Notes, IInv, Types, Tables
<1>4. CASE Passing(i) \/ Recording(i) \/ Giving(i)
  BY <1>4 DEF Passing, Recording, Giving
<1>5. QED
  BY <1>1, <1>2, <1>3, <1>4 DEF Effect

-----------------------------------------------------------------------------
(* The cooldown.                                                           *)

\* The sends that have passed the cooldown and may still add to the usage.
Sent == {i \in CallIds : op[i] = "send" /\ pc[i] \in Through}

CooldownInv ==
  /\ Cardinality(Running) <= InFlight
  /\ ~bound => Cardinality(db.usage) + Cardinality(Sent) < CooldownLimit + InFlight

Counted ==
  /\ IsFiniteSet(Running) /\ Cardinality(Running) \in Nat
  /\ IsFiniteSet(Sent) /\ Cardinality(Sent) \in Nat
  /\ IsFiniteSet(db.usage) /\ Cardinality(db.usage) \in Nat
  /\ Sent \subseteq Running /\ Cardinality(Sent) <= Cardinality(Running)

LEMMA SetsFinite ==
  ASSUME IInv
  PROVE  Counted
<1>1. IsFiniteSet(CallIds)
  BY MaxCallsAssumption, FS_Interval
<1>2. Running \subseteq CallIds /\ db.usage \subseteq CallIds
  BY DEF Running, IInv, Types, Tables
<1>3. Sent \subseteq Running
  BY DEF Sent, Running, Through, Over
<1>4. IsFiniteSet(Running) /\ IsFiniteSet(db.usage)
  BY <1>1, <1>2, FS_Subset
<1>5. IsFiniteSet(Sent) /\ Cardinality(Sent) <= Cardinality(Running)
  BY <1>3, <1>4, FS_Subset
<1>6. QED
  BY <1>3, <1>4, <1>5, FS_CardinalityType DEF Counted

LEMMA RunningStep ==
  ASSUME IInv, Cardinality(Running) <= InFlight, NEW i \in CallIds, Alone(i), IInv'
  PROVE  Cardinality(Running') <= InFlight
<1>1. CASE pc[i] = "unborn"
  <2>1. Running' \subseteq Running \cup {i} /\ i \notin Running
    BY <1>1 DEF Alone, Running
  <2>2. /\ IsFiniteSet(Running \cup {i})
        /\ Cardinality(Running \cup {i}) = Cardinality(Running) + 1
    BY <2>1, SetsFinite, FS_AddElement DEF Counted
  <2>3. Cardinality(Running') <= Cardinality(Running) + 1 /\ Cardinality(Running') \in Nat
    BY <2>1, <2>2, FS_Subset, FS_CardinalityType
  <2>4. Cardinality(Running) < InFlight
    BY <1>1 DEF Alone
  <2>5. QED
    BY <2>3, <2>4, SetsFinite, InFlightAssumption DEF Counted
<1>2. CASE pc[i] # "unborn"
  <2>1. Running' \subseteq Running
    BY <1>2 DEF Alone, Running
  <2>2. Cardinality(Running') <= Cardinality(Running) /\ Cardinality(Running') \in Nat
    BY <2>1, SetsFinite, FS_Subset, FS_CardinalityType DEF Counted
  <2>3. QED
    BY <2>2, SetsFinite, InFlightAssumption DEF Counted
<1>3. QED
  BY <1>1, <1>2

LEMMA CooldownCallStep ==
  ASSUME IInv, CooldownInv, NEW i \in CallIds, CallStep(i), IInv'
  PROVE  CooldownInv'
<1>1. Alone(i) /\ Effect(i)
  BY Effects
<1>2. Cardinality(Running') <= InFlight
  BY <1>1, RunningStep DEF CooldownInv
<1>3. /\ bound' = bound /\ op' = op
      /\ \A j \in CallIds \ {i} : pc'[j] = pc[j]
  BY <1>1 DEF Alone, asked
<1>4. Counted /\ Counted'
  BY SetsFinite, PTL
<1>5. SUFFICES ASSUME ~bound
               PROVE  Cardinality(db'.usage) + Cardinality(Sent') < CooldownLimit + InFlight
  BY <1>2, <1>3 DEF CooldownInv
<1>6. Cardinality(db.usage) + Cardinality(Sent) < CooldownLimit + InFlight
  BY <1>5 DEF CooldownInv
<1>7. CASE Metering(i)
  <2>1. i \in Sent /\ Sent' = Sent \ {i} /\ db'.usage = db.usage \cup {i}
    BY <1>3, <1>7 DEF Metering, Sent, Through, IInv, Types, Tables
  <2>2. Cardinality(Sent') = Cardinality(Sent) - 1
    BY <2>1, SetsFinite, FS_RemoveElement DEF Counted
  <2>3. Cardinality(db'.usage) <= Cardinality(db.usage) + 1
    <3>1. CASE i \in db.usage
      <4>1. db'.usage = db.usage
        BY <2>1, <3>1
      <4>2. Cardinality(db.usage) \in Nat
        BY SetsFinite DEF Counted
      <4>3. QED
        BY <4>1, <4>2
    <3>2. CASE i \notin db.usage
      <4>1. Cardinality(db.usage \cup {i}) = Cardinality(db.usage) + 1
        BY <3>2, SetsFinite, FS_AddElement DEF Counted
      <4>2. QED
        BY <2>1, <4>1, SetsFinite DEF Counted
    <3>3. QED
      BY <3>1, <3>2
  <2>4. QED
    BY <1>4, <1>6, <2>2, <2>3, SetsFinite, CooldownLimitAssumption, InFlightAssumption DEF Counted
<1>8. CASE ~Metering(i) /\ Sent' \subseteq Sent
  <2>1. Cardinality(Sent') <= Cardinality(Sent)
    BY <1>8, SetsFinite, FS_Subset DEF Counted
  <2>2. db'.usage = db.usage
    BY <1>1, <1>8, UsageStep
  <2>3. QED
    BY <1>4, <1>6, <2>1, <2>2, SetsFinite, CooldownLimitAssumption, InFlightAssumption DEF Counted
<1>9. CASE ~Metering(i) /\ ~(Sent' \subseteq Sent)
  <2>1. op[i] = "send" /\ pc'[i] \in Through /\ pc[i] \notin Through
    BY <1>3, <1>9 DEF Sent
  <2>2. Passing(i)
    BY <1>1, <1>9, <2>1 DEF Effect, Suspending, Changing, Recording, DoingBoth, Storing,
       Creating, Accepting, Failing, Notes, Giving, Commands, Separate, Through
  <2>3. db' = db /\ Cardinality(db.usage) < CooldownLimit
    BY <1>5, <2>1, <2>2 DEF Passing, Allowed
  <2>4. QED
    BY <1>2, <1>4, <2>3, SetsFinite, CooldownLimitAssumption, InFlightAssumption DEF Counted
<1>10. QED
  BY <1>7, <1>8, <1>9

LEMMA CooldownStep ==
  ASSUME IInv, CooldownInv, [Next]_vars, IInv'
  PROVE  CooldownInv'
<1>1. CASE Crash
  <2>1. Running' = {} /\ Sent' = {} /\ db' = db /\ bound' = bound
    BY <1>1, CrashEffect DEF Running, Sent, Over, Through, asked
  <2>2. Cardinality(Running') = 0 /\ Cardinality(Sent') = 0
    BY <2>1, FS_EmptySet
  <2>3. ~bound => Cardinality(db.usage) < CooldownLimit + InFlight
    BY SetsFinite, CooldownLimitAssumption, InFlightAssumption DEF CooldownInv, Counted
  <2>4. QED
    BY <2>1, <2>2, <2>3, SetsFinite, InFlightAssumption DEF CooldownInv, Counted
<1>2. CASE \E i \in CallIds : CallStep(i)
  BY <1>2, CooldownCallStep
<1>3. CASE UNCHANGED vars
  BY <1>3 DEF vars, asked, CooldownInv, Running, Sent
<1>4. QED
  BY <1>1, <1>2, <1>3 DEF Next

\* Whatever the limit and however many sends are in progress: they exceed the
\* cooldown of a tenant by at most their number less one, failures and restarts
\* included.
THEOREM CooldownBounds == Spec => []CooldownHolds
<1>1. ASSUME Init PROVE CooldownInv
  <2>1. Running = {} /\ Sent = {} /\ db.usage = {}
    BY <1>1 DEF Init, CallsInit, Running, Sent, Through, InitialDb
  <2>2. QED
    BY <2>1, FS_EmptySet, CooldownLimitAssumption, InFlightAssumption DEF CooldownInv
<1>2. ASSUME IInv, CooldownInv PROVE CooldownHolds
  BY <1>2, SetsFinite, CooldownLimitAssumption, InFlightAssumption
  DEF CooldownInv, CooldownHolds, Counted
<1>3. QED
  BY <1>1, <1>2, Invariance, CooldownStep, PTL DEF Spec

=============================================================================
