------------------------ MODULE ConsoleHistoryProofs ------------------------
(***************************************************************************)
(* Proofs about what the calls of Console and Sending leave behind, for    *)
(* any number of calls of any kind: attempts and mails (AcceptedMails,     *)
(* SendsSubmitOnce), the log (LogIsTrue), the listings (DoneIsShown), the  *)
(* settings (SettingsAreStored) and an operator's pages (PagesAreWhole).   *)
(***************************************************************************)
EXTENDS ConsoleProofs

-----------------------------------------------------------------------------
(* Attempts.                                                               *)

SendActions ==
  {"send_attempt.created", "send_attempt.completed", "send_attempt.failed"}

SendRows(j) ==
  {n \in 1..Len(audit) : audit[n].call = j /\ audit[n].action \in SendActions}

Newest(j) == {m \in SendRows(j) : \A k \in SendRows(j) : k <= m}

LEMMA LatestIsNewest ==
  ASSUME NEW j
  PROVE  Latest(j) = {audit[n].action : n \in Newest(j)}
BY DEF Latest, Newest, SendRows, SendActions

LEMMA OneNewest ==
  ASSUME NEW j, NEW a \in Latest(j), NEW b \in Latest(j)
  PROVE  a = b /\ a \in SendActions
<1>1. PICK m \in Newest(j) : a = audit[m].action
  BY LatestIsNewest
<1>2. PICK n \in Newest(j) : b = audit[n].action
  BY LatestIsNewest
<1>3. m = n
  BY DEF Newest, SendRows
<1>4. QED
  BY <1>1, <1>2, <1>3 DEF Newest, SendRows

\* A row of another kind, wherever it is put in, leaves an attempt alone.
LEMMA LatestOther ==
  ASSUME IInv, NEW p, NEW e, Inserted(p, e), NEW j,
         ~(e.call = j /\ e.action \in SendActions)
  PROVE  Latest(j)' = Latest(j)
<1>1. p \notin SendRows(j)'
  BY ShiftedRows DEF SendRows
<1>2. \A n \in 1..Len(audit) : n \in SendRows(j) <=> Shift(p, n) \in SendRows(j)'
  BY ShiftedRows DEF SendRows
<1>3. SendRows(j)' = {Shift(p, n) : n \in SendRows(j)}
  BY <1>1, <1>2, ShiftedRows DEF SendRows
<1>4. Newest(j)' = {Shift(p, n) : n \in Newest(j)}
  <2>1. Newest(j)' = {m \in SendRows(j)' : \A k \in SendRows(j)' : k <= m}
    BY DEF Newest
  <2>2. SendRows(j) \subseteq 1..Len(audit)
    BY DEF SendRows
  <2>3. \A n \in SendRows(j) :
          (\A k \in SendRows(j) : k <= n) <=> (\A k \in SendRows(j)' : k <= Shift(p, n))
    BY <1>3, <2>2, ShiftedRows
  <2>4. QED
    BY <1>3, <2>1, <2>3 DEF Newest
<1>5. Latest(j)' = {audit'[m].action : m \in Newest(j)'}
  BY DEF Latest, Newest, SendRows, SendActions
<1>6. \A n \in Newest(j) : audit'[Shift(p, n)] = audit[n]
  BY ShiftedRows DEF Newest, SendRows
<1>7. QED
  BY <1>4, <1>5, <1>6, LatestIsNewest

LEMMA SendEntryType ==
  ASSUME NEW i \in CallIds, NEW action \in SendActions
  PROVE  Entry(i, action, TRUE) \in AuditRow
BY DEF Entry, AuditRow, Actions, SendActions

\* What a send writes last is what its attempt says.
LEMMA LatestOwn ==
  ASSUME IInv, NEW i \in CallIds, NEW action \in SendActions,
         audit' = Append(audit, Entry(i, action, TRUE))
  PROVE  Latest(i)' = {action}
<1>. DEFINE n == Len(audit) + 1
<1>1. audit \in Seq(AuditRow) /\ Len(audit) \in Nat
  BY DEF IInv, Types
<1>2. n \in Nat /\ n \in 1..Len(audit') /\ audit'[n] = Entry(i, action, TRUE)
      /\ Len(audit') = n
  <2>1. Len(audit') = n /\ audit'[n] = Entry(i, action, TRUE)
    <3>1. Entry(i, action, TRUE) \in AuditRow
      BY SendEntryType
    <3>2. QED
      BY <1>1, <3>1, AppendedRows
  <2>2. n \in Nat /\ n \in 1..n
    BY <1>1
  <2>. HIDE DEF n
  <2>3. QED
    BY <2>1, <2>2, Zenon
<1>. HIDE DEF n
<1>3. n \in SendRows(i)' /\ \A k \in SendRows(i)' : k \in 1..n
  BY <1>2 DEF SendRows, Entry
<1>4. Newest(i)' = {n}
  <2>1. Newest(i)' = {m \in SendRows(i)' : \A k \in SendRows(i)' : k <= m}
    BY DEF Newest
  <2>2. \A m \in SendRows(i)' : (\A k \in SendRows(i)' : k <= m) <=> m = n
    BY <1>2, <1>3
  <2>3. QED
    BY <1>3, <2>1, <2>2
<1>5. Latest(i)' = {audit'[m].action : m \in Newest(i)'}
  BY DEF Latest, Newest, SendRows, SendActions
<1>6. QED
  BY <1>2, <1>4, <1>5 DEF Entry

LEMMA Statuses ==
  /\ StatusOf("send_attempt.created") = "queued"
  /\ StatusOf("send_attempt.completed") = "accepted"
  /\ StatusOf("send_attempt.failed") = "failed"
BY Zenon DEF StatusOf

Saying(latest) == IF latest = {} THEN "none" ELSE StatusOf(CHOOSE a \in latest : TRUE)

LEMMA Said ==
  \A j : PgAttempt(j) = Saying(Latest(j)) /\ PgAttempt(j)' = Saying(Latest(j)')
BY Zenon DEF PgAttempt, Saying

LEMMA SaidOne == \A action : Saying({action}) = StatusOf(action)
<1>1. TAKE action
<1>2. (CHOOSE a \in {action} : TRUE) = action
  OBVIOUS
<1>3. QED
  BY <1>2 DEF Saying

LEMMA AttemptNoted ==
  ASSUME IInv, NEW i \in CallIds, NEW s, NEW to, NEW action \in SendActions, NEW status,
         StatusOf(action) = status, Notes(i, s, to, action, status), store' = store
  PROVE  /\ Attempt(i)' = status
         /\ \A j \in CallIds \ {i} : Attempt(j)' = Attempt(j)
<1>1. audit' = Append(audit, Entry(i, action, TRUE))
  BY DEF Notes
<1>2. Latest(i)' = {action}
  BY <1>1, LatestOwn
<1>3. \E p \in Nat : Inserted(p, Entry(i, action, TRUE))
  BY <1>1, SendEntryType, AppendLogs DEF Logs
<1>4. \A j \in CallIds \ {i} : Latest(j)' = Latest(j)
  BY <1>3, LatestOther DEF Entry
<1>5. CASE store = "memory"
  BY <1>5 DEF Notes, Attempt, MemoryAttempt, IInv, Types, Tables
<1>6. CASE store # "memory"
  <2>1. PgAttempt(i)' = status
    BY <1>2, Said, SaidOne
  <2>2. \A j \in CallIds \ {i} : PgAttempt(j)' = PgAttempt(j)
    BY <1>4, Said
  <2>3. QED
    BY <1>6, <2>1, <2>2 DEF Attempt
<1>7. QED
  BY <1>5, <1>6

Noting(i) == Creating(i) \/ Accepting(i) \/ Failing(i)

LEMMA AttemptKept ==
  ASSUME IInv, NEW i \in CallIds, Effect(i), ~Noting(i), store' = store
  PROVE  \A j \in CallIds : Attempt(j)' = Attempt(j)
<1>1. db'.attempt = db.attempt
  <2>1. CASE Changing(i) \/ DoingBoth(i) \/ Suspending(i)
    BY <2>1, CommandsLeave DEF Changing, DoingBoth
  <2>2. CASE Storing(i) \/ Metering(i)
    BY <2>2 DEF Storing, Metering, IInv, Types, Tables
  <2>3. CASE Passing(i) \/ Recording(i) \/ Giving(i)
    BY <2>3 DEF Passing, Recording, Giving
  <2>4. QED
    BY <2>1, <2>2, <2>3 DEF Effect, Noting
<1>2. \A j \in CallIds : Latest(j)' = Latest(j)
  <2>1. CASE Recording(i) \/ DoingBoth(i)
    <3>1. op[i] \in Commands /\ Logs(Row(i))
      BY <2>1 DEF Recording, DoingBoth, Separate
    <3>2. Row(i).action \notin SendActions
      BY <3>1 DEF Row, Entry, LoggedAs, Commands, Logged, SendActions
    <3>3. QED
      BY <3>1, <3>2, LatestOther DEF Logs
  <2>2. CASE audit' = audit
    BY <2>2 DEF Latest
  <2>3. QED
    BY <2>1, <2>2 DEF Effect, Noting, Passing, Suspending, Changing, Storing, Giving,
       Metering
<1>3. QED
  BY <1>1, <1>2, Said DEF Attempt, MemoryAttempt

\* What an attempt says, how often its mail was taken, and where its send is.
Fits(status, times) ==
  \/ status = "none" /\ times = 0
  \/ status \in {"queued", "failed"} /\ times \in {0, 1}
  \/ status = "accepted" /\ times = 1

SendFits(i) ==
  /\ Fits(Attempt(i), mailed[i])
  /\ op[i] # "send" => Attempt(i) = "none"
  /\ op[i] = "send" =>
       /\ pc[i] \in Early => Attempt(i) = "none"
       /\ pc[i] = "smtp" => Attempt(i) = "queued" /\ mailed[i] = 0
       /\ pc[i] = "complete" => Attempt(i) = "queued" /\ mailed[i] = 1
       /\ pc[i] \in Logging => Attempt(i) = "accepted"
       /\ pc[i] = "failing" => Attempt(i) \in {"queued", "accepted"}

SendInv == \A i \in CallIds : SendFits(i)

LEMMA SendInit ==
  ASSUME Init
  PROVE  /\ \A i \in CallIds : Attempt(i) = "none" /\ mailed[i] = 0 /\ pc[i] = "unborn"
         /\ SendInv
<1>1. \A i \in CallIds : mailed[i] = 0 /\ pc[i] = "unborn"
  BY DEF Init, CallsInit
<1>2. \A i \in CallIds : Attempt(i) = "none"
  <2>1. TAKE i \in CallIds
  <2>2. MemoryAttempt(i) = "none"
    BY DEF Init, CallsInit, InitialDb, MemoryAttempt
  <2>3. audit = <<>>
    BY DEF Init, CallsInit
  <2>4. Latest(i) = {}
    BY <2>3, LatestIsNewest DEF Newest, SendRows
  <2>5. PgAttempt(i) = "none"
    BY <2>4 DEF PgAttempt
  <2>6. QED
    BY <2>2, <2>5 DEF Attempt
<1>3. QED
  BY <1>1, <1>2 DEF SendInv, SendFits, Fits, Early, Logging

\* The step of one call leaves the others' attempts alone.
LEMMA OthersKeepFitting ==
  ASSUME IInv, SendInv, NEW i \in CallIds, Alone(i),
         NEW j \in CallIds \ {i}, Attempt(j)' = Attempt(j), mailed'[j] = mailed[j]
  PROVE  SendFits(j)'
<1>1. pc'[j] = pc[j] /\ op'[j] = op[j] /\ SendFits(j)
  BY DEF Alone, asked, SendInv
<1>2. QED
  BY <1>1 DEF SendFits

LEMMA NotedFits ==
  ASSUME IInv, SendInv, NEW i \in CallIds, Alone(i), Noting(i)
  PROVE  /\ \A j \in CallIds : mailed'[j] = mailed[j]
         /\ \A j \in CallIds \ {i} : Attempt(j)' = Attempt(j)
         /\ Creating(i) => Attempt(i) = "none" /\ Attempt(i)' = "queued"
         /\ Accepting(i) => /\ Attempt(i) = "queued" /\ mailed[i] = 1
                            /\ Attempt(i)' = "accepted"
         /\ Failing(i) => Attempt(i) \in {"queued", "accepted"} /\ Attempt(i)' = "failed"
         /\ SendInv'
<1>1. store' = store /\ op' = op
  BY DEF Alone, asked
<1>2. SendFits(i) /\ op[i] = "send" /\ mailed' = mailed
  BY DEF SendInv, Noting, Creating, Accepting, Failing, Notes
<1>3. /\ "send_attempt.created" \in SendActions /\ "send_attempt.completed" \in SendActions
      /\ "send_attempt.failed" \in SendActions
  BY DEF SendActions
<1>4. CASE Creating(i)
  <2>1. Attempt(i)' = "queued" /\ \A j \in CallIds \ {i} : Attempt(j)' = Attempt(j)
    BY <1>1, <1>3, <1>4, AttemptNoted, Statuses DEF Creating
  <2>2. pc[i] = "create" /\ pc'[i] = "smtp"
    BY <1>4 DEF Creating, Notes
  <2>3. Attempt(i) = "none" /\ mailed[i] = 0
    BY <1>2, <2>2 DEF SendFits, Fits, Early
  <2>4. SendFits(i)'
    BY <1>1, <1>2, <2>1, <2>2, <2>3 DEF SendFits, Fits, Early, Logging
  <2>5. SendInv'
    BY <1>2, <2>1, <2>4, OthersKeepFitting DEF SendInv
  <2>6. ~Accepting(i) /\ ~Failing(i)
    BY <2>2 DEF Accepting, Failing, Notes
  <2>7. QED
    BY <1>2, <2>1, <2>3, <2>5, <2>6
<1>5. CASE Accepting(i)
  <2>1. Attempt(i)' = "accepted" /\ \A j \in CallIds \ {i} : Attempt(j)' = Attempt(j)
    BY <1>1, <1>3, <1>5, AttemptNoted, Statuses DEF Accepting
  <2>2. pc[i] = "complete" /\ pc'[i] \in {"reread", "show"}
    BY <1>5 DEF Accepting, Notes
  <2>3. Attempt(i) = "queued" /\ mailed[i] = 1
    BY <1>2, <2>2 DEF SendFits
  <2>4. SendFits(i)'
    BY <1>1, <1>2, <2>1, <2>2, <2>3 DEF SendFits, Fits, Early, Logging
  <2>5. SendInv'
    BY <1>2, <2>1, <2>4, OthersKeepFitting DEF SendInv
  <2>6. ~Creating(i) /\ ~Failing(i)
    BY <2>2 DEF Creating, Failing, Notes
  <2>7. QED
    BY <1>2, <2>1, <2>3, <2>5, <2>6
<1>6. CASE Failing(i)
  <2>1. Attempt(i)' = "failed" /\ \A j \in CallIds \ {i} : Attempt(j)' = Attempt(j)
    BY <1>1, <1>3, <1>6, AttemptNoted, Statuses DEF Failing
  <2>2. pc[i] = "failing" /\ pc'[i] = "failed"
    BY <1>6 DEF Failing, Notes
  <2>3. Attempt(i) \in {"queued", "accepted"} /\ mailed[i] \in {0, 1}
    BY <1>2, <2>2 DEF SendFits, Fits
  <2>4. SendFits(i)'
    BY <1>1, <1>2, <2>1, <2>2, <2>3 DEF SendFits, Fits, Early, Logging
  <2>5. SendInv'
    BY <1>2, <2>1, <2>4, OthersKeepFitting DEF SendInv
  <2>6. ~Creating(i) /\ ~Accepting(i)
    BY <2>2 DEF Creating, Accepting, Notes
  <2>7. QED
    BY <1>2, <2>1, <2>3, <2>5, <2>6
<1>7. QED
  BY <1>4, <1>5, <1>6 DEF Noting

LEMMA GivenFits ==
  ASSUME IInv, SendInv, NEW i \in CallIds, Alone(i), Giving(i)
  PROVE  /\ \A j \in CallIds : Attempt(j)' = Attempt(j)
         /\ Attempt(i) = "queued" /\ mailed[i] = 0
         /\ mailed' = [mailed EXCEPT ![i] = 1]
         /\ SendInv'
<1>1. store' = store /\ op' = op
  BY DEF Alone, asked
<1>2. /\ SendFits(i) /\ op[i] = "send"
      /\ pc[i] = "smtp" /\ pc'[i] \in {"complete", "failing"}
  BY DEF SendInv, Giving
<1>3. ~Noting(i)
  BY <1>2 DEF Noting, Creating, Accepting, Failing, Notes
<1>4. \A j \in CallIds : Attempt(j)' = Attempt(j)
  BY <1>1, <1>3, AttemptKept DEF Effect
<1>5. Attempt(i) = "queued" /\ mailed[i] = 0
  BY <1>2 DEF SendFits
<1>6. /\ mailed' = [mailed EXCEPT ![i] = 1] /\ mailed'[i] = 1
      /\ \A j \in CallIds \ {i} : mailed'[j] = mailed[j]
  BY <1>5 DEF Giving, IInv, Types
<1>7. SendFits(i)'
  BY <1>1, <1>2, <1>4, <1>5, <1>6 DEF SendFits, Fits, Early, Logging
<1>8. SendInv'
  BY <1>4, <1>6, <1>7, OthersKeepFitting DEF SendInv
<1>9. QED
  BY <1>4, <1>5, <1>6, <1>8

\* All the other steps leave every attempt and every mail alone.
LEMMA QuietFits ==
  ASSUME IInv, SendInv, NEW i \in CallIds, Alone(i), Effect(i), ~Noting(i), ~Giving(i)
  PROVE  /\ \A j \in CallIds : Attempt(j)' = Attempt(j)
         /\ mailed' = mailed
         /\ SendInv'
<1>1. store' = store /\ op' = op
  BY DEF Alone, asked
<1>2. \A j \in CallIds : Attempt(j)' = Attempt(j)
  BY <1>1, AttemptKept
<1>3. mailed' = mailed
  BY DEF Effect, Noting, Passing, Suspending, Changing, Recording, DoingBoth, Storing,
     Metering
<1>4. SendFits(i) /\ Attempt(i)' = Attempt(i)
  BY <1>2 DEF SendInv
<1>5. op[i] = "send" => SendMove(pc[i], pc'[i])
  BY DEF Effect, Noting, Passing, Suspending, Changing, Recording, DoingBoth, Storing,
     Metering, Commands, Separate, SendMove, Logging
<1>6. SendFits(i)'
  <2>1. CASE op[i] # "send"
    BY <1>1, <1>3, <1>4, <2>1 DEF SendFits
  <2>2. CASE op[i] = "send"
    BY <1>1, <1>3, <1>4, <1>5, <2>2 DEF SendFits, SendMove, Early, Logging, Caught
  <2>3. QED
    BY <2>1, <2>2
<1>7. SendInv'
  BY <1>2, <1>3, <1>6, OthersKeepFitting DEF SendInv
<1>8. QED
  BY <1>2, <1>3, <1>7

LEMMA CrashFits ==
  ASSUME IInv, SendInv, Crash
  PROVE  /\ \A j \in CallIds : Attempt(j)' = Attempt(j)
         /\ mailed' = mailed
         /\ SendInv'
<1>1. /\ UNCHANGED <<store, op, db, audit, mailed>>
      /\ \A j \in CallIds : pc'[j] = "lost" \/ pc'[j] = pc[j]
  BY CrashEffect DEF asked
<1>2. \A j \in CallIds : Attempt(j)' = Attempt(j)
  BY <1>1, Said DEF Attempt, MemoryAttempt, Latest
<1>3. QED
  BY <1>1, <1>2 DEF SendInv, SendFits, Early, Logging

LEMMA SendStep ==
  ASSUME IInv, SendInv, [Next]_vars
  PROVE  SendInv'
<1>1. CASE Crash
  BY <1>1, CrashFits
<1>2. CASE \E i \in CallIds : CallStep(i)
  BY <1>2, Effects, NotedFits, GivenFits, QuietFits
<1>3. CASE UNCHANGED vars
  <2>1. \A j \in CallIds : Attempt(j)' = Attempt(j)
    BY <1>3, Said DEF vars, asked, Attempt, MemoryAttempt, Latest
  <2>2. QED
    BY <1>3, <2>1 DEF vars, asked, SendInv, SendFits
<1>4. QED
  BY <1>1, <1>2, <1>3 DEF Next

LEMMA SendInvariance == Spec => [](IInv /\ SendInv)
<1>1. Init => SendInv
  BY SendInit
<1>2. QED
  BY <1>1, Invariance, SendStep, PTL DEF Spec

\* Whatever else the API does meanwhile: an attempt is shown as accepted only
\* when the SMTP server has taken its mail, and a send that was answered 202 is
\* shown as accepted by every read of either store.
THEOREM AcceptedMails == Spec => []AcceptedIsMailed
<1>1. ASSUME IInv, SendInv PROVE AcceptedIsMailed
  <2>1. SUFFICES ASSUME NEW i \in CallIds
                 PROVE  /\ Attempt(i) = "accepted" => mailed[i] = 1
                        /\ op[i] = "send" /\ pc[i] = "ok" =>
                             LET item == [call |-> i, status |-> "accepted"]
                             IN  /\ Attempt(i) = "accepted"
                                 /\ item \in TenantAttempts
                                 /\ item \in AdminAttempts("accepted")
                                 /\ \A other \in AdminAttempts("queued") : other.call # i
    BY DEF AcceptedIsMailed
  <2>2. SendFits(i)
    BY <1>1 DEF SendInv
  <2>3. Attempt(i) = "accepted" => mailed[i] = 1
    BY <2>2 DEF SendFits, Fits
  <2>. DEFINE item == [call |-> i, status |-> "accepted"]
  <2>4. ASSUME op[i] = "send", pc[i] = "ok"
        PROVE  /\ Attempt(i) = "accepted"
               /\ item \in TenantAttempts
               /\ item \in AdminAttempts("accepted")
               /\ \A other \in AdminAttempts("queued") : other.call # i
    <3>1. Attempt(i) = "accepted"
      BY <2>2, <2>4 DEF SendFits, Logging
    <3>2. CASE store = "memory"
      BY <3>1, <3>2 DEF Attempt, MemoryAttempt, TenantAttempts, MemoryTenantAttempts,
         AdminAttempts, MemoryAdminAttempts
    <3>3. CASE store # "memory"
      <4>1. Latest(i) # {} /\ StatusOf(CHOOSE a \in Latest(i) : TRUE) = "accepted"
        BY <3>1, <3>3 DEF Attempt, PgAttempt
      <4>2. PICK a \in Latest(i) : StatusOf(a) = "accepted"
        BY <4>1
      <4>3. \A b \in Latest(i) : b = a
        BY OneNewest
      <4>4. item \in PgTenantAttempts
        BY <4>2 DEF PgTenantAttempts
      <4>5. \A other \in PgTenantAttempts : other.call = i => other.status = "accepted"
        BY <4>2, <4>3 DEF PgTenantAttempts
      <4>6. QED
        BY <3>1, <3>3, <4>4, <4>5 DEF TenantAttempts, AdminAttempts, PgAdminAttempts
    <3>4. QED
      BY <3>2, <3>3
  <2>5. QED
    BY <2>3, <2>4
<1>2. QED
  BY <1>1, SendInvariance, PTL

-----------------------------------------------------------------------------
(* The refinement.                                                         *)

Shows == [i \in CallIds |-> Attempt(i)]

Ended == {i \in CallIds : pc[i] \in Over}

LEMMA AloneEnds ==
  ASSUME NEW i \in CallIds, Alone(i)
  PROVE  /\ i \notin Ended
         /\ Ended' = IF pc'[i] \in Over THEN Ended \cup {i} ELSE Ended
BY DEF Alone, Ended

\* A step that leaves the attempts and the mails alone only ends calls.
LEMMA EndMapped ==
  ASSUME \A j \in CallIds : Attempt(j)' = Attempt(j), mailed' = mailed,
         Ended \subseteq Ended'
  PROVE  Promise!Next
<1>1. Shows' = Shows
  BY DEF Shows
<1>2. Ended' \in SUBSET CallIds /\ Ended' = Ended \cup Ended'
  BY DEF Ended
<1>3. Promise!End
  BY <1>1, <1>2 DEF Promise!End, Shows, Ended
<1>4. QED
  BY <1>3 DEF Promise!Next

LEMMA NotedMapped ==
  ASSUME IInv, SendInv, NEW i \in CallIds, Alone(i), Noting(i)
  PROVE  Promise!Next
<1>1. mailed' = mailed
  BY DEF Noting, Creating, Accepting, Failing, Notes
<1>2. i \notin Ended /\ Ended' = IF pc'[i] \in Over THEN Ended \cup {i} ELSE Ended
  BY AloneEnds
<1>3. ASSUME NEW status, Attempt(i)' = status,
             \A j \in CallIds \ {i} : Attempt(j)' = Attempt(j)
      PROVE  Shows' = [Shows EXCEPT ![i] = status]
  BY <1>3 DEF Shows
<1>4. \A j \in CallIds \ {i} : Attempt(j)' = Attempt(j)
  BY NotedFits
<1>5. CASE Creating(i)
  <2>1. Attempt(i) = "none" /\ Shows' = [Shows EXCEPT ![i] = "queued"]
    BY <1>3, <1>4, <1>5, NotedFits
  <2>2. Ended' = Ended
    BY <1>2, <1>5 DEF Creating, Notes, Over
  <2>3. Promise!Create(i)
    BY <1>1, <1>2, <2>1, <2>2 DEF Promise!Create, Shows, Ended
  <2>4. QED
    BY <2>3 DEF Promise!Next
<1>6. CASE Accepting(i)
  <2>1. /\ Attempt(i) = "queued" /\ mailed[i] = 1
        /\ Shows' = [Shows EXCEPT ![i] = "accepted"]
    BY <1>3, <1>4, <1>6, NotedFits
  <2>2. Ended' = Ended
    BY <1>2, <1>6 DEF Accepting, Notes, Over
  <2>3. Promise!Accept(i)
    BY <1>1, <1>2, <2>1, <2>2 DEF Promise!Accept, Shows, Ended
  <2>4. QED
    BY <2>3 DEF Promise!Next
<1>7. CASE Failing(i)
  <2>1. /\ Attempt(i) \in {"queued", "accepted"}
        /\ Shows' = [Shows EXCEPT ![i] = "failed"]
    BY <1>3, <1>4, <1>7, NotedFits
  <2>2. Ended' = Ended \cup {i}
    BY <1>2, <1>7 DEF Failing, Notes, Over
  <2>3. Promise!Fail(i)
    BY <1>1, <1>2, <2>1, <2>2 DEF Promise!Fail, Shows, Ended
  <2>4. QED
    BY <2>3 DEF Promise!Next
<1>8. QED
  BY <1>5, <1>6, <1>7 DEF Noting

LEMMA GivenMapped ==
  ASSUME IInv, SendInv, NEW i \in CallIds, Alone(i), Giving(i)
  PROVE  Promise!Next
<1>1. /\ Attempt(i) = "queued" /\ mailed[i] = 0 /\ mailed' = [mailed EXCEPT ![i] = 1]
      /\ \A j \in CallIds : Attempt(j)' = Attempt(j)
  BY GivenFits
<1>2. Shows' = Shows
  BY <1>1 DEF Shows
<1>3. i \notin Ended /\ Ended' = Ended
  BY AloneEnds DEF Giving, Over
<1>4. Promise!Give(i)
  BY <1>1, <1>2, <1>3 DEF Promise!Give, Shows, Ended
<1>5. QED
  BY <1>4 DEF Promise!Next

LEMMA StepMapped ==
  ASSUME IInv, SendInv, [Next]_vars
  PROVE  [Promise!Next]_(Promise!vars)
<1>1. CASE Crash
  <2>1. Ended \subseteq Ended'
    BY <1>1, CrashEffect DEF Ended, Running, Over
  <2>2. QED
    BY <1>1, <2>1, CrashFits, EndMapped
<1>2. CASE \E i \in CallIds : CallStep(i)
  <2>1. PICK i \in CallIds : Alone(i) /\ Effect(i)
    BY <1>2, Effects
  <2>2. CASE Noting(i)
    BY <2>1, <2>2, NotedMapped
  <2>3. CASE Giving(i)
    BY <2>1, <2>3, GivenMapped
  <2>4. CASE ~Noting(i) /\ ~Giving(i)
    <3>1. Ended \subseteq Ended'
      BY <2>1, AloneEnds
    <3>2. QED
      BY <2>1, <2>4, <3>1, QuietFits, EndMapped
  <2>5. QED
    BY <2>2, <2>3, <2>4
<1>3. CASE UNCHANGED vars
  <2>1. \A j \in CallIds : Attempt(j)' = Attempt(j)
    BY <1>3, Said DEF vars, asked, Attempt, MemoryAttempt, Latest
  <2>2. mailed' = mailed /\ Ended \subseteq Ended'
    BY <1>3 DEF vars, Ended
  <2>3. QED
    BY <2>1, <2>2, EndMapped
<1>4. QED
  BY <1>1, <1>2, <1>3 DEF Next

LEMMA InitMapped ==
  ASSUME Init
  PROVE  Promise!Init
<1>1. \A i \in CallIds : Attempt(i) = "none" /\ pc[i] = "unborn"
  BY SendInit
<1>2. [i \in CallIds |-> Attempt(i)] = [i \in CallIds |-> "none"]
  BY <1>1
<1>3. mailed = [i \in CallIds |-> 0]
  BY DEF Init, CallsInit
<1>4. {i \in CallIds : pc[i] \in Over} = {}
  BY <1>1 DEF Over
<1>5. QED
  BY <1>2, <1>3, <1>4 DEF Promise!Init

\* Every step of every call, and every restart, is a step of the abstract
\* attempt or leaves it alone: a mail is submitted at most once and only while
\* its attempt is queued, accepted only once submitted, and what the attempt
\* says when its call is over it says for good.
THEOREM SendsSubmitOnce == Spec => ImplementsSubmitOnce
<1>1. Init => Promise!Init
  BY InitMapped
<1>2. IInv /\ SendInv /\ [Next]_vars => [Promise!Next]_(Promise!vars)
  BY StepMapped
<1>3. Spec => Promise!Spec
  BY <1>1, <1>2, SendInvariance, PTL DEF Spec, Promise!Spec
<1>4. QED
  BY <1>3 DEF ImplementsSubmitOnce

-----------------------------------------------------------------------------
(* The log tells the truth.                                                *)

EventActions == {"message.reparse", "message.parsed"}

ArgsFit == \A i \in CallIds : arg[i] \in Args(op[i])

\* A change that waits for its row has been made.
WaitingRowsTrue ==
  \A i \in CallIds : op[i] \in Separate /\ pc[i] = "audit" => Truth(Row(i))

TruthInv ==
  /\ ArgsFit
  /\ \A row \in Rows : Truth(row)
  /\ WaitingRowsTrue
  /\ Len(db.events) = Cardinality(RowsOf(EventActions))

\* What a row can say stays as it is said.
Lasting ==
  /\ db.status = "suspended" => db'.status = "suspended"
  /\ db.invoice = "issued" => db'.invoice = "issued"
  /\ db.hooks \subseteq db'.hooks
  /\ db.secret # 0 => db'.secret # 0
  /\ db.policy # "none" => db'.policy # "none"
  /\ db.delivered \subseteq db'.delivered

LEMMA DoesLasting ==
  ASSUME IInv, ArgsFit, NEW i \in CallIds, Does(i) \/ Suspending(i)
  PROVE  Lasting
<1>1. db \in Tables
  BY DEF IInv, Types
<1>2. CASE op[i] = "upsertPolicy" /\ db' = [db EXCEPT !.policy = arg[i]]
  <2>1. arg[i] \in {"deny", "remove"}
    BY <1>2 DEF ArgsFit, Args
  <2>2. QED
    BY <1>1, <1>2, <2>1 DEF Lasting, Tables
<1>3. CASE op[i] \in {"rotateSecret", "adminRotate"} /\ db' = [db EXCEPT !.secret = i]
  <2>1. i # 0
    BY MaxCallsAssumption DEF CallIds
  <2>2. QED
    BY <1>1, <1>3, <2>1 DEF Lasting, Tables
<1>4. CASE db' = Patched(i) \/ Suspending(i)
  BY <1>1, <1>4 DEF Lasting, Suspending, Patched, Tables
<1>5. CASE db' = [db EXCEPT !.invoice = "issued"] \/ db' = NewHook(i)
  BY <1>1, <1>5 DEF Lasting, NewHook, Tables
<1>6. CASE db' \in {Pinged({0}), Pinged(db.hooks)} \/ db' = Delivered(i)
  BY <1>1, <1>6 DEF Lasting, Pinged, Delivered, Tables
<1>7. CASE \E status : db' = Event(status)
  BY <1>1, <1>7 DEF Lasting, Event, Tables
<1>8. QED
  BY <1>2, <1>3, <1>4, <1>5, <1>6, <1>7 DEF Does

LEMMA EffectLasting ==
  ASSUME IInv, ArgsFit, NEW i \in CallIds, Effect(i)
  PROVE  Lasting
<1>1. CASE Changing(i) \/ DoingBoth(i) \/ Suspending(i)
  BY <1>1, DoesLasting DEF Changing, DoingBoth
<1>2. CASE Storing(i) \/ Metering(i)
  BY <1>2 DEF Storing, Metering, Lasting, IInv, Types, Tables
<1>3. CASE Creating(i) \/ Accepting(i) \/ Failing(i)
  <2>1. db \in Tables
    BY DEF IInv, Types
  <2>2. db' = db \/ \E to : db' = [db EXCEPT !.attempt = [db.attempt EXCEPT ![i] = to]]
    BY <1>3 DEF Creating, Accepting, Failing, Notes
  <2>3. QED
    BY <2>1, <2>2 DEF Lasting, Tables
<1>4. CASE Passing(i) \/ Recording(i) \/ Giving(i)
  BY <1>4 DEF Passing, Recording, Giving, Lasting
<1>5. QED
  BY <1>1, <1>2, <1>3, <1>4 DEF Effect

\* The log after the step of a call.
LEMMA EffectLogs ==
  ASSUME IInv, NEW i \in CallIds, Effect(i)
  PROVE  \/ audit' = audit
         \/ \E e \in AuditRow : /\ Logs(e) /\ Rows' = Rows \cup {e}
                                /\ \/ Recording(i) /\ e = Row(i)
                                   \/ DoingBoth(i) /\ e = Row(i)
                                   \/ Creating(i) /\ e = Entry(i, "send_attempt.created", TRUE)
                                   \/ Accepting(i) /\ e = Entry(i, "send_attempt.completed", TRUE)
                                   \/ Failing(i) /\ e = Entry(i, "send_attempt.failed", TRUE)
<1>1. ASSUME NEW e \in AuditRow, Logs(e)
      PROVE  Rows' = Rows \cup {e}
  BY <1>1, InsertedSet DEF Logs
<1>2. CASE Recording(i) \/ DoingBoth(i)
  <2>1. Row(i) \in AuditRow /\ Logs(Row(i))
    BY <1>2, RowType DEF Recording, DoingBoth, Separate, Commands, IInv
  <2>2. QED
    BY <1>1, <1>2, <2>1
<1>3. ASSUME NEW s, NEW to, NEW action \in SendActions, NEW status,
             Notes(i, s, to, action, status)
      PROVE  /\ Entry(i, action, TRUE) \in AuditRow /\ Logs(Entry(i, action, TRUE))
             /\ Rows' = Rows \cup {Entry(i, action, TRUE)}
  <2>1. Entry(i, action, TRUE) \in AuditRow
    BY SendEntryType
  <2>2. Logs(Entry(i, action, TRUE))
    BY <1>3, <2>1, AppendLogs DEF Notes
  <2>3. QED
    BY <1>1, <2>1, <2>2
<1>4. CASE Creating(i)
  <2>1. "send_attempt.created" \in SendActions
    BY DEF SendActions
  <2>2. QED
    BY <1>3, <1>4, <2>1 DEF Creating
<1>5. CASE Accepting(i)
  <2>1. "send_attempt.completed" \in SendActions
    BY DEF SendActions
  <2>2. QED
    BY <1>3, <1>5, <2>1 DEF Accepting
<1>6. CASE Failing(i)
  <2>1. "send_attempt.failed" \in SendActions
    BY DEF SendActions
  <2>2. QED
    BY <1>3, <1>6, <2>1 DEF Failing
<1>7. CASE Passing(i) \/ Suspending(i) \/ Changing(i) \/ Storing(i) \/ Giving(i) \/ Metering(i)
  BY <1>7 DEF Passing, Suspending, Changing, Storing, Giving, Metering
<1>8. QED
  BY <1>2, <1>4, <1>5, <1>6, <1>7 DEF Effect

LEMMA TruthLasts ==
  ASSUME IInv, SendInv, Lasting, Rows \subseteq Rows', UNCHANGED <<store, v2>>,
         \A j \in CallIds : mailed[j] = 1 => mailed'[j] = 1,
         NEW row \in AuditRow, Truth(row)
  PROVE  Truth(row)'
<1>1. DeliveryRows \subseteq DeliveryRows'
  <2>1. CASE store = "memory" \/ v2
    BY <2>1 DEF DeliveryRows, Lasting
  <2>2. CASE ~(store = "memory" \/ v2)
    <3>1. /\ DeliveryRows = {r.call : r \in {q \in Rows : q.action = "webhook.deliver"}}
          /\ DeliveryRows' = {r.call : r \in {q \in Rows' : q.action = "webhook.deliver"}}
      BY <2>2 DEF DeliveryRows, Rows
    <3>2. QED
      BY <3>1
  <2>3. QED
    BY <2>1, <2>2
<1>2. row.call \in CallIds
  BY DEF AuditRow
<1>3. QED
  BY <1>1, <1>2 DEF Truth, Lasting

LEMMA DoneIsTrue ==
  ASSUME IInv, ArgsFit, NEW i \in CallIds, op[i] \in Commands, Does(i),
         UNCHANGED <<store, v2>>,
         op[i] \in Separate \/ Row(i) \in Rows',
         NEW row, row = Row(i)
  PROVE  Truth(row)'
<1>1. db \in Tables /\ row.call = i /\ row.action = LoggedAs(i)
  BY DEF IInv, Types, Row, Entry
<1>2. CASE op[i] = "patchTenant"
  BY <1>1, <1>2 DEF Does, Patched, LoggedAs, Truth, Tables
<1>3. CASE op[i] = "issueInvoice"
  BY <1>1, <1>3 DEF Does, LoggedAs, Truth, Tables
<1>4. CASE op[i] = "createWebhook"
  BY <1>1, <1>4 DEF Does, NewHook, LoggedAs, Truth, Tables
<1>5. CASE op[i] \in {"rotateSecret", "adminRotate"}
  <2>1. i # 0
    BY MaxCallsAssumption DEF CallIds
  <2>2. QED
    BY <1>1, <1>5, <2>1 DEF Does, LoggedAs, Truth, Tables
<1>6. CASE op[i] = "upsertPolicy"
  <2>1. arg[i] \in {"deny", "remove"}
    BY <1>6 DEF ArgsFit, Args
  <2>2. QED
    BY <1>1, <1>6, <2>1 DEF Does, LoggedAs, Truth, Tables
<1>7. CASE op[i] = "deliver"
  <2>1. row.action = "webhook.deliver"
    BY <1>1, <1>7 DEF LoggedAs
  <2>2. i \in DeliveryRows'
    <3>1. CASE store = "memory" \/ v2
      <4>1. db' = Delivered(i)
        BY <1>7 DEF Does
      <4>2. db'.delivered = db.delivered \cup {i}
        BY <1>1, <3>1, <4>1 DEF Delivered, Tables
      <4>3. QED
        BY <3>1, <4>2 DEF DeliveryRows
    <3>2. CASE ~(store = "memory" \/ v2)
      <4>1. PICK n \in 1..Len(audit') : audit'[n] = row
        BY <1>7 DEF Rows, Separate
      <4>2. QED
        BY <1>1, <2>1, <3>2, <4>1 DEF DeliveryRows
    <3>3. QED
      BY <3>1, <3>2
  <2>3. QED
    BY <1>1, <2>1, <2>2 DEF Truth
<1>8. CASE op[i] \in {"replayWebhook", "replayMessage", "reparse", "parse"}
  BY <1>1, <1>8 DEF LoggedAs, Truth
<1>9. QED
  BY <1>2, <1>3, <1>4, <1>5, <1>6, <1>7, <1>8 DEF Commands, Logged

-----------------------------------------------------------------------------
(* As many events as rows.                                                 *)

LEMMA RowsOfFinite ==
  ASSUME IInv, NEW actions
  PROVE  /\ IsFiniteSet(RowsOf(actions)) /\ Cardinality(RowsOf(actions)) \in Nat
         /\ RowsOf(actions) \in SUBSET Nat
<1>1. Len(audit) \in Nat
  BY DEF IInv, Types
<1>2. IsFiniteSet(1..Len(audit)) /\ RowsOf(actions) \subseteq 1..Len(audit)
  BY <1>1, FS_Interval DEF RowsOf
<1>3. QED
  BY <1>1, <1>2, FS_Subset, FS_CardinalityType

LEMMA RowsOfInserted ==
  ASSUME IInv, NEW p, NEW e, Inserted(p, e), NEW actions
  PROVE  Cardinality(RowsOf(actions)') =
           Cardinality(RowsOf(actions)) + IF e.action \in actions THEN 1 ELSE 0
<1>. DEFINE S == {Shift(p, n) : n \in RowsOf(actions)}
<1>1. p \in Nat
  BY ShiftedRows
<1>2. IsFiniteSet(S) /\ Cardinality(S) = Cardinality(RowsOf(actions))
  BY <1>1, ShiftCounts, RowsOfFinite
<1>3. p \notin S
  BY ShiftedRows DEF RowsOf
<1>4. \A n \in 1..Len(audit) : n \in RowsOf(actions) <=> Shift(p, n) \in RowsOf(actions)'
  BY ShiftedRows DEF RowsOf
<1>5. p \in RowsOf(actions)' <=> e.action \in actions
  BY ShiftedRows DEF RowsOf
<1>6. RowsOf(actions)' = IF e.action \in actions THEN S \cup {p} ELSE S
  BY <1>4, <1>5, ShiftedRows DEF RowsOf
<1>. HIDE DEF S
<1>7. Cardinality(S \cup {p}) = Cardinality(S) + 1
  BY <1>2, <1>3, FS_AddElement
<1>8. QED
  BY <1>2, <1>6, <1>7, RowsOfFinite

LEMMA DoesEvents ==
  ASSUME IInv, NEW i \in CallIds, Does(i) \/ Suspending(i)
  PROVE  IF op[i] \in {"parse", "reparse"} THEN Len(db'.events) = Len(db.events) + 1
                                           ELSE db'.events = db.events
<1>1. db \in Tables /\ db.events \in Seq(Inputs)
  BY DEF IInv, Types, Tables
<1>2. CASE op[i] \in {"parse", "reparse"}
  <2>1. PICK status \in Inputs : db' = Event(status)
    BY <1>2 DEF Does, Suspending, Inputs, IInv, Types
  <2>2. db'.events = Append(db.events, status)
    BY <1>1, <2>1 DEF Event, Tables
  <2>3. QED
    BY <1>1, <1>2, <2>2
<1>3. CASE op[i] \notin {"parse", "reparse"}
  BY <1>1, <1>3 DEF Does, Suspending, Patched, Pinged, NewHook, Delivered, Tables
<1>4. QED
  BY <1>2, <1>3

LEMMA EventsStep ==
  ASSUME IInv, Len(db.events) = Cardinality(RowsOf(EventActions)),
         NEW i \in CallIds, Effect(i)
  PROVE  Len(db'.events) = Cardinality(RowsOf(EventActions)')
<1>1. Len(db.events) \in Nat
  BY DEF IInv, Types, Tables
<1>2. CASE DoingBoth(i)
  <2>1. PICK p \in Nat : Inserted(p, Row(i))
    BY <1>2 DEF DoingBoth, Logs
  <2>2. Row(i).action \in EventActions <=> op[i] \in {"parse", "reparse"}
    BY <1>2 DEF DoingBoth, Row, Entry, LoggedAs, EventActions, Commands, Logged
  <2>3. IF op[i] \in {"parse", "reparse"} THEN Len(db'.events) = Len(db.events) + 1
                                          ELSE db'.events = db.events
    BY <1>2, DoesEvents DEF DoingBoth
  <2>4. QED
    BY <1>1, <2>1, <2>2, <2>3, RowsOfInserted
<1>3. CASE ~DoingBoth(i)
  <2>1. db'.events = db.events
    <3>1. CASE Changing(i) \/ Suspending(i)
      BY <3>1, DoesEvents DEF Changing, Suspending, Separate
    <3>2. CASE Storing(i) \/ Metering(i)
      BY <3>2 DEF Storing, Metering, IInv, Types, Tables
    <3>3. CASE Creating(i) \/ Accepting(i) \/ Failing(i)
      BY <3>3 DEF Creating, Accepting, Failing, Notes, IInv, Types, Tables
    <3>4. CASE Passing(i) \/ Recording(i) \/ Giving(i)
      BY <3>4 DEF Passing, Recording, Giving
    <3>5. QED
      BY <1>3, <3>1, <3>2, <3>3, <3>4 DEF Effect
  <2>2. CASE audit' = audit
    BY <2>1, <2>2 DEF RowsOf
  <2>3. CASE audit' # audit
    <3>1. PICK e \in AuditRow : /\ Logs(e)
                                /\ \/ Recording(i) /\ e = Row(i)
                                   \/ \E a \in SendActions : e = Entry(i, a, TRUE)
      BY <1>3, <2>3, EffectLogs DEF SendActions
    <3>2. e.action \notin EventActions
      BY <3>1 DEF Recording, Row, Entry, LoggedAs, EventActions, Separate, Commands,
         Logged, SendActions
    <3>3. QED
      BY <1>1, <2>1, <3>1, <3>2, RowsOfInserted, RowsOfFinite DEF Logs
  <2>4. QED
    BY <2>2, <2>3
<1>4. QED
  BY <1>2, <1>3

-----------------------------------------------------------------------------

LEMMA MailedLasts ==
  ASSUME IInv, SendInv, NEW i \in CallIds, Alone(i), Effect(i)
  PROVE  \A j \in CallIds : mailed[j] = 1 => mailed'[j] = 1
<1>1. CASE Giving(i)
  <2>1. mailed' = [mailed EXCEPT ![i] = 1]
    BY <1>1, GivenFits
  <2>2. QED
    BY <2>1 DEF IInv, Types
<1>2. CASE ~Giving(i)
  BY <1>2 DEF Effect, Passing, Suspending, Changing, Recording, DoingBoth, Storing,
     Creating, Accepting, Failing, Notes, Metering
<1>3. QED
  BY <1>1, <1>2

LEMMA TruthCallStep ==
  ASSUME IInv, SendInv, TruthInv, NEW i \in CallIds, CallStep(i)
  PROVE  TruthInv'
<1>1. Alone(i) /\ Effect(i)
  BY Effects
<1>2. UNCHANGED <<store, op, arg, v2>> /\ \A j \in CallIds \ {i} : pc'[j] = pc[j]
  BY <1>1 DEF Alone, asked
<1>3. ArgsFit'
  BY <1>2 DEF TruthInv, ArgsFit
<1>4. Lasting
  BY <1>1, EffectLasting DEF TruthInv
<1>5. \A j \in CallIds : mailed[j] = 1 => mailed'[j] = 1
  BY <1>1, MailedLasts
<1>6. Rows \subseteq Rows'
  <2>1. CASE audit' = audit
    BY <2>1 DEF Rows
  <2>2. QED
    BY <1>1, <2>1, EffectLogs
<1>7. \A row \in AuditRow : Truth(row) => Truth(row)'
  BY <1>2, <1>4, <1>5, <1>6, TruthLasts
<1>8. \A j \in CallIds : Row(j)' = Row(j)
  BY <1>2 DEF Row, Entry, LoggedAs
<1>9. ASSUME NEW row, row = Row(i), Changing(i) \/ DoingBoth(i)
      PROVE  Truth(row)'
  <2>1. op[i] \in Commands /\ Does(i)
    BY <1>9 DEF Changing, DoingBoth, Separate
  <2>2. op[i] \in Separate \/ Row(i) \in Rows'
    BY <1>9, InsertedSet DEF Changing, DoingBoth, Logs
  <2>3. QED
    BY <1>2, <1>9, <2>1, <2>2, DoneIsTrue DEF TruthInv
<1>10. \A row \in Rows' : Truth(row)'
  <2>1. SUFFICES ASSUME NEW row \in Rows' PROVE Truth(row)'
    OBVIOUS
  <2>2. CASE row \in Rows
    <3>1. row \in AuditRow
      BY <2>2 DEF Rows, IInv, Types
    <3>2. QED
      BY <1>7, <2>2, <3>1 DEF TruthInv
  <2>3. CASE row \notin Rows
    <3>1. audit' # audit
      BY <2>3 DEF Rows
    <3>2. /\ row \in AuditRow
          /\ \/ Recording(i) /\ row = Row(i)
             \/ DoingBoth(i) /\ row = Row(i)
             \/ Creating(i) /\ row = Entry(i, "send_attempt.created", TRUE)
             \/ Accepting(i) /\ row = Entry(i, "send_attempt.completed", TRUE)
             \/ Failing(i) /\ row = Entry(i, "send_attempt.failed", TRUE)
      BY <1>1, <2>3, <3>1, EffectLogs
    <3>3. CASE Recording(i) /\ row = Row(i)
      <4>1. Truth(row)
        BY <3>3 DEF Recording, TruthInv, WaitingRowsTrue
      <4>2. QED
        BY <1>7, <3>2, <4>1
    <3>4. CASE DoingBoth(i) /\ row = Row(i)
      BY <1>9, <3>4
    <3>5. CASE Creating(i) /\ row = Entry(i, "send_attempt.created", TRUE)
      <4>1. row.action = "send_attempt.created"
        BY <3>5 DEF Entry
      <4>2. QED
        BY <4>1 DEF Truth
    <3>6. CASE Accepting(i) /\ row = Entry(i, "send_attempt.completed", TRUE)
      <4>1. row.action = "send_attempt.completed" /\ row.call = i
        BY <3>6 DEF Entry
      <4>2. mailed'[i] = 1
        BY <1>1, <3>6, NotedFits DEF Noting
      <4>3. QED
        BY <4>1, <4>2 DEF Truth
    <3>7. CASE Failing(i) /\ row = Entry(i, "send_attempt.failed", TRUE)
      <4>1. row.action = "send_attempt.failed"
        BY <3>7 DEF Entry
      <4>2. QED
        BY <4>1 DEF Truth
    <3>8. QED
      BY <3>2, <3>3, <3>4, <3>5, <3>6, <3>7
  <2>4. QED
    BY <2>2, <2>3
<1>11. WaitingRowsTrue'
  <2>1. SUFFICES ASSUME NEW j \in CallIds, op[j] \in Separate, pc'[j] = "audit",
                        NEW row, row = Row(j)
                 PROVE  Truth(row)'
    BY <1>2, <1>8 DEF WaitingRowsTrue
  <2>2. row \in AuditRow
    BY <2>1, RowType DEF Separate, Commands, IInv
  <2>3. CASE pc[j] = "audit"
    BY <1>7, <2>1, <2>2, <2>3 DEF TruthInv, WaitingRowsTrue
  <2>4. CASE pc[j] # "audit"
    <3>1. j = i
      BY <1>2, <2>1, <2>4
    <3>2. Changing(i)
      BY <1>1, <2>1, <2>4, <3>1 DEF Effect, Passing, Suspending, Recording, DoingBoth,
         Storing, Creating, Accepting, Failing, Notes, Giving, Metering, Logging
    <3>3. QED
      BY <1>9, <2>1, <3>1, <3>2
  <2>5. QED
    BY <2>3, <2>4
<1>12. Len(db'.events) = Cardinality(RowsOf(EventActions)')
  BY <1>1, EventsStep DEF TruthInv
<1>13. QED
  BY <1>3, <1>10, <1>11, <1>12 DEF TruthInv

LEMMA TruthStep ==
  ASSUME IInv, SendInv, TruthInv, [Next]_vars
  PROVE  TruthInv'
<1>1. CASE \E i \in CallIds : CallStep(i)
  BY <1>1, TruthCallStep
<1>2. CASE Crash \/ UNCHANGED vars
  <2>1. /\ UNCHANGED <<store, op, arg, v2, db, audit, mailed>>
        /\ \A j \in CallIds : pc'[j] = "lost" \/ pc'[j] = pc[j]
    BY <1>2, CrashEffect DEF vars, asked
  <2>2. \A row : Truth(row)' <=> Truth(row)
    BY <2>1 DEF Truth, DeliveryRows
  <2>3. \A j \in CallIds : Row(j)' = Row(j)
    BY <2>1 DEF Row, Entry, LoggedAs
  <2>4. ArgsFit' /\ (\A row \in Rows' : Truth(row)')
    BY <2>1, <2>2 DEF TruthInv, ArgsFit, Rows
  <2>5. WaitingRowsTrue'
    <3>1. SUFFICES ASSUME NEW j \in CallIds, op[j] \in Separate, pc'[j] = "audit",
                          NEW row, row = Row(j)
                   PROVE  Truth(row)'
      BY <2>1, <2>3 DEF WaitingRowsTrue
    <3>2. QED
      BY <2>1, <2>2, <3>1 DEF TruthInv, WaitingRowsTrue
  <2>6. Len(db'.events) = Cardinality(RowsOf(EventActions)')
    BY <2>1 DEF TruthInv, RowsOf
  <2>7. QED
    BY <2>4, <2>5, <2>6 DEF TruthInv
<1>3. QED
  BY <1>1, <1>2 DEF Next

LEMMA TruthInit ==
  ASSUME Init
  PROVE  TruthInv
<1>1. audit = <<>> /\ db.events = <<>> /\ \A i \in CallIds : pc[i] = "unborn"
  BY DEF Init, CallsInit, InitialDb
<1>2. ArgsFit
  <2>1. PICK calls \in Menu : /\ op = [i \in CallIds |-> calls[i].op]
                             /\ arg = [i \in CallIds |-> calls[i].arg]
    BY DEF Init
  <2>2. QED
    BY <2>1, MenuAssumption DEF ArgsFit
<1>3. Rows = {} /\ RowsOf(EventActions) = {}
  BY <1>1 DEF Rows, RowsOf
<1>4. Len(db.events) = Cardinality(RowsOf(EventActions))
  BY <1>1, <1>3, FS_EmptySet
<1>5. QED
  BY <1>1, <1>2, <1>3, <1>4 DEF TruthInv, WaitingRowsTrue

LEMMA TruthInvariance == Spec => [](IInv /\ SendInv /\ TruthInv)
<1>1. Init => TruthInv
  BY TruthInit
<1>2. QED
  BY <1>1, SendInvariance, TruthStep, PTL DEF Spec

\* The log tells of nothing that has not happened, for any calls over either
\* store: every row follows its change, and the parses and reparses have
\* written as many events as rows.
THEOREM LogIsTrue == Spec => []AuditTellsTruth
<1>1. ASSUME IInv, TruthInv PROVE AuditTellsTruth
  BY <1>1 DEF TruthInv, AuditTellsTruth, Rows, EventActions
<1>2. QED
  BY <1>1, TruthInvariance, PTL

-----------------------------------------------------------------------------
(* What is answered is shown.                                              *)

\* A command that has changed what it is for.
Made(i) == op[i] \in Commands /\ pc[i] \in Logging \cup {"audit"}

Evident(i) ==
  /\ op[i] = "patchTenant" =>
       /\ db.status = "suspended"
       /\ arg[i] = "form" => db.qps = "new" /\ db.limit = "new"
  /\ op[i] = "issueInvoice" => db.invoice = "issued"
  /\ op[i] = "createWebhook" => i \in db.hooks
  /\ Unrivalled(i) =>
       /\ op[i] \in {"rotateSecret", "adminRotate"} => db.secret = i
       /\ op[i] = "deliver" => db.code[0] = arg[i]
       /\ op[i] = "upsertPolicy" => db.policy = arg[i]
       /\ op[i] = "reparse" => db.events = <<"parsed">>
       /\ op[i] = "parse" => db.events = <<arg[i]>>

\* The message has no event while the only call about it has not ended.
Untold(i) ==
  op[i] \in {"parse", "reparse"} /\ Unrivalled(i)
    /\ pc[i] \notin Logging \cup {"failed", "lost"} => db.events = <<>>

VisibleInv ==
  /\ 0 \in db.hooks
  /\ \A h \in 1..MaxCalls : db.code[h] \in {"none", "ok"}
  /\ \A i \in CallIds : (Made(i) => Evident(i)) /\ Untold(i)

\* What a call can change is what it is about.
LEMMA AboutSubject ==
  ASSUME IInv, NEW i \in CallIds, Effect(i)
  PROVE  /\ Subject(op[i]) # "secret" => db'.secret = db.secret
         /\ Subject(op[i]) # "code" => db'.code = db.code
         /\ Subject(op[i]) # "message" => db'.events = db.events
         /\ Subject(op[i]) # "upsertPolicy" => db'.policy = db.policy
         /\ db.qps = "new" => db'.qps = "new"
         /\ db.limit = "new" => db'.limit = "new"
<1>1. db \in Tables
  BY DEF IInv, Types
<1>2. CASE Does(i) \/ Suspending(i)
  <2>1. CASE db' = Patched(i) \/ Suspending(i)
    BY <1>1, <2>1 DEF Suspending, Patched, Tables
  <2>2. CASE db' = [db EXCEPT !.invoice = "issued"] \/ db' = NewHook(i)
    BY <1>1, <2>2 DEF NewHook, Tables
  <2>3. CASE op[i] = "upsertPolicy" /\ db' = [db EXCEPT !.policy = arg[i]]
    BY <1>1, <2>3 DEF Subject, Tables
  <2>4. CASE op[i] \in {"rotateSecret", "adminRotate"} /\ db' = [db EXCEPT !.secret = i]
    BY <1>1, <2>4 DEF Subject, Tables
  <2>5. CASE op[i] \in {"replayWebhook", "replayMessage"}
             /\ db' \in {Pinged({0}), Pinged(db.hooks)}
    BY <1>1, <2>5 DEF Subject, Pinged, Tables
  <2>6. CASE op[i] = "deliver" /\ db' = Delivered(i)
    BY <1>1, <2>6 DEF Subject, Delivered, Tables
  <2>7. CASE op[i] \in {"parse", "reparse"} /\ \E status : db' = Event(status)
    BY <1>1, <2>7 DEF Subject, Event, Tables
  <2>8. QED
    BY <1>2, <2>1, <2>2, <2>3, <2>4, <2>5, <2>6, <2>7 DEF Does
<1>3. CASE Storing(i) \/ Metering(i)
  BY <1>1, <1>3 DEF Storing, Metering, Tables
<1>4. CASE Creating(i) \/ Accepting(i) \/ Failing(i)
  BY <1>1, <1>4 DEF Creating, Accepting, Failing, Notes, Tables
<1>5. CASE Passing(i) \/ Recording(i) \/ Giving(i)
  BY <1>5 DEF Passing, Recording, Giving
<1>6. QED
  BY <1>2, <1>3, <1>4, <1>5 DEF Effect, Changing, DoingBoth

LEMMA Subjects ==
  ASSUME NEW o
  PROVE  /\ o \in {"rotateSecret", "adminRotate"} => Subject(o) = "secret"
         /\ o \in {"replayWebhook", "replayMessage", "deliver"} => Subject(o) = "code"
         /\ o \in {"parse", "reparse"} => Subject(o) = "message"
         /\ o = "upsertPolicy" => Subject(o) = "upsertPolicy"
BY DEF Subject

\* A call without a rival had none before, and is not met by what the others do.
LEMMA RivalsStay ==
  ASSUME IInv, NEW i \in CallIds, Alone(i), NEW j \in CallIds, Unrivalled(j)'
  PROVE  /\ Unrivalled(j)
         /\ i # j => Subject(op[i]) # Subject(op[j])
<1>1. op' = op /\ pc'[i] # "unborn" /\ \A k \in CallIds \ {i} : pc'[k] = pc[k]
  BY DEF Alone, asked
<1>2. \A k \in CallIds \ {j} : pc'[k] # "unborn" => Subject(op[k]) # Subject(op[j])
  BY <1>1 DEF Unrivalled
<1>3. QED
  BY <1>1, <1>2 DEF Unrivalled

LEMMA OthersStayEvident ==
  ASSUME IInv, ArgsFit, NEW i \in CallIds, Alone(i), Effect(i),
         NEW j \in CallIds, Evident(j), i # j \/ db' = db
  PROVE  Evident(j)'
<1>1. op' = op /\ arg' = arg
  BY DEF Alone, asked
<1>2. Unrivalled(j)' => Unrivalled(j) /\ (i # j => Subject(op[i]) # Subject(op[j]))
  BY RivalsStay
<1>3. CASE db' = db
  BY <1>1, <1>2, <1>3 DEF Evident
<1>4. CASE i # j
  <2>1. /\ db.status = "suspended" => db'.status = "suspended"
        /\ db.invoice = "issued" => db'.invoice = "issued"
        /\ db.hooks \subseteq db'.hooks
    BY EffectLasting DEF Lasting
  <2>2. /\ db.qps = "new" => db'.qps = "new"
        /\ db.limit = "new" => db'.limit = "new"
    BY AboutSubject
  <2>3. ASSUME Unrivalled(j)'
        PROVE  /\ op[j] \in {"rotateSecret", "adminRotate"} => db'.secret = db.secret
               /\ op[j] = "deliver" => db'.code = db.code
               /\ op[j] = "upsertPolicy" => db'.policy = db.policy
               /\ op[j] \in {"parse", "reparse"} => db'.events = db.events
    BY <1>2, <1>4, <2>3, AboutSubject, Subjects
  <2>4. QED
    BY <1>1, <1>2, <2>1, <2>2, <2>3 DEF Evident
<1>5. QED
  BY <1>3, <1>4

LEMMA DoesEvident ==
  ASSUME IInv, VisibleInv, ArgsFit, NEW i \in CallIds, Alone(i), Does(i),
         pc[i] \notin Logging \cup {"audit"}
  PROVE  Evident(i)'
<1>1. op' = op /\ arg' = arg /\ pc[i] \notin {"failed", "lost"}
  BY DEF Alone, asked, Over
<1>2. db \in Tables /\ i \in 0..MaxCalls /\ 0 \in 0..MaxCalls
  BY MaxCallsAssumption DEF IInv, Types, CallIds
<1>3. op[i] = "patchTenant" =>
        /\ db'.status = "suspended"
        /\ arg[i] = "form" => db'.qps = "new" /\ db'.limit = "new"
  BY <1>2 DEF Does, Patched, Tables
<1>4. op[i] = "issueInvoice" => db'.invoice = "issued"
  BY <1>2 DEF Does, Tables
<1>5. op[i] = "createWebhook" => i \in db'.hooks
  BY <1>2 DEF Does, NewHook, Tables
<1>6. op[i] \in {"rotateSecret", "adminRotate"} => db'.secret = i
  BY <1>2 DEF Does, Tables
<1>7. ASSUME op[i] = "deliver"
      PROVE  db'.code[0] = arg[i]
  <2>1. db' = Delivered(i)
    BY <1>7 DEF Does
  <2>2. db'.code = [db.code EXCEPT ![0] = arg[i]]
    BY <1>2, <2>1 DEF Delivered, Tables
  <2>3. QED
    BY <1>2, <2>2 DEF Tables
<1>8. op[i] = "upsertPolicy" => db'.policy = arg[i]
  BY <1>2 DEF Does, Tables
<1>9. ASSUME Unrivalled(i)', op[i] \in {"parse", "reparse"}
      PROVE  /\ op[i] = "reparse" => db'.events = <<"parsed">>
             /\ op[i] = "parse" => db'.events = <<arg[i]>>
  <2>1. db.events = <<>>
    BY <1>1, <1>9, RivalsStay DEF VisibleInv, Untold
  <2>2. PICK status : /\ db' = Event(status)
                      /\ op[i] = "reparse" => status = "parsed"
                      /\ op[i] = "parse" => status = arg[i]
    BY <1>9 DEF Does
  <2>3. db'.events = <<status>>
    BY <1>2, <2>1, <2>2 DEF Event, Tables
  <2>4. QED
    BY <2>2, <2>3
<1>10. QED
  BY <1>1, <1>3, <1>4, <1>5, <1>6, <1>7, <1>8, <1>9 DEF Evident

LEMMA CodesStep ==
  ASSUME IInv, VisibleInv, ArgsFit, NEW i \in CallIds, Effect(i)
  PROVE  /\ 0 \in db'.hooks
         /\ \A h \in 1..MaxCalls : db'.code[h] \in {"none", "ok"}
<1>1. 0 \in db'.hooks
  BY EffectLasting DEF Lasting, VisibleInv
<1>2. db \in Tables /\ \A h \in 1..MaxCalls : h \in 0..MaxCalls /\ h # 0
  BY MaxCallsAssumption DEF IInv, Types
<1>3. CASE db'.code = db.code
  BY <1>1, <1>3 DEF VisibleInv
<1>4. CASE db'.code # db.code
  <2>1. Subject(op[i]) = "code" /\ (Changing(i) \/ DoingBoth(i))
    <3>1. Subject(op[i]) = "code"
      BY <1>4, AboutSubject
    <3>2. op[i] \notin {"send", "updateSettings", "patchTenant"}
      BY <3>1 DEF Subject
    <3>3. db' # db
      BY <1>4
    <3>4. QED
      BY <3>1, <3>2, <3>3 DEF Effect, Passing, Suspending, Recording, Storing, Creating,
         Accepting, Failing, Notes, Giving, Metering
  <2>2. op[i] \in {"replayWebhook", "replayMessage", "deliver"} /\ Does(i)
    BY <2>1 DEF Subject, Changing, DoingBoth, Separate, Commands, Logged
  <2>3. CASE op[i] = "deliver"
    <3>1. db' = Delivered(i)
      BY <2>2, <2>3 DEF Does
    <3>2. db'.code = [db.code EXCEPT ![0] = arg[i]]
      BY <1>2, <3>1 DEF Delivered, Tables
    <3>3. QED
      BY <1>1, <1>2, <3>2 DEF VisibleInv, Tables
  <2>4. CASE op[i] # "deliver"
    <3>1. PICK hooks : db' = Pinged(hooks)
      BY <2>2, <2>4 DEF Does
    <3>2. db'.code = [h \in 0..MaxCalls |-> IF h \in hooks THEN "ok" ELSE db.code[h]]
      BY <1>2, <3>1 DEF Pinged, Tables
    <3>3. QED
      BY <1>1, <1>2, <3>2 DEF VisibleInv
  <2>5. QED
    BY <2>3, <2>4
<1>5. QED
  BY <1>3, <1>4

LEMMA VisibleCallStep ==
  ASSUME IInv, VisibleInv, ArgsFit, NEW i \in CallIds, Alone(i), Effect(i)
  PROVE  VisibleInv'
<1>1. op' = op /\ \A j \in CallIds \ {i} : pc'[j] = pc[j]
  BY DEF Alone, asked
<1>2. ASSUME NEW j \in CallIds, Made(j)'
      PROVE  Evident(j)'
  <2>1. op[j] \in Commands /\ pc'[j] \in Logging \cup {"audit"}
    BY <1>1, <1>2 DEF Made
  <2>2. CASE i # j
    <3>1. Made(j)
      BY <1>1, <2>1, <2>2 DEF Made
    <3>2. QED
      BY <2>2, <3>1, OthersStayEvident DEF VisibleInv
  <2>3. CASE i = j /\ (Changing(i) \/ DoingBoth(i))
    BY <2>3, DoesEvident DEF Changing, DoingBoth
  <2>4. CASE i = j /\ ~(Changing(i) \/ DoingBoth(i))
    <3>1. Made(i) /\ db' = db
      BY <2>1, <2>4 DEF Effect, Made, Passing, Suspending, Recording, Storing, Creating,
         Accepting, Failing, Notes, Giving, Metering, Commands, Logging, Logged
    <3>2. QED
      BY <2>4, <3>1, OthersStayEvident DEF VisibleInv
  <2>5. QED
    BY <2>2, <2>3, <2>4
<1>3. ASSUME NEW j \in CallIds
      PROVE  Untold(j)'
  <2>1. SUFFICES ASSUME op[j] \in {"parse", "reparse"}, Unrivalled(j)',
                        pc'[j] \notin Logging \cup {"failed", "lost"}
                 PROVE  db'.events = <<>>
    BY <1>1 DEF Untold
  <2>2. Unrivalled(j) /\ (i # j => Subject(op[i]) # Subject(op[j]))
    BY <2>1, RivalsStay
  <2>3. CASE i # j
    <3>1. db'.events = db.events
      BY <2>1, <2>2, <2>3, AboutSubject, Subjects
    <3>2. pc[j] \notin Logging \cup {"failed", "lost"}
      BY <1>1, <2>1, <2>3
    <3>3. QED
      BY <2>1, <2>2, <3>1, <3>2 DEF VisibleInv, Untold
  <2>4. CASE i = j
    <3>1. Passing(i)
      BY <2>1, <2>4 DEF Effect, Suspending, Changing, Recording, DoingBoth, Storing,
         Creating, Accepting, Failing, Notes, Giving, Metering, Separate
    <3>2. db' = db /\ pc[i] \notin Logging \cup {"failed", "lost"}
      BY <2>1, <2>4, <3>1 DEF Passing, Onward, Alone, Over
    <3>3. QED
      BY <2>1, <2>2, <2>4, <3>2 DEF VisibleInv, Untold
  <2>5. QED
    BY <2>3, <2>4
<1>4. QED
  BY <1>2, <1>3, CodesStep DEF VisibleInv

LEMMA VisibleStep ==
  ASSUME IInv, VisibleInv, ArgsFit, [Next]_vars
  PROVE  VisibleInv'
<1>1. CASE \E i \in CallIds : CallStep(i)
  BY <1>1, Effects, VisibleCallStep
<1>2. CASE Crash \/ UNCHANGED vars
  <2>1. /\ UNCHANGED <<op, arg, db>>
        /\ \A j \in CallIds : \/ pc'[j] = pc[j]
                              \/ pc'[j] = "lost" /\ pc[j] # "unborn"
    BY <1>2, CrashEffect DEF vars, asked, Running
  <2>2. \A j \in CallIds : Unrivalled(j)' => Unrivalled(j)
    BY <2>1 DEF Unrivalled
  <2>3. ASSUME NEW j \in CallIds, Made(j)'
        PROVE  Evident(j)'
    <3>1. Made(j)
      BY <2>1, <2>3 DEF Made, Logging
    <3>2. QED
      BY <2>1, <2>2, <3>1 DEF VisibleInv, Evident
  <2>4. ASSUME NEW j \in CallIds
        PROVE  Untold(j)'
    BY <2>1, <2>2 DEF VisibleInv, Untold
  <2>5. QED
    BY <2>1, <2>3, <2>4 DEF VisibleInv
<1>3. QED
  BY <1>1, <1>2 DEF Next

LEMMA VisibleInit ==
  ASSUME Init
  PROVE  VisibleInv
<1>1. db.hooks = {0} /\ db.events = <<>>
  BY DEF Init, CallsInit, InitialDb
<1>2. \A h \in 1..MaxCalls : h \in 0..MaxCalls /\ db.code[h] = "none"
  BY MaxCallsAssumption DEF Init, CallsInit, InitialDb
<1>3. \A i \in CallIds : pc[i] = "unborn"
  BY DEF Init, CallsInit
<1>4. QED
  BY <1>1, <1>2, <1>3 DEF VisibleInv, Made, Untold, Logging

\* The reads.

LEMMA SuspendedIsShown ==
  ASSUME db.status = "suspended"
  PROVE  /\ GetTenant \in ListTenants("suspended") /\ ListTenants("active") = {}
         /\ GetTenant.qps = db.qps /\ GetTenant.limit = db.limit
<1>. DEFINE t == [status |-> db.status, qps |-> db.qps, limit |-> db.limit]
<1>1. GetTenant = t
  <2>1. MemoryTenants("any") = {t}
    BY DEF MemoryTenants
  <2>2. MemoryGetTenant = t
    BY <2>1 DEF MemoryGetTenant
  <2>3. QED
    BY <2>2 DEF GetTenant, PgGetTenant
<1>2. MemoryTenants("suspended") = {t} /\ MemoryTenants("active") = {}
  BY DEF MemoryTenants
<1>3. PgTenants("suspended") = {t} /\ PgTenants("active") = {}
  BY DEF PgTenants
<1>4. QED
  BY <1>1, <1>2, <1>3 DEF ListTenants

LEMMA HooksAreShown ==
  ASSUME NEW h \in db.hooks
  PROVE  HookShown(h, db.code[h])
<1>. DEFINE item == [hook |-> h, code |-> db.code[h]]
<1>1. item = Hook(h) /\ \A g : Hook(g).hook = g
  BY DEF Hook
<1>2. item \in TenantHooks
  BY <1>1 DEF TenantHooks, MemoryTenantHooks, PgTenantHooks
<1>3. item \in AdminHooks(h)
  BY <1>1 DEF AdminHooks, MemoryAdminHooks, PgAdminHooks
<1>4. TenantHook(h) = {item}
  <2>1. MemoryTenantHook(h) = {item}
    BY <1>1 DEF MemoryTenantHook, MemoryTenantHooks
  <2>2. PgTenantHook(h) = {item}
    BY <1>1 DEF PgTenantHook
  <2>3. QED
    BY <2>1, <2>2 DEF TenantHook
<1>5. QED
  BY <1>2, <1>3, <1>4 DEF HookShown

LEMMA DeliveriesAreShown ==
  ASSUME NEW d \in DeliveryRows
  PROVE  DeliveryShown(d)
<1>1. store = "memory" => DeliveryRows = db.delivered
  BY DEF DeliveryRows
<1>2. d \in TenantDeliveries /\ d \in AdminDeliveries
  BY <1>1 DEF TenantDeliveries, MemoryTenantDeliveries, PgTenantDeliveries,
     AdminDeliveries, MemoryAdminDeliveries, PgAdminDeliveries
<1>3. TenantDelivery(d) = {d}
  BY <1>1 DEF TenantDelivery, MemoryTenantDelivery, PgTenantDelivery,
     MemoryTenantDeliveries
<1>4. QED
  BY <1>2, <1>3 DEF DeliveryShown

LEMMA OneEventIsShown ==
  ASSUME NEW status \in {"parsed", "failed"}, db.events = <<status>>
  PROVE  MessageShown(status)
<1>1. Len(db.events) = 1 /\ db.events[1] = status /\ db.events # <<>>
  OBVIOUS
<1>2. MemoryMessageStatus = status
  BY <1>1 DEF MemoryMessageStatus
<1>3. (\E n \in 1..Len(db.events) : db.events[n] = "parsed") <=> status = "parsed"
  BY <1>1
<1>4. PgMessageStatus = status
  BY <1>1, <1>3 DEF PgMessageStatus
<1>5. status \in AdminMessages(status)
  BY <1>2, <1>4 DEF AdminMessages, MemoryAdminMessages, PgAdminMessages
<1>6. TenantMessage.status = status
  BY <1>2, <1>4 DEF TenantMessage, MemoryMessage, PgMessage
<1>7. LatestMessage.code = (status = "parsed")
  BY <1>2, <1>3 DEF LatestMessage, MemoryLatest, PgLatest
<1>8. QED
  BY <1>5, <1>6, <1>7 DEF MessageShown

LEMMA IssuedIsShown ==
  ASSUME db.invoice = "issued"
  PROVE  InvoiceShown("issued")
BY DEF InvoiceShown, Invoice, TenantInvoices, MemoryTenantInvoices, PgTenantInvoices,
   TenantInvoice, MemoryTenantInvoice, PgTenantInvoice, AdminInvoices,
   MemoryAdminInvoices, PgAdminInvoices

\* Whatever calls are made and however they overlap: one that was answered as
\* done, and that no other call has since contended with, is shown as done by
\* the reads of one item, the tenant's lists and the operators' filtered ones,
\* over either store.
THEOREM DoneIsShown == Spec => []AnsweredIsVisible
<1>1. ASSUME IInv, TruthInv, VisibleInv PROVE AnsweredIsVisible
  <2>1. SUFFICES ASSUME NEW i \in CallIds, pc[i] = "ok", Unrivalled(i)
                 PROVE  Visible(i)
    BY DEF AnsweredIsVisible
  <2>2. CASE op[i] \notin Commands
    BY <2>2 DEF Visible, Commands, Logged
  <2>3. CASE op[i] \in Commands
    <3>1. Evident(i)
      BY <1>1, <2>1, <2>3 DEF VisibleInv, Made, Logging
    <3>2. 0 \in db.hooks
      BY <1>1 DEF VisibleInv
    <3>3. CASE op[i] = "patchTenant"
      BY <3>1, <3>3, SuspendedIsShown DEF Evident, Visible
    <3>4. CASE op[i] = "issueInvoice"
      BY <3>1, <3>4, IssuedIsShown DEF Evident, Visible
    <3>5. CASE op[i] \in {"rotateSecret", "adminRotate"}
      BY <2>1, <3>1, <3>5 DEF Evident, Visible
    <3>6. CASE op[i] = "createWebhook"
      <4>1. i \in db.hooks /\ db.code[i] \in {"none", "ok"}
        BY <1>1, <3>1, <3>6 DEF Evident, VisibleInv, CallIds
      <4>2. QED
        BY <3>6, <4>1, HooksAreShown DEF Visible
    <3>7. CASE op[i] \in {"replayWebhook", "replayMessage"}
      BY <3>7 DEF Visible
    <3>8. CASE op[i] = "deliver"
      <4>1. HookShown(0, arg[i])
        BY <2>1, <3>1, <3>2, <3>8, HooksAreShown DEF Evident
      <4>2. Row(i) \in Rows /\ op[i] \in Logged
        BY <1>1, <2>1, <3>8 DEF IInv, Calling, Audited, Logging, Logged
      <4>3. Truth(Row(i))
        BY <1>1, <4>2 DEF TruthInv
      <4>4. Row(i).action = "webhook.deliver" /\ Row(i).call = i
        BY <3>8 DEF Row, Entry, LoggedAs
      <4>5. i \in DeliveryRows
        BY <4>3, <4>4 DEF Truth
      <4>6. QED
        BY <3>8, <4>1, <4>5, DeliveriesAreShown DEF Visible
    <3>9. CASE op[i] = "upsertPolicy"
      BY <2>1, <3>1, <3>9 DEF Evident, Visible
    <3>10. CASE op[i] = "reparse"
      BY <2>1, <3>1, <3>10, OneEventIsShown DEF Evident, Visible
    <3>11. CASE op[i] = "parse"
      <4>1. arg[i] \in {"parsed", "failed"}
        BY <1>1, <3>11 DEF TruthInv, ArgsFit, Args
      <4>2. QED
        BY <2>1, <3>1, <3>11, <4>1, OneEventIsShown DEF Evident, Visible
    <3>12. QED
      BY <2>3, <3>3, <3>4, <3>5, <3>6, <3>7, <3>8, <3>9, <3>10, <3>11
      DEF Commands, Logged
  <2>4. QED
    BY <2>2, <2>3
<1>2. TruthInv => ArgsFit
  BY DEF TruthInv
<1>3. Init => VisibleInv
  BY VisibleInit
<1>4. QED
  BY <1>1, <1>2, <1>3, VisibleStep, TruthInvariance, PTL DEF Spec

-----------------------------------------------------------------------------
(* The steps that leave the settings and the operator's pass alone.        *)

\* Call i goes on and neither loads settings nor turns a page; all that is kept
\* is a place in the log, by a transaction that begins or is open.
Aside(i) ==
  /\ UNCHANGED <<api, log>>
  /\ pc'[i] \notin {"loaded", "turn"}
  /\ \A j \in CallIds : \/ kept'[j] = kept[j]
                        \/ j = i /\ pc[i] = "begin"
                        \/ j # i /\ j \in clients

LEMMA StatementAside ==
  ASSUME IInv, NEW i \in CallIds, NEW s, NEW t, t \notin {"loaded", "turn"},
         NEW tables, NEW e,
         \/ Select(i, s, t) \/ (NotFound(i, s) /\ t = "failed")
         \/ Write(i, s, t, tables) \/ Record(i, s, t, e)
         \/ InMemory(i, s, t, tables, e)
         \/ Open(i, t) \/ Within(i, s, t)
         \/ CommitWith(i, t, tables, e)
  PROVE  Aside(i)
<1>1. \/ Step(i, s, t) /\ kept' = kept
      \/ Step(i, "begin", t) /\ kept' = [kept EXCEPT ![i] = Len(audit)]
      \/ Step(i, "commit", t) /\ \A j \in CallIds : \/ kept'[j] = kept[j]
                                                    \/ j # i /\ j \in clients
  BY CommitPlaces DEF Select, NotFound, Write, Record, InMemory, Open, Within, CommitWith,
     Query, AtOnce, Begin, InTx, Commit
<1>2. UNCHANGED <<api, log>>
  BY DEF Select, NotFound, Write, Record, InMemory, Open, Within, CommitWith
<1>3. QED
  BY <1>1, <1>2 DEF Aside, Step, IInv, Types, Pool

LEMMA CommandAside ==
  ASSUME IInv, NEW i \in CallIds,
         \/ MemoryPatchTenant(i) \/ PgPatchTenant(i)
         \/ MemoryIssueInvoice(i) \/ PgIssueInvoice(i)
         \/ MemoryUpsertPolicy(i) \/ PgUpsertPolicy(i)
         \/ MemoryAdminRotate(i) \/ PgAdminRotate(i)
         \/ MemoryReplayWebhook(i) \/ PgReplayWebhook(i)
         \/ MemoryReplayMessage(i) \/ PgReplayMessage(i)
         \/ MemoryReparse(i) \/ PgReparse(i)
         \/ MemoryCreateWebhook(i) \/ PgCreateWebhook(i)
         \/ MemoryRotate(i) \/ PgRotate(i)
         \/ MemoryApplyResult(i) \/ PgApplyResult(i)
         \/ MemoryDeliver(i) \/ PgDeliver(i)
  PROVE  Aside(i) /\ op[i] # "updateSettings" /\ op[i] # "readLog"
<1>1. ASSUME NEW s, \/ Select(i, s, "status") \/ Select(i, s, "failed")
                    \/ Select(i, s, "answer") \/ Select(i, s, "change")
      PROVE  Aside(i)
  BY <1>1 DEF Select, Query, Aside, Step, IInv, Pool
<1>2. ASSUME NEW s, NEW tables, \/ Write(i, s, "audit", tables) \/ Write(i, s, "quotas", tables)
      PROVE  Aside(i)
  BY <1>2, StatementAside
<1>3. ASSUME NEW s, NEW e, \/ Record(i, s, "show", e) \/ Record(i, s, "answer", e)
                           \/ Record(i, s, "meter", e)
      PROVE  Aside(i)
  BY <1>3, StatementAside
<1>4. ASSUME NEW s, NEW tables, NEW e, \/ InMemory(i, s, "answer", tables, e)
                                       \/ InMemory(i, s, "meter", tables, e)
                                       \/ CommitWith(i, "answer", tables, e)
      PROVE  Aside(i)
  BY <1>4, StatementAside
<1>5. ASSUME NEW s, \/ Open(i, "write") \/ Open(i, "commit") \/ Open(i, "nested")
                    \/ Within(i, s, "write") \/ Within(i, s, "commit")
      PROVE  Aside(i)
  BY <1>5, StatementAside
<1>6. CASE MemoryPatchTenant(i) \/ PgPatchTenant(i)
  BY <1>1, <1>2, <1>3, <1>4, <1>6 DEF MemoryPatchTenant, PgPatchTenant
<1>7. CASE MemoryIssueInvoice(i) \/ PgIssueInvoice(i) \/ MemoryUpsertPolicy(i) \/ PgUpsertPolicy(i)
  BY <1>1, <1>2, <1>3, <1>4, <1>7
  DEF MemoryIssueInvoice, PgIssueInvoice, MemoryUpsertPolicy, PgUpsertPolicy
<1>8. CASE MemoryAdminRotate(i) \/ PgAdminRotate(i) \/ MemoryRotate(i) \/ PgRotate(i)
  BY <1>1, <1>2, <1>3, <1>4, <1>8 DEF MemoryAdminRotate, PgAdminRotate, MemoryRotate, PgRotate
<1>9. CASE \/ MemoryReplayWebhook(i) \/ PgReplayWebhook(i)
           \/ MemoryReplayMessage(i) \/ PgReplayMessage(i)
           \/ MemoryCreateWebhook(i) \/ PgCreateWebhook(i)
  BY <1>1, <1>2, <1>3, <1>4, <1>9
  DEF MemoryReplayWebhook, PgReplayWebhook, MemoryReplayMessage, PgReplayMessage,
      MemoryCreateWebhook, PgCreateWebhook
<1>10. CASE \/ MemoryReparse(i) \/ PgReparse(i)
            \/ MemoryApplyResult(i) \/ PgApplyResult(i)
            \/ MemoryDeliver(i) \/ PgDeliver(i)
  BY <1>4, <1>5, <1>10
  DEF MemoryReparse, PgReparse, MemoryApplyResult, PgApplyResult, MemoryDeliver, PgDeliver
<1>11. QED
  BY <1>6, <1>7, <1>8, <1>9, <1>10

LEMMA SendAside ==
  ASSUME IInv, NEW i \in CallIds, SendMessage(i)
  PROVE  Aside(i) /\ op[i] # "updateSettings" /\ op[i] # "readLog"
<1>1. op[i] = "send"
  BY DEF SendMessage
<1>2. SUFFICES Aside(i)
  BY <1>1
<1>3. CASE EnforceCooldown(i)
  <2>1. PICK t \in {"find", "failed"} : Step(i, "cooldown", t)
    BY <1>3 DEF EnforceCooldown, Query, AtOnce
  <2>2. UNCHANGED <<kept, api, log>>
    BY <1>3 DEF EnforceCooldown
  <2>3. QED
    BY <2>1, <2>2 DEF Aside, Step, IInv, Pool
<1>4. CASE FindMailbox(i) \/ ShowAttempt(i)
  <2>1. UNCHANGED <<kept, api, log>>
    BY <1>4 DEF FindMailbox, ShowAttempt, Select
  <2>2. Step(i, "find", "create") \/ Step(i, "show", "meter")
    BY <1>4 DEF FindMailbox, ShowAttempt, Select, Query, AtOnce
  <2>3. QED
    BY <2>1, <2>2 DEF Aside, Step, IInv, Pool
<1>5. CASE NotFound(i, "find")
  BY <1>5, StatementAside
<1>6. CASE MemoryCreateAttempt(i) \/ MemoryCompleteAttempt(i) \/ MemoryFailAttempt(i)
  BY <1>6, StatementAside DEF MemoryCreateAttempt, MemoryCompleteAttempt, MemoryFailAttempt
<1>7. CASE PgCreateAttempt(i) \/ PgCompleteAttempt(i) \/ PgFailAttempt(i)
  <2>1. CASE Select(i, "reread", "show")
    BY <2>1 DEF Select, Query, Aside, Step, IInv, Pool
  <2>2. QED
    BY <1>7, <2>1, StatementAside DEF PgCreateAttempt, PgCompleteAttempt, PgFailAttempt
<1>8. CASE Submit(i) \/ Refused(i) \/ CaughtError(i)
  <2>1. UNCHANGED <<kept, api, log>>
    BY <1>8 DEF Submit, Refused, CaughtError
  <2>2. PICK s \in {"smtp", "complete", "reread"}, t \in {"complete", "failing"} : Step(i, s, t)
    BY <1>8 DEF Submit, Refused, CaughtError
  <2>3. QED
    BY <2>1, <2>2 DEF Aside, Step, IInv, Pool
<1>9. QED
  BY <1>3, <1>4, <1>5, <1>6, <1>7, <1>8 DEF SendMessage

LEMMA OtherAside ==
  ASSUME IInv, NEW i \in CallIds,
         Ask(i) \/ Authenticate(i) \/ Meter(i) \/ UnknownId(i) \/ Answer(i)
  PROVE  /\ Aside(i)
         /\ pc[i] \in {"unborn", "auth", "meter", "find", "answer"}
         /\ op[i] = "updateSettings" => pc'[i] \notin {"begin", "upsert", "nested", "commit"}
         /\ op[i] = "readLog" => pc'[i] # "answer" \/ pc[i] = "meter"
<1>1. ASSUME NEW s \in {"unborn", "auth", "meter", "find", "answer"}, NEW t, Step(i, s, t),
             t \notin {"loaded", "turn"}, UNCHANGED <<kept, api, log>>,
             op[i] = "updateSettings" => t \notin {"begin", "upsert", "nested", "commit"},
             op[i] = "readLog" => t # "answer" \/ s = "meter"
      PROVE  /\ Aside(i)
             /\ pc[i] \in {"unborn", "auth", "meter", "find", "answer"}
             /\ op[i] = "updateSettings" => pc'[i] \notin {"begin", "upsert", "nested", "commit"}
             /\ op[i] = "readLog" => pc'[i] # "answer" \/ pc[i] = "meter"
  BY <1>1 DEF Aside, Step, IInv, Pool
<1>2. CASE Ask(i)
  BY <1>1, <1>2 DEF Ask, Start, First, TenantOps, Background
<1>3. CASE Authenticate(i)
  BY <1>1, <1>3 DEF Authenticate, AtOnce, Query
<1>4. CASE Meter(i)
  BY <1>1, <1>4 DEF Meter, AtOnce, Query
<1>5. CASE UnknownId(i)
  BY <1>1, <1>5 DEF UnknownId, NotFound, AtOnce, Query
<1>6. CASE Answer(i)
  BY <1>1, <1>6 DEF Answer
<1>7. QED
  BY <1>2, <1>3, <1>4, <1>5, <1>6

-----------------------------------------------------------------------------
(* The runtime settings.                                                   *)

\* Unless muddled, one update at most is under way, none while a load is, and
\* the cache is that update's, or what the table has, or not loaded yet.
SettingsInv ==
  ~api.muddled =>
    /\ \A i \in CallIds : pc[i] = "loaded" =>
         kept[i] = db.settings /\ \A j \in CallIds : ~Unstored(j)
    /\ \A i \in CallIds : Unstored(i) => api.cache = i
    /\ (\A i \in CallIds : ~Unstored(i)) =>
         api.cache = db.settings \/ (~api.loaded /\ api.cache = 0)

LEMMA SettingsKept ==
  ASSUME SettingsInv, NEW i \in CallIds, Alone(i), UNCHANGED api,
         pc'[i] # "loaded", Unstored(i)' <=> Unstored(i),
         \A j \in CallIds \ {i} : pc[j] = "loaded" => kept'[j] = kept[j],
         db'.settings = db.settings
  PROVE  SettingsInv'
<1>1. \A j \in CallIds : Unstored(j)' <=> Unstored(j)
  BY DEF Alone, asked, Unstored
<1>2. \A j \in CallIds : pc'[j] = "loaded" => pc[j] = "loaded" /\ kept'[j] = kept[j]
  BY DEF Alone
<1>3. QED
  BY <1>1, <1>2 DEF SettingsInv

LEMMA SettingsLeft ==
  ASSUME IInv, NEW i \in CallIds, Effect(i), op[i] # "updateSettings"
  PROVE  db'.settings = db.settings
<1>1. CASE Changing(i) \/ DoingBoth(i) \/ Suspending(i)
  BY <1>1, CommandsLeave DEF Changing, DoingBoth
<1>2. CASE Creating(i) \/ Accepting(i) \/ Failing(i) \/ Metering(i)
  BY <1>2 DEF Creating, Accepting, Failing, Metering, Notes, IInv, Types, Tables
<1>3. CASE Passing(i) \/ Recording(i) \/ Giving(i)
  BY <1>3 DEF Passing, Recording, Giving
<1>4. QED
  BY <1>1, <1>2, <1>3 DEF Effect, Storing

LEMMA LoadSettings ==
  ASSUME IInv, SettingsInv, NEW i \in CallIds, Load(i)
  PROVE  SettingsInv'
<1>1. /\ Step(i, "load", "loaded") /\ kept' = [kept EXCEPT ![i] = db.settings]
      /\ UNCHANGED db
  BY DEF Load, AtOnce, Query
<1>2. SUFFICES ASSUME ~api'.muddled
               PROVE  SettingsInv'
  BY DEF SettingsInv
<1>3. /\ ~api.muddled /\ ~\E j \in Running : Unstored(j)
      /\ api'.cache = api.cache /\ api'.loaded = api.loaded
  BY <1>2 DEF Load, IInv, Types
<1>4. \A j \in CallIds : ~Unstored(j) /\ ~Unstored(j)'
  BY <1>1, <1>3 DEF Step, Unstored, Running, Over, IInv, Pool, asked
<1>5. \A j \in CallIds : pc'[j] = "loaded" => kept'[j] = db.settings
  BY <1>1, <1>3 DEF Step, SettingsInv, IInv, Pool, Types
<1>6. QED
  BY <1>1, <1>3, <1>4, <1>5 DEF SettingsInv

LEMMA FinishLoadSettings ==
  ASSUME IInv, SettingsInv, NEW i \in CallIds, FinishLoad(i)
  PROVE  SettingsInv'
<1>1. Step(i, "loaded", First(op[i])) /\ UNCHANGED <<kept, db>>
  BY DEF FinishLoad
<1>2. SUFFICES ASSUME ~api'.muddled
               PROVE  SettingsInv'
  BY DEF SettingsInv
<1>3. /\ ~api.muddled /\ api'.loaded
      /\ api'.cache = IF kept[i] = 0 THEN api.cache ELSE kept[i]
  BY <1>2 DEF FinishLoad, IInv, Types
<1>4. kept[i] = db.settings /\ \A j \in CallIds : ~Unstored(j)
  BY <1>1, <1>3 DEF Step, SettingsInv
<1>5. First(op[i]) # "loaded" /\ (op[i] = "updateSettings" => First(op[i]) = "set")
  BY DEF First, TenantOps
<1>6. \A j \in CallIds : ~Unstored(j)'
  BY <1>1, <1>4, <1>5 DEF Step, Unstored, IInv, Pool, asked
<1>7. \A j \in CallIds : pc'[j] = "loaded" => kept'[j] = db'.settings
  BY <1>1, <1>3, <1>5 DEF Step, SettingsInv, IInv, Pool
<1>8. api'.cache = db'.settings
  BY <1>1, <1>3, <1>4 DEF SettingsInv
<1>9. QED
  BY <1>6, <1>7, <1>8 DEF SettingsInv

LEMMA SetCacheSettings ==
  ASSUME IInv, SettingsInv, NEW i \in CallIds, SetCache(i)
  PROVE  SettingsInv'
<1>1. \E t \in {"answer", "begin"} : Step(i, "set", t) /\ (t = "answer" <=> store = "memory")
  BY DEF SetCache
<1>2. SUFFICES ASSUME ~api'.muddled
               PROVE  SettingsInv'
  BY DEF SettingsInv
<1>3. ~SettingsInHand(i) /\ api'.cache = i
  BY <1>2 DEF SetCache, IInv, Types
<1>4. \A j \in CallIds \ {i} : ~Unstored(j) /\ pc[j] # "loaded"
  BY <1>3 DEF SettingsInHand, Running, Over, Unstored
<1>5. \A j \in CallIds \ {i} : ~Unstored(j)' /\ pc'[j] # "loaded"
  BY <1>1, <1>4 DEF Step, Unstored, IInv, Pool, asked
<1>6. pc'[i] # "loaded" /\ (Unstored(i)' \/ db'.settings = i)
  BY <1>1 DEF Step, Unstored, SetCache, IInv, Pool, Types, Tables, asked
<1>7. QED
  BY <1>3, <1>5, <1>6 DEF SettingsInv

LEMMA UpdateSettings ==
  ASSUME IInv, SettingsInv, NEW i \in CallIds, PgUpdateSettings(i)
  PROVE  SettingsInv'
<1>1. op[i] = "updateSettings" /\ UNCHANGED api
  BY DEF PgUpdateSettings, Open, Within
<1>2. CASE \/ Open(i, "upsert") \/ Within(i, "upsert", "nested")
           \/ Within(i, "nested", "commit")
  <2>1. \/ Step(i, "begin", "upsert") \/ Step(i, "upsert", "nested")
        \/ Step(i, "nested", "commit")
    BY <1>2 DEF Open, Within, Begin, InTx
  <2>2. \A j \in CallIds \ {i} : kept'[j] = kept[j]
    BY <1>2 DEF Open, Within, IInv, Types
  <2>3. UNCHANGED db
    BY <1>2 DEF Open, Within
  <2>4. Alone(i) /\ pc'[i] # "loaded" /\ (Unstored(i)' <=> Unstored(i))
    BY <1>1, <2>1 DEF Step, Alone, Unstored, Over, IInv, Pool, asked
  <2>5. QED
    BY <1>1, <2>2, <2>3, <2>4, SettingsKept
<1>3. CASE /\ Commit(i, "commit", "answer") /\ db' = [db EXCEPT !.settings = i]
           /\ UNCHANGED <<kept, api>>
  <2>1. Step(i, "commit", "answer") /\ Unstored(i)
    BY <1>1, <1>3 DEF Commit, Step, Unstored
  <2>2. SUFFICES ASSUME ~api.muddled
                 PROVE  SettingsInv'
    BY <1>1 DEF SettingsInv
  <2>3. api.cache = i /\ db'.settings = i
    BY <1>3, <2>1, <2>2 DEF SettingsInv, IInv, Types, Tables
  <2>4. \A j \in CallIds : ~Unstored(j)' /\ pc'[j] # "loaded"
    BY <2>1, <2>2, <2>3 DEF SettingsInv, Step, Unstored, IInv, Pool, asked
  <2>5. QED
    BY <1>1, <2>3, <2>4 DEF SettingsInv
<1>4. QED
  BY <1>2, <1>3 DEF PgUpdateSettings

LEMMA FailSettings ==
  ASSUME IInv, SettingsInv, NEW i \in CallIds, Fail(i)
  PROVE  SettingsInv'
<1>1. SUFFICES ASSUME ~api'.muddled
               PROVE  SettingsInv'
  BY DEF SettingsInv
<1>2. /\ ~api.muddled /\ ~Unstored(i)
      /\ api'.cache = api.cache /\ api'.loaded = api.loaded
  BY <1>1 DEF Fail, IInv, Types
<1>3. \A j \in CallIds : /\ Unstored(j)' <=> Unstored(j)
                         /\ pc'[j] = "loaded" => pc[j] = "loaded"
  BY <1>2 DEF Fail, Unstored, IInv, Pool, asked
<1>4. UNCHANGED <<kept, db>>
  BY DEF Fail
<1>5. QED
  BY <1>2, <1>3, <1>4 DEF SettingsInv

LEMMA CrashSettings ==
  ASSUME IInv, Crash
  PROVE  SettingsInv'
<1>1. \A j \in CallIds : ~Unstored(j)' /\ pc'[j] # "loaded"
  BY DEF Crash, Unstored, Running, Over, IInv, Pool
<1>2. api'.cache = 0 /\ ~api'.loaded
  BY DEF Crash, FreshApi
<1>3. QED
  BY <1>1, <1>2 DEF SettingsInv

LEMMA AsideSettings ==
  ASSUME IInv, SettingsInv, NEW i \in CallIds, Alone(i), Aside(i),
         Unstored(i)' <=> Unstored(i), db'.settings = db.settings
  PROVE  SettingsInv'
<1>1. /\ UNCHANGED api /\ pc'[i] # "loaded"
      /\ \A j \in CallIds \ {i} : pc[j] = "loaded" => kept'[j] = kept[j]
  BY DEF Aside, IInv, Pool, InTransaction
<1>2. QED
  BY <1>1, SettingsKept

LEMMA LogSettings ==
  ASSUME IInv, SettingsInv, NEW i \in CallIds, Alone(i), OpenLog(i) \/ TurnPage(i)
  PROVE  SettingsInv'
<1>1. op[i] = "readLog" /\ UNCHANGED <<kept, db, api>>
  BY DEF OpenLog, TurnPage
<1>2. \E s, t \in {"open", "turn", "answer"} : Step(i, s, t)
  BY DEF OpenLog, TurnPage, Fetch, AtOnce, Query
<1>3. pc'[i] # "loaded" /\ ~Unstored(i) /\ ~Unstored(i)'
  BY <1>1, <1>2 DEF Step, Unstored, IInv, Pool, asked
<1>4. QED
  BY <1>1, <1>3, SettingsKept

LEMMA SettingsCallStep ==
  ASSUME IInv, SettingsInv, NEW i \in CallIds, CallStep(i)
  PROVE  SettingsInv'
<1>1. Alone(i) /\ Effect(i) /\ UNCHANGED op
  BY Effects DEF Alone, asked
<1>2. CASE Ask(i) \/ Authenticate(i) \/ Meter(i) \/ UnknownId(i) \/ Answer(i)
  <2>1. /\ Aside(i) /\ pc[i] \in {"unborn", "auth", "meter", "find", "answer"}
        /\ op[i] = "updateSettings" => pc'[i] \notin {"begin", "upsert", "nested", "commit"}
    BY <1>2, OtherAside
  <2>2. db'.settings = db.settings
    BY <1>2 DEF Ask, Start, Authenticate, Meter, UnknownId, NotFound, Answer, IInv, Types,
                Tables
  <2>3. ~Unstored(i) /\ ~Unstored(i)'
    BY <1>1, <2>1 DEF Unstored
  <2>4. QED
    BY <1>1, <2>1, <2>2, <2>3, AsideSettings
<1>3. CASE Aside(i) /\ op[i] # "updateSettings"
  BY <1>1, <1>3, SettingsLeft, AsideSettings DEF Unstored
<1>4. CASE Load(i) \/ FinishLoad(i) \/ SetCache(i) \/ PgUpdateSettings(i) \/ Fail(i)
  BY <1>4, LoadSettings, FinishLoadSettings, SetCacheSettings, UpdateSettings, FailSettings
<1>5. CASE OpenLog(i) \/ TurnPage(i)
  BY <1>1, <1>5, LogSettings
<1>6. CASE SendMessage(i)
  BY <1>3, <1>6, SendAside
<1>7. CASE OperatorStep(i)
  BY <1>3, <1>5, <1>7, CommandAside DEF OperatorStep
<1>8. CASE TenantStep(i) \/ WorkerStep(i)
  BY <1>2, <1>3, <1>6, <1>8, CommandAside DEF TenantStep, WorkerStep
<1>9. QED
  BY <1>2, <1>4, <1>7, <1>8 DEF CallStep, SettingsStep

LEMMA SettingsInvariance == Spec => []SettingsInv
<1>1. Init => SettingsInv
  BY DEF Init, CallsInit, SettingsInv, Unstored, InitialDb, FreshApi
<1>2. IInv /\ SettingsInv /\ [Next]_vars => SettingsInv'
  <2>1. ASSUME IInv, SettingsInv, [Next]_vars
        PROVE  SettingsInv'
    <3>1. CASE Next
      BY <2>1, <3>1, CrashSettings, SettingsCallStep DEF Next
    <3>2. CASE UNCHANGED vars
      BY <2>1, <3>2 DEF vars, asked, SettingsInv, Unstored
    <3>3. QED
      BY <2>1, <3>1, <3>2
  <2>2. QED
    BY <2>1
<1>3. QED
  BY <1>1, <1>2, Invariance, PTL DEF Spec

\* While no call is loading or changing them, the settings the API charges and
\* limits by are those in the table: for any number of calls, restarts and
\* failures of the database, as long as no update failed on its way to the
\* table or met another update or the first load.
THEOREM SettingsAreStored == Spec => []SettingsAgree
<1>1. SettingsInv => SettingsAgree
  <2>1. ASSUME SettingsInv, api.loaded, ~api.muddled,
               \A i \in Running : ~Unstored(i) /\ pc[i] # "loaded"
        PROVE  api.cache = db.settings
    <3>1. \A i \in CallIds : ~Unstored(i)
      BY <2>1 DEF Unstored, Running, Over
    <3>2. QED
      BY <2>1, <3>1 DEF SettingsInv
  <2>2. QED
    BY <2>1 DEF SettingsAgree
<1>2. QED
  BY <1>1, SettingsInvariance, PTL

-----------------------------------------------------------------------------
(* The pages of the log.  A row's depth is its place, the newest first.    *)

Depth(n) == Len(audit) + 1 - n

LEMMA PageShows ==
  ASSUME IInv, NEW page \in Nat \ {0}, NEW n \in 1..Len(audit),
         (page - 1) * PageSize < Depth(n), Depth(n) <= page * PageSize
  PROVE  audit[n] \in Shown(page)
<1>. DEFINE offset == (page - 1) * PageSize
            last == IF offset + PageSize < Len(NewestFirst)
                    THEN offset + PageSize ELSE Len(NewestFirst)
            k == Depth(n)
<1>1. /\ audit \in Seq(AuditRow) /\ Len(audit) \in Nat /\ PageSize \in Nat
      /\ NewestFirst \in Seq(AuditRow) /\ Len(NewestFirst) = Len(audit)
  BY PageSizeAssumption DEF IInv, Types, NewestFirst
<1>2. offset \in Nat /\ offset + PageSize = page * PageSize
  BY <1>1
<1>3. k \in 1..Len(audit) /\ NewestFirst[k] = audit[n]
  BY <1>1 DEF NewestFirst, Depth
<1>4. AuditLog(page, PageSize) = SubSeq(NewestFirst, offset + 1, last)
  BY DEF AuditLog, MemoryAuditLog, PgAuditLog, Page
<1>5. offset < k /\ k <= offset + PageSize
  BY <1>2 DEF Depth
<1>. HIDE DEF offset, k
<1>6. last \in Nat /\ last <= Len(NewestFirst) /\ offset < k /\ k <= last
  BY <1>1, <1>2, <1>3, <1>5
<1>. HIDE DEF last
<1>7. /\ SubSeq(NewestFirst, offset + 1, last) \in Seq(AuditRow)
      /\ Len(SubSeq(NewestFirst, offset + 1, last)) = last - offset
      /\ \A m \in 1..(last - offset) :
           SubSeq(NewestFirst, offset + 1, last)[m] = NewestFirst[offset + m]
  BY <1>1, <1>2, <1>3, <1>6
<1>8. k - offset \in 1..(last - offset) /\ offset + (k - offset) = k
  BY <1>1, <1>2, <1>3, <1>6
<1>9. AuditLog(page, PageSize)[k - offset] = audit[n]
  BY <1>3, <1>4, <1>7, <1>8
<1>10. k - offset \in DOMAIN AuditLog(page, PageSize)
  BY <1>4, <1>7, <1>8
<1>11. QED
  BY <1>9, <1>10 DEF Shown

\* The pages not turned yet hold every row the pass owes and has not shown.
Ahead(e) ==
  \E n \in 1..Len(audit) :
    audit[n] = e /\ (log.page - 1) * PageSize < Depth(n)

PagesInv ==
  /\ log.reader \in 0..MaxCalls /\ log.page \in Nat \ {0}
  /\ log = [reader |-> log.reader, page |-> log.page, due |-> log.due, seen |-> log.seen]
  /\ \A i \in CallIds :
       /\ op[i] = "readLog" =>
            pc[i] \in {"unborn", "load", "loaded", "open", "turn", "answer"} \cup Over
       /\ pc[i] = "turn" => i = log.reader /\ op[i] = "readLog"
  /\ log.reader # 0 =>
       /\ op[log.reader] = "readLog"
       /\ pc[log.reader] = "turn" => \A e \in log.due : e \in log.seen \/ Ahead(e)
       /\ pc[log.reader] \in {"answer", "ok"} => log.due \subseteq log.seen

\* A row is never found nearer to the front than it was.
LEMMA OnlyDeeper ==
  ASSUME IInv, UNCHANGED audit \/ \E e : Logs(e), NEW n \in 1..Len(audit)
  PROVE  \E m \in 1..Len(audit') : audit'[m] = audit[n] /\ Depth(n) <= Depth(m)'
<1>1. Len(audit) \in Nat
  BY DEF IInv, Types
<1>2. CASE UNCHANGED audit
  BY <1>1, <1>2 DEF Depth
<1>3. CASE \E e : Logs(e)
  <2>0. PICK e : Logs(e)
    BY <1>3
  <2>1. PICK p \in Nat : Inserted(p, e)
    BY <2>0 DEF Logs
  <2>2. /\ Len(audit') = Len(audit) + 1 /\ Shift(p, n) \in 1..Len(audit')
        /\ audit'[Shift(p, n)] = audit[n]
    BY <2>1, ShiftedRows
  <2>3. Shift(p, n) <= n + 1
    BY DEF Shift
  <2>4. Depth(n) <= Depth(Shift(p, n))'
    BY <1>1, <2>2, <2>3 DEF Depth
  <2>5. QED
    BY <2>2, <2>4
<1>4. QED
  BY <1>2, <1>3

LEMMA AheadStays ==
  ASSUME IInv, PagesInv, UNCHANGED audit \/ \E e : Logs(e), UNCHANGED log,
         NEW e, Ahead(e)
  PROVE  Ahead(e)'
<1>1. PICK n \in 1..Len(audit) : audit[n] = e /\ (log.page - 1) * PageSize < Depth(n)
  BY DEF Ahead
<1>2. PICK m \in 1..Len(audit') : audit'[m] = audit[n] /\ Depth(n) <= Depth(m)'
  BY OnlyDeeper
<1>. DEFINE turned == (log.page - 1) * PageSize
<1>3. turned \in Int /\ Depth(n) \in Int /\ Depth(m)' \in Int
  <2>1. Len(audit) \in Nat
    BY DEF IInv, Types
  <2>2. Len(audit') \in Nat
    BY <2>1, ShiftedRows DEF Logs
  <2>3. QED
    BY <2>1, <2>2, PageSizeAssumption DEF PagesInv, Depth
<1>4. turned < Depth(n) /\ turned' = turned
  BY <1>1
<1>. HIDE DEF turned
<1>5. turned < Depth(m)'
  BY <1>2, <1>3, <1>4
<1>6. (log'.page - 1) * PageSize < Depth(m)'
  BY <1>5 DEF turned
<1>7. QED
  BY <1>1, <1>2, <1>6 DEF Ahead

LEMMA LogsOnly ==
  ASSUME NEW i \in CallIds, IInv, Effect(i)
  PROVE  UNCHANGED audit \/ \E e : Logs(e)
<1>1. CASE Creating(i) \/ Accepting(i) \/ Failing(i)
  <2>1. PICK action \in Actions : audit' = Append(audit, Entry(i, action, TRUE))
    BY <1>1 DEF Creating, Accepting, Failing, Notes, Actions
  <2>2. Entry(i, action, TRUE) \in AuditRow
    BY DEF Entry, AuditRow
  <2>3. QED
    BY <2>1, <2>2, AppendLogs
<1>2. CASE Recording(i) \/ DoingBoth(i)
  BY <1>2 DEF Recording, DoingBoth
<1>3. QED
  BY <1>1, <1>2
  DEF Effect, Passing, Suspending, Changing, Storing, Giving, Metering

LEMMA PagesKept ==
  ASSUME IInv, PagesInv, NEW i \in CallIds, Alone(i), Effect(i), UNCHANGED log,
         pc'[i] # "turn",
         op[i] = "readLog" =>
           /\ pc'[i] \in {"load", "loaded", "open", "answer"} \cup Over
           /\ pc'[i] \in {"answer", "ok"} => pc[i] = "answer"
  PROVE  PagesInv'
<1>1. UNCHANGED op /\ \A j \in CallIds \ {i} : pc'[j] = pc[j]
  BY DEF Alone, asked
<1>2. \A j \in CallIds :
        /\ op'[j] = "readLog" =>
             pc'[j] \in {"unborn", "load", "loaded", "open", "turn", "answer"} \cup Over
        /\ pc'[j] = "turn" => j = log'.reader /\ op'[j] = "readLog"
  BY <1>1 DEF PagesInv
<1>3. ASSUME log.reader # 0
      PROVE  /\ op'[log.reader] = "readLog"
             /\ pc'[log.reader] = "turn" => \A e \in log.due : e \in log.seen \/ Ahead(e)'
             /\ pc'[log.reader] \in {"answer", "ok"} => log.due \subseteq log.seen
  <2>1. log.reader \in CallIds /\ op[log.reader] = "readLog"
    BY <1>3, MaxCallsAssumption DEF PagesInv, CallIds
  <2>2. CASE pc'[log.reader] = "turn"
    <3>1. pc[log.reader] = "turn"
      BY <1>1, <2>1, <2>2
    <3>2. \A e \in log.due : e \in log.seen \/ Ahead(e)
      BY <1>3, <3>1 DEF PagesInv
    <3>3. \A e \in log.due : e \in log.seen \/ Ahead(e)'
      BY <3>2, AheadStays, LogsOnly
    <3>4. QED
      BY <1>1, <2>1, <2>2, <3>3
  <2>3. CASE pc'[log.reader] \in {"answer", "ok"}
    <3>1. pc[log.reader] \in {"answer", "ok"}
      BY <1>1, <2>1, <2>3
    <3>2. QED
      BY <1>1, <1>3, <2>1, <2>3, <3>1 DEF PagesInv
  <2>4. QED
    BY <1>1, <2>1, <2>2, <2>3
<1>4. QED
  BY <1>2, <1>3 DEF PagesInv

\* The pass begins: what page 1 does not show lies beyond it.
LEMMA OpenPages ==
  ASSUME IInv, PagesInv, NEW i \in CallIds, OpenLog(i)
  PROVE  PagesInv'
<1>. DEFINE t == IF Len(audit) <= PageSize THEN "answer" ELSE "turn"
<1>1. /\ op[i] = "readLog" /\ Step(i, "open", t) /\ UNCHANGED <<op, audit>>
      /\ t \in {"answer", "turn"}
      /\ log' = [reader |-> i, page |-> 2,
                 due |-> {audit[n] : n \in 1..Len(audit)}, seen |-> Shown(1)]
  BY DEF OpenLog, Fetch, AtOnce, Query, Step, asked
<1>2. Len(audit) \in Nat /\ PageSize \in Nat
  BY PageSizeAssumption DEF IInv, Types
<1>3. \A n \in 1..Len(audit) : Depth(n) <= PageSize => audit[n] \in Shown(1)
  BY <1>2, PageShows DEF Depth
<1>4. pc'[i] = t /\ \A j \in CallIds \ {i} : pc'[j] = pc[j] /\ pc[j] # "turn"
  <2>1. \A j \in CallIds \ {i} : pc[j] # "turn"
    BY DEF OpenLog, PagesInv, Running, Over
  <2>2. QED
    BY <1>1, <2>1 DEF Step, IInv, Pool
<1>5. ASSUME t = "turn"
      PROVE  \A e \in log'.due : e \in log'.seen \/ Ahead(e)'
  <2>1. \A n \in 1..Len(audit) : audit[n] \in log'.seen \/ Ahead(audit[n])'
    <3>1. TAKE n \in 1..Len(audit)
    <3>2. CASE Depth(n) <= PageSize
      BY <1>1, <1>3, <3>2
    <3>3. CASE ~(Depth(n) <= PageSize)
      <4>1. (log'.page - 1) * PageSize < Depth(n)'
        BY <1>1, <1>2, <3>3 DEF Depth
      <4>2. QED
        BY <1>1, <4>1 DEF Ahead
    <3>4. QED
      BY <3>2, <3>3
  <2>2. QED
    BY <1>1, <2>1
<1>6. ASSUME t = "answer"
      PROVE  log'.due \subseteq log'.seen
  <2>1. \A n \in 1..Len(audit) : Depth(n) <= PageSize
    BY <1>2, <1>6 DEF Depth
  <2>2. QED
    BY <1>1, <1>3, <2>1
<1>7. /\ log'.reader = i /\ log'.page = 2 /\ i \in 0..MaxCalls
      /\ log' = [reader |-> log'.reader, page |-> log'.page, due |-> log'.due,
                 seen |-> log'.seen]
  BY <1>1, MaxCallsAssumption DEF CallIds
<1>. HIDE DEF t
<1>8. \A j \in CallIds :
        /\ op'[j] = "readLog" =>
             pc'[j] \in {"unborn", "load", "loaded", "open", "turn", "answer"} \cup Over
        /\ pc'[j] = "turn" => j = log'.reader /\ op'[j] = "readLog"
  BY <1>1, <1>4, <1>7 DEF PagesInv
<1>9. QED
  BY <1>1, <1>4, <1>5, <1>6, <1>7, <1>8 DEF PagesInv

\* A page is turned: what it does not show of the rows ahead lies beyond it,
\* and nothing does once it is the last.
LEMMA TurnPages ==
  ASSUME IInv, PagesInv, NEW i \in CallIds, TurnPage(i)
  PROVE  PagesInv'
<1>. DEFINE t == IF log.page * PageSize >= Len(audit) THEN "answer" ELSE "turn"
<1>1. /\ op[i] = "readLog" /\ Step(i, "turn", t) /\ UNCHANGED <<op, audit>>
      /\ t \in {"answer", "turn"}
      /\ log' = [log EXCEPT !.page = @ + 1, !.seen = @ \cup Shown(log.page)]
  BY DEF TurnPage, Fetch, AtOnce, Query, Step, asked
<1>2. Len(audit) \in Nat /\ PageSize \in Nat /\ log.page \in Nat \ {0}
  BY PageSizeAssumption DEF IInv, Types, PagesInv
<1>3. /\ log.reader = i /\ i # 0 /\ pc[i] = "turn"
      /\ \A e \in log.due : e \in log.seen \/ Ahead(e)
  BY <1>1 DEF Step, PagesInv, CallIds
<1>4. log' = [reader |-> i, page |-> log.page + 1, due |-> log.due,
              seen |-> log.seen \cup Shown(log.page)]
  <2>1. log = [reader |-> log.reader, page |-> log.page, due |-> log.due, seen |-> log.seen]
    BY DEF PagesInv
  <2>2. QED
    BY <1>1, <1>3, <2>1
<1>5. ASSUME NEW e \in log.due
      PROVE  \/ e \in log'.seen
             \/ \E n \in 1..Len(audit) : audit[n] = e /\ log.page * PageSize < Depth(n)
  <2>1. CASE e \in log.seen
    BY <1>4, <2>1
  <2>2. CASE Ahead(e)
    <3>1. PICK n \in 1..Len(audit) : audit[n] = e /\ (log.page - 1) * PageSize < Depth(n)
      BY <2>2 DEF Ahead
    <3>2. CASE Depth(n) <= log.page * PageSize
      BY <1>2, <1>4, <3>1, <3>2, PageShows
    <3>3. CASE ~(Depth(n) <= log.page * PageSize)
      <4>1. Depth(n) \in Int /\ log.page * PageSize \in Int
        BY <1>2 DEF Depth
      <4>2. log.page * PageSize < Depth(n)
        BY <3>3, <4>1
      <4>3. QED
        BY <3>1, <4>2
    <3>4. QED
      BY <3>2, <3>3
  <2>3. QED
    BY <1>3, <1>5, <2>1, <2>2
<1>6. \A e \in log'.due : e \in log'.seen \/ Ahead(e)'
  <2>1. log'.page - 1 = log.page
    BY <1>2, <1>4
  <2>2. TAKE e \in log'.due
  <2>3. CASE \E n \in 1..Len(audit) : audit[n] = e /\ log.page * PageSize < Depth(n)
    BY <1>1, <2>1, <2>3 DEF Ahead, Depth
  <2>4. QED
    BY <1>4, <1>5, <2>3
<1>7. ASSUME t = "answer"
      PROVE  log'.due \subseteq log'.seen
  <2>1. log.page * PageSize \in Nat
    BY <1>2
  <2>2. \A n \in 1..Len(audit) : ~(log.page * PageSize < Depth(n))
    BY <1>2, <1>7, <2>1 DEF Depth
  <2>3. QED
    BY <1>4, <1>5, <2>2
<1>8. pc'[i] = t /\ \A j \in CallIds \ {i} : pc'[j] = pc[j]
  BY <1>1 DEF Step, IInv, Pool
<1>9. /\ log'.reader = i /\ log'.page \in Nat \ {0} /\ i \in 0..MaxCalls
      /\ log' = [reader |-> log'.reader, page |-> log'.page, due |-> log'.due,
                 seen |-> log'.seen]
  BY <1>2, <1>4, MaxCallsAssumption DEF CallIds
<1>. HIDE DEF t
<1>10. \A j \in CallIds :
         /\ op'[j] = "readLog" =>
              pc'[j] \in {"unborn", "load", "loaded", "open", "turn", "answer"} \cup Over
         /\ pc'[j] = "turn" => j = log'.reader /\ op'[j] = "readLog"
  BY <1>1, <1>3, <1>8, <1>9 DEF PagesInv
<1>11. QED
  BY <1>1, <1>6, <1>7, <1>8, <1>9, <1>10 DEF PagesInv

LEMMA PagesCallStep ==
  ASSUME IInv, PagesInv, NEW i \in CallIds, CallStep(i)
  PROVE  PagesInv'
<1>1. Alone(i) /\ Effect(i)
  BY Effects
<1>2. CASE Ask(i) \/ Authenticate(i) \/ Meter(i) \/ UnknownId(i) \/ Answer(i)
  <2>1. UNCHANGED log /\ pc'[i] # "turn"
    BY <1>2, OtherAside DEF Aside
  <2>2. ASSUME op[i] = "readLog"
        PROVE  /\ pc'[i] \in {"load", "loaded", "open", "answer"} \cup Over
               /\ pc'[i] \in {"answer", "ok"} => pc[i] = "answer"
    <3>1. pc[i] \in {"unborn", "load", "loaded", "open", "turn", "answer"} \cup Over
      BY <2>2 DEF PagesInv
    <3>2. CASE Ask(i)
      BY <2>2, <3>2 DEF Ask, Start, Step, First, TenantOps, Background, IInv, Pool, Over
    <3>3. CASE Authenticate(i)
      BY <2>2, <3>3 DEF Authenticate, TenantOps
    <3>4. CASE Meter(i) \/ UnknownId(i)
      BY <3>1, <3>4 DEF Meter, UnknownId, NotFound, AtOnce, Query, Step, Over
    <3>5. CASE Answer(i)
      BY <3>5 DEF Answer, Step, IInv, Pool, Over
    <3>6. QED
      BY <1>2, <3>2, <3>3, <3>4, <3>5
  <2>3. QED
    BY <1>1, <2>1, <2>2, PagesKept
<1>3. CASE Aside(i) /\ op[i] # "readLog"
  BY <1>1, <1>3, PagesKept DEF Aside
<1>4. CASE Load(i) \/ FinishLoad(i) \/ Fail(i)
  <2>1. UNCHANGED log
    BY <1>4 DEF Load, FinishLoad, Fail
  <2>2. pc'[i] \in {"loaded", "failed", First(op[i])}
    BY <1>4 DEF Load, FinishLoad, Fail, AtOnce, Query, Step, IInv, Pool
  <2>3. First(op[i]) # "turn" /\ (op[i] = "readLog" => First(op[i]) = "open")
    BY DEF First, TenantOps
  <2>4. QED
    BY <1>1, <2>1, <2>2, <2>3, PagesKept DEF Over
<1>5. CASE SetCache(i) \/ PgUpdateSettings(i)
  <2>1. UNCHANGED log /\ op[i] = "updateSettings"
    BY <1>5 DEF SetCache, PgUpdateSettings, Open, Within
  <2>2. pc'[i] \in {"answer", "begin", "upsert", "nested", "commit"}
    BY <1>5 DEF SetCache, PgUpdateSettings, Open, Within, Begin, InTx, Commit, Step, IInv,
                Pool
  <2>3. QED
    BY <1>1, <2>1, <2>2, PagesKept
<1>6. CASE OpenLog(i) \/ TurnPage(i)
  BY <1>6, OpenPages, TurnPages
<1>7. CASE SendMessage(i)
  BY <1>3, <1>7, SendAside
<1>8. CASE OperatorStep(i)
  BY <1>3, <1>6, <1>8, CommandAside DEF OperatorStep
<1>9. CASE TenantStep(i) \/ WorkerStep(i)
  BY <1>2, <1>3, <1>7, <1>9, CommandAside DEF TenantStep, WorkerStep
<1>10. QED
  BY <1>2, <1>4, <1>5, <1>8, <1>9 DEF CallStep, SettingsStep

LEMMA CrashPages ==
  ASSUME IInv, PagesInv, Crash
  PROVE  PagesInv'
<1>1. UNCHANGED <<op, audit, log>>
  BY DEF Crash, asked
<1>2. \A j \in CallIds : /\ pc'[j] \in Over \cup {"unborn"}
                         /\ pc'[j] \notin {"turn", "answer"}
                         /\ pc'[j] = "ok" => pc[j] = "ok"
  BY CrashEffect DEF Running, Over
<1>3. log.reader # 0 => log.reader \in CallIds
  BY MaxCallsAssumption DEF PagesInv, CallIds
<1>4. QED
  BY <1>1, <1>2, <1>3 DEF PagesInv

LEMMA PagesInvariance == Spec => []PagesInv
<1>1. Init => PagesInv
  BY MaxCallsAssumption DEF Init, CallsInit, PagesInv
<1>2. IInv /\ PagesInv /\ [Next]_vars => PagesInv'
  <2>1. ASSUME IInv, PagesInv, [Next]_vars
        PROVE  PagesInv'
    <3>1. CASE Next
      BY <2>1, <3>1, CrashPages, PagesCallStep DEF Next
    <3>2. CASE UNCHANGED vars
      BY <2>1, <3>2 DEF vars, asked, PagesInv, Ahead, Depth
    <3>3. QED
      BY <2>1, <3>1, <3>2
  <2>2. QED
    BY <2>1
<1>3. QED
  BY <1>1, <1>2, Invariance, PTL DEF Spec

\* An operator who turns the pages of the log to the end has seen every row
\* there was when it was opened, however many rows the calls push in front
\* meanwhile and whatever the size of a page.
THEOREM PagesAreWhole == Spec => []PagesMissNothing
<1>1. PagesInv => PagesMissNothing
  BY DEF PagesInv, PagesMissNothing
<1>2. QED
  BY <1>1, PagesInvariance, PTL

=============================================================================
