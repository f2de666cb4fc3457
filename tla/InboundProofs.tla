--------------------------- MODULE InboundProofs ---------------------------
(***************************************************************************)
(* Theorems about Inbound, for any mails, messages and concurrent calls.   *)
(* The inductive invariant is TypeOK with CallsFit: what a call writes     *)
(* after an await comes from the file and the row it remembers.            *)
(***************************************************************************)
EXTENDS Inbound, TLAPS

LEMMA ProviderIdType == \A f \in Files : ProviderId(f) \in ProviderIds
  BY DEF Files, ProviderId, ProviderIds, Folders

CallInv == TypeOK /\ CallsFit

LEMMA CallInvInit == Init => CallInv
  BY DEF Init, CallInv, TypeOK, CallsFit

LEMMA CallInvStep == CallInv /\ [Next]_vars => CallInv'
<1> SUFFICES ASSUME CallInv, [Next]_vars PROVE CallInv'
  OBVIOUS
<1> USE DEF CallInv, mailVars
<1>1. ASSUME NEW m \in Mails, Arrive(m) \/ Open(m) \/ Expunge(m)
      PROVE CallInv'
  BY <1>1 DEF TypeOK, CallsFit, Arrive, Open, Expunge, Folders, passVars, apiVars
<1>2. CASE StartPass
  BY <1>2 DEF TypeOK, CallsFit, StartPass, apiVars
<1>3. ASSUME NEW f \in Files, FileVanished(f) PROVE CallInv'
  BY <1>3 DEF TypeOK, CallsFit, FileVanished, AbortPass, apiVars
<1>4. ASSUME NEW f \in Files, SkipFile(f) PROVE CallInv'
  BY <1>4 DEF TypeOK, CallsFit, SkipFile, apiVars
<1>5. ASSUME NEW f \in Files, NEW c \in Calls, PostFile(f, c) PROVE CallInv'
  BY <1>5 DEF TypeOK, CallsFit, PostFile
<1>6. CASE FinishPass \/ TearStateFile \/ LosePass
  BY <1>6 DEF TypeOK, CallsFit, FinishPass, TearStateFile, LosePass, AbortPass,
              apiVars
<1>7. ASSUME NEW c \in Calls, Fail(c), UNCHANGED <<mailVars, stored, queued>>
      PROVE CallInv'
  BY <1>7 DEF TypeOK, CallsFit, Fail, AbortPass, passVars
<1>8. ASSUME NEW c \in Calls, Refuse(c) \/ FailCall(c) PROVE CallInv'
  BY <1>8, <1>7 DEF Refuse, FailCall
<1>9. ASSUME NEW c \in Calls, Lookup(c) PROVE CallInv'
  BY <1>9 DEF TypeOK, CallsFit, Lookup, passVars, Has
<1>10. ASSUME NEW c \in Calls, Insert(c) PROVE CallInv'
  <2>1. CASE Fail(c) /\ UNCHANGED <<stored, queued>>
    BY <2>1, <1>10, <1>7 DEF Insert
  <2>2. ASSUME NEW i \in Messages,
               stored[i] = Nobody,
               stored' = [stored EXCEPT ![i] = ProviderId(about[c])],
               row' = [row EXCEPT ![c] = i],
               at' = [at EXCEPT ![c] = "enqueue"],
               at[c] = "insert",
               UNCHANGED <<passVars, about, queued, mailVars>>
        PROVE CallInv'
    <3>1. about[c] \in Files /\ ProviderId(about[c]) \in ProviderIds
      BY <2>2, ProviderIdType DEF CallsFit
    <3>2. TypeOK'
      BY <2>2, <3>1 DEF TypeOK, passVars
    <3>3. \A d \in Calls : at[d] \in {"enqueue", "answer"} => row[d] # i
      <4> SUFFICES ASSUME NEW d \in Calls, at[d] \in {"enqueue", "answer"}
                   PROVE row[d] # i
        OBVIOUS
      <4>1. about[d] \in Files /\ stored[row[d]] = ProviderId(about[d])
        BY DEF CallsFit
      <4>2. stored[row[d]] \in ProviderIds
        BY <4>1, ProviderIdType
      <4> QED BY <4>2, <2>2, NobodyAssumption
    <3>4. CallsFit'
      BY <2>2, <3>1, <3>3 DEF TypeOK, CallsFit
    <3> QED BY <3>2, <3>4
  <2> QED BY <2>1, <2>2, <1>10 DEF Insert, Has
<1>11. ASSUME NEW c \in Calls, Enqueue(c) \/ Answer(c) PROVE CallInv'
  BY <1>11 DEF TypeOK, CallsFit, Enqueue, Answer, passVars
<1>12. CASE UNCHANGED vars
  BY <1>12 DEF TypeOK, CallsFit, vars, passVars, apiVars
<1> QED
  BY <1>1, <1>2, <1>3, <1>4, <1>5, <1>6, <1>8, <1>9, <1>10, <1>11, <1>12
     DEF Next, Mailu, Pass, Api

LEMMA CallInvariance == Spec => []CallInv
BY CallInvInit, CallInvStep, PTL DEF Spec

\* Type correctness of the inbound path: the rows hold provider ids, the state
\* file and the calls name files of the Maildir.
THEOREM InboundTypes == Spec => []TypeOK
BY CallInvariance, PTL DEF CallInv

\* A call goes on with the file and the row it began with, whichever calls
\* and passes fail beside it.
THEOREM CallsKeepTheirMessage == Spec => []CallsFit
BY CallInvariance, PTL DEF CallInv

-----------------------------------------------------------------------------
(* One row per provider id.                                                *)

LEMMA UniqueStep == CallInv /\ UniqueMessages /\ [Next]_vars => UniqueMessages'
<1> SUFFICES ASSUME CallInv, UniqueMessages, [Next]_vars PROVE UniqueMessages'
  OBVIOUS
<1>1. CASE UNCHANGED stored
  BY <1>1 DEF UniqueMessages
<1>2. ASSUME NEW c \in Calls, NEW i \in Messages,
             \A j \in Messages : stored[j] # ProviderId(about[c]),
             stored' = [stored EXCEPT ![i] = ProviderId(about[c])]
      PROVE UniqueMessages'
  BY <1>2 DEF UniqueMessages, CallInv, TypeOK
<1>3. UNCHANGED stored \/ \E c \in Calls, i \in Messages :
        /\ \A j \in Messages : stored[j] # ProviderId(about[c])
        /\ stored' = [stored EXCEPT ![i] = ProviderId(about[c])]
  BY DEF Next, Mailu, Pass, Api, vars, apiVars, passVars, Arrive, Open, Expunge,
         StartPass, FileVanished, SkipFile, PostFile, FinishPass, TearStateFile,
         LosePass, Refuse, Lookup, Insert, Enqueue, Answer, FailCall, Has
<1> QED BY <1>1, <1>2, <1>3

\* However often and however concurrently a mail's file is posted, its
\* provider id has one row: the unique index decides what the SELECT before
\* the INSERT cannot.
THEOREM MessagesAreUnique == Spec => []UniqueMessages
<1>1. Init => UniqueMessages
  BY DEF Init, UniqueMessages
<1> QED BY <1>1, CallInvInit, CallInvStep, UniqueStep, PTL DEF Spec

-----------------------------------------------------------------------------
(* The state file tells the truth.                                         *)

\* Rows stay: what has been stored under a provider id is stored for good.
LEMMA RowsStay ==
  ASSUME CallInv, [Next]_vars, NEW p \in ProviderIds, NEW i \in Messages, Has(i, p)
  PROVE  Has(i, p)'
<1>1. UNCHANGED stored \/ \E c \in Calls, j \in Messages :
        /\ stored[j] = Nobody
        /\ stored' = [stored EXCEPT ![j] = ProviderId(about[c])]
  BY DEF Next, Mailu, Pass, Api, vars, apiVars, passVars, Arrive, Open, Expunge,
         StartPass, FileVanished, SkipFile, PostFile, FinishPass, TearStateFile,
         LosePass, Refuse, Lookup, Insert, Enqueue, Answer, FailCall, Has
<1>2. stored[i] # Nobody
  BY NobodyAssumption DEF Has
<1> QED BY <1>1, <1>2 DEF Has, CallInv, TypeOK

\* The files a step adds to the state are those of the answered call.
LEMMA MarkedGrows ==
  ASSUME CallInv, [Next]_vars
  PROVE  \A f \in (saved \cup marked)' :
           f \in saved \cup marked
           \/ \E c \in Calls : at[c] = "answer" /\ f = about[c]
<1>1. ASSUME NEW c \in Calls, Fail(c)
      PROVE (saved \cup marked)' \subseteq saved \cup marked
  BY <1>1 DEF Fail, AbortPass, passVars
<1> QED
  BY <1>1 DEF Next, Mailu, Pass, Api, vars, apiVars, passVars, Arrive, Open,
     Expunge, StartPass, FileVanished, SkipFile, PostFile, FinishPass,
     TearStateFile, LosePass, AbortPass, Refuse, Lookup, Insert, Enqueue,
     Answer, FailCall

LEMMA QueuedGrows ==
  ASSUME CallInv, [Next]_vars
  PROVE  \A i \in queued' :
           i \in queued \/ \E c \in Calls : at[c] = "enqueue" /\ i = row[c]
BY DEF Next, Mailu, Pass, Api, vars, apiVars, Arrive, Open, Expunge, StartPass,
       FileVanished, SkipFile, PostFile, FinishPass, TearStateFile, LosePass,
       Refuse, Lookup, Insert, Enqueue, Answer, FailCall

LEMMA MarkedStep == CallInv /\ MarkedIsStored /\ [Next]_vars => MarkedIsStored'
<1> SUFFICES ASSUME CallInv, MarkedIsStored, [Next]_vars PROVE MarkedIsStored'
  OBVIOUS
<1>1. ASSUME NEW f \in (saved \cup marked)'
      PROVE \E i \in Messages : Has(i, ProviderId(f))'
  <2>1. PICK i \in Messages : Has(i, ProviderId(f))
    BY <1>1, MarkedGrows DEF MarkedIsStored, CallInv, CallsFit, Has
  <2>2. f \in Files
    BY <1>1, CallInvStep DEF CallInv, TypeOK
  <2> QED BY <2>1, <2>2, RowsStay, ProviderIdType
<1>2. ASSUME NEW i \in queued' PROVE stored'[i] # Nobody
  <2>1. i \in Messages /\ stored[i] # Nobody
    BY <1>2, QueuedGrows, ProviderIdType, NobodyAssumption
       DEF MarkedIsStored, CallInv, CallsFit, TypeOK
  <2>2. stored[i] \in ProviderIds
    BY <2>1 DEF CallInv, TypeOK
  <2> QED BY <2>1, <2>2, RowsStay, NobodyAssumption DEF Has
<1> QED BY <1>1, <1>2 DEF MarkedIsStored, Has

\* Nothing makes the sync skip a mail that it has not handed over: a file the
\* state names has its message, through aborted passes, lost answers and torn
\* state files; and parse jobs are only enqueued for stored messages.
THEOREM StateFileIsTrue == Spec => []MarkedIsStored
<1>1. Init => MarkedIsStored
  BY DEF Init, MarkedIsStored
<1> QED BY <1>1, CallInvInit, CallInvStep, MarkedStep, PTL DEF Spec

=============================================================================
