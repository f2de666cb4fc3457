------------------------- MODULE MessageJobsProofs -------------------------
(***************************************************************************)
(* Proofs about MessageJobs, for any number of messages, webhooks, jobs,   *)
(* attempts and posts: a receiver is only told of results that have been   *)
(* committed (ToldIsCommitted), a row that says delivered tells the truth  *)
(* (DeliveredIsTrue), and no job is run more than Attempts + 1 times.      *)
(***************************************************************************)
EXTENDS MessageJobs, TLAPS

\* What a job and its run may be, by the kind of the job.
JobsFit ==
  \A j \in Jobs :
    /\ state[j] # "unused" => msg[j] \in Messages
    /\ state[j] = "active" <=> step[j] # "off"
    /\ step[j] \in {"apply", "list", "fanout"} => IsParse(j)
    /\ step[j] \in {"get", "post", "record"} => ~IsParse(j)
    /\ step[j] = "post" => posts[j] < Posts
    /\ step[j] \in {"off", "apply", "list", "get"} => posts[j] = 0

\* How many runs a job has had: a run that died is not counted as a failure.
RunsFit ==
  \A j \in Jobs :
    /\ state[j] = "waiting" /\ j \notin stalled => runs[j] < Attempts
    /\ state[j] = "active" /\ j \notin stalled => runs[j] <= Attempts
    /\ state[j] = "waiting" => runs[j] <= Attempts
    /\ state[j] = "unused" => runs[j] = 0 /\ j \notin stalled

\* Fan-out comes after the result: the webhooks a parse run still has to
\* enqueue for, and the delivery jobs, are for messages with a result and for
\* webhooks that take its event type.
Announced(m, h) ==
  /\ m \in Messages /\ shown[m] # "pending"
  /\ h \in Hooks /\ EventType(m) \in Wants[h]

FanOutFits ==
  /\ \A j \in Jobs : step[j] \in {"list", "fanout"} => shown[msg[j]] # "pending"
  /\ \A j \in Jobs, h \in Hooks :
       h \in pending[j] => step[j] = "fanout" /\ Announced(msg[j], h)
  /\ \A j \in Jobs :
       state[j] # "unused" /\ ~IsParse(j) => Announced(msg[j], hook[j])

\* Posts and rows are those of delivery jobs.
PostsFit ==
  /\ \A d \in got : state[d[1]] # "unused" /\ ~IsParse(d[1])
  /\ \A j \in Jobs : okay[j] => step[j] = "record" /\ <<j, runs[j]>> \in got

JobsInv == TypeOK /\ JobsFit /\ RunsFit /\ FanOutFits /\ PostsFit

LEMMA JobsInvInit == Init => JobsInv
BY BoundsAssumption DEF Init, JobsInv, TypeOK, JobsFit, RunsFit, FanOutFits,
   PostsFit, IsParse

\* A new job: for a message without a parse job, or one of a fan-out.
LEMMA EnqueueStep ==
  ASSUME JobsInv, NEW m \in Messages, NEW h \in Hooks \cup {None},
         h # None => Announced(m, h), Enqueue(m, h),
         NEW j \in Jobs, UNCHANGED <<tables, step, posts, okay>>,
         pending' = pending \/ \E g \in Hooks : pending' = [pending EXCEPT ![j] = @ \ {g}]
  PROVE  JobsInv'
<1>1. PICK k \in Jobs :
        /\ state[k] = "unused"
        /\ state' = [state EXCEPT ![k] = "waiting"]
        /\ msg' = [msg EXCEPT ![k] = m]
        /\ hook' = [hook EXCEPT ![k] = h]
        /\ UNCHANGED <<runs, stalled>>
  <2>1. PICK k \in Jobs :
          /\ {i \in Jobs : state[i] # "unused"} = 1 .. k - 1
          /\ state' = [state EXCEPT ![k] = "waiting"]
          /\ msg' = [msg EXCEPT ![k] = m]
          /\ hook' = [hook EXCEPT ![k] = h]
          /\ UNCHANGED <<runs, stalled>>
    BY DEF Enqueue
  <2>2. k \notin 1 .. k - 1
    BY BoundsAssumption DEF Jobs
  <2> QED BY <2>1, <2>2
<1>2. TypeOK' BY <1>1 DEF JobsInv, TypeOK, tables
<1>3. JobsFit' BY <1>1, NoneAssumption DEF JobsInv, TypeOK, JobsFit, IsParse, tables
<1>4. RunsFit' BY <1>1, BoundsAssumption DEF JobsInv, TypeOK, RunsFit, tables
<1>5. FanOutFits'
  BY <1>1, NoneAssumption DEF JobsInv, TypeOK, FanOutFits, JobsFit, IsParse, tables, Announced
<1>6. PostsFit' BY <1>1 DEF JobsInv, TypeOK, PostsFit, IsParse, tables
<1> QED BY <1>2, <1>3, <1>4, <1>5, <1>6 DEF JobsInv

\* The end of a run, however it ends, with the queue's bookkeeping.
LEMMA EndRunStep ==
  ASSUME JobsInv, NEW j \in Jobs, state[j] = "active",
         NEW s \in {"waiting", "completed", "failed"}, EndRun(j, s),
         \/ UNCHANGED stalled /\ (s = "waiting" => Failures(j) < Attempts)
         \/ stalled' = stalled \cup {j} /\ (s = "waiting" => j \notin stalled),
         UNCHANGED <<shown, active, got>>,
         rows' \in SUBSET (Jobs \X Nat \X BOOLEAN)
  PROVE  JobsInv'
<1>1. TypeOK' BY BoundsAssumption DEF JobsInv, TypeOK, EndRun
<1>2. JobsFit' BY DEF JobsInv, TypeOK, JobsFit, EndRun, IsParse
<1>3. RunsFit' BY BoundsAssumption DEF JobsInv, TypeOK, RunsFit, EndRun, Failures
<1>4. FanOutFits' BY DEF JobsInv, TypeOK, FanOutFits, EndRun, IsParse, Announced
<1>5. PostsFit' BY DEF JobsInv, TypeOK, PostsFit, EndRun, IsParse
<1> QED BY <1>1, <1>2, <1>3, <1>4, <1>5 DEF JobsInv

\* Results are never withdrawn.
LEMMA AddEventStep ==
  ASSUME JobsInv, NEW m \in Messages, NEW r \in {"failed", "parsed"}, AddEvent(m, r)
  PROVE  /\ shown' \in [Messages -> {"pending", "failed", "parsed"}]
         /\ shown'[m] # "pending"
         /\ \A n \in Messages : shown[n] # "pending" => shown'[n] # "pending"
BY DEF JobsInv, TypeOK, AddEvent

LEMMA JobsInvStep == JobsInv /\ [Next]_vars => JobsInv'
<1> SUFFICES ASSUME JobsInv, [Next]_vars PROVE JobsInv'
  OBVIOUS
<1> USE NoneAssumption, BoundsAssumption
<1>1. ASSUME NEW m \in Messages, EnqueueParse(m) PROVE JobsInv'
  <2>1. PICK j \in Jobs : TRUE
    BY <1>1 DEF EnqueueParse, Enqueue
  <2> QED BY <1>1, <2>1, EnqueueStep DEF EnqueueParse, run, tables
<1>2. ASSUME NEW m \in Messages, NEW r \in {"failed", "parsed"}, AddEvent(m, r),
             UNCHANGED <<active, rows, got, queue, run>>
      PROVE JobsInv'
  <2>1. PICK new : new = shown' /\ new \in [Messages -> {"pending", "failed", "parsed"}]
                   /\ \A n \in Messages : shown[n] # "pending" => new[n] # "pending"
    BY <1>2, AddEventStep
  <2>2. TypeOK' BY <1>2, <2>1 DEF JobsInv, TypeOK, queue, run
  <2>3. JobsFit' BY <1>2 DEF JobsInv, JobsFit, IsParse, queue, run
  <2>4. RunsFit' BY <1>2 DEF JobsInv, RunsFit, queue, run
  <2>5. FanOutFits'
    BY <1>2, <2>1 DEF JobsInv, TypeOK, JobsFit, FanOutFits, IsParse, Announced, queue, run
  <2>6. PostsFit' BY <1>2 DEF JobsInv, PostsFit, IsParse, queue, run
  <2> QED BY <2>2, <2>3, <2>4, <2>5, <2>6 DEF JobsInv
<1>3. ASSUME NEW h \in Hooks, CreateWebhook(h) PROVE JobsInv'
  BY <1>3 DEF CreateWebhook, JobsInv, TypeOK, JobsFit, RunsFit, FanOutFits,
     PostsFit, IsParse, Announced, queue, run
<1>4. ASSUME NEW j \in Jobs, StartRun(j) PROVE JobsInv'
  <2>1. TypeOK' BY <1>4 DEF StartRun, JobsInv, TypeOK, RunsFit, tables
  <2>2. JobsFit' BY <1>4 DEF StartRun, JobsInv, TypeOK, JobsFit, IsParse
  <2>3. RunsFit' BY <1>4 DEF StartRun, JobsInv, TypeOK, RunsFit
  <2>4. FanOutFits'
    BY <1>4 DEF StartRun, JobsInv, TypeOK, JobsFit, FanOutFits, IsParse, Announced, tables
  <2>5. PostsFit'
    BY <1>4 DEF StartRun, JobsInv, TypeOK, JobsFit, PostsFit, IsParse, tables
  <2> QED BY <2>1, <2>2, <2>3, <2>4, <2>5 DEF JobsInv
<1>5. ASSUME NEW j \in Jobs, ApplyResult(j) PROVE JobsInv'
  <2>1. msg[j] \in Messages /\ Result(msg[j]) \in {"failed", "parsed"}
    BY <1>5 DEF ApplyResult, JobsInv, JobsFit, TypeOK, Result
  <2>2. PICK new : /\ new = shown' /\ new \in [Messages -> {"pending", "failed", "parsed"}]
                   /\ new[msg[j]] # "pending"
                   /\ \A n \in Messages : shown[n] # "pending" => new[n] # "pending"
    BY <1>5, <2>1, AddEventStep DEF ApplyResult
  <2>3. TypeOK' BY <1>5, <2>2 DEF ApplyResult, JobsInv, TypeOK, queue
  <2>4. JobsFit' BY <1>5 DEF ApplyResult, JobsInv, TypeOK, JobsFit, IsParse, queue
  <2>5. RunsFit' BY <1>5 DEF ApplyResult, JobsInv, RunsFit, queue
  <2>6. FanOutFits'
    BY <1>5, <2>1, <2>2
       DEF ApplyResult, JobsInv, TypeOK, JobsFit, FanOutFits, IsParse, Announced, queue
  <2>7. PostsFit' BY <1>5 DEF ApplyResult, JobsInv, PostsFit, IsParse, queue
  <2> QED BY <2>3, <2>4, <2>5, <2>6, <2>7 DEF JobsInv
<1>6. ASSUME NEW j \in Jobs, ListWebhooks(j) PROVE JobsInv'
  <2>1. TypeOK' BY <1>6 DEF ListWebhooks, JobsInv, TypeOK, tables, queue
  <2>2. JobsFit' BY <1>6 DEF ListWebhooks, JobsInv, TypeOK, JobsFit, IsParse, queue
  <2>3. RunsFit' BY <1>6 DEF ListWebhooks, JobsInv, RunsFit, queue
  <2>4. FanOutFits'
    BY <1>6 DEF ListWebhooks, JobsInv, TypeOK, JobsFit, FanOutFits, IsParse,
       Announced, tables, queue
  <2>5. PostsFit' BY <1>6 DEF ListWebhooks, JobsInv, PostsFit, IsParse, tables, queue
  <2> QED BY <2>1, <2>2, <2>3, <2>4, <2>5 DEF JobsInv
<1>7. ASSUME NEW j \in Jobs, NEW h \in Hooks, EnqueueDelivery(j, h) PROVE JobsInv'
  <2>1. Announced(msg[j], h)
    BY <1>7 DEF EnqueueDelivery, JobsInv, FanOutFits
  <2> QED BY <1>7, <2>1, EnqueueStep DEF EnqueueDelivery, Announced, tables
<1>8. ASSUME NEW j \in Jobs, GetWebhook(j) PROVE JobsInv'
  <2>1. TypeOK' BY <1>8 DEF GetWebhook, JobsInv, TypeOK, tables, queue
  <2>2. JobsFit' BY <1>8 DEF GetWebhook, JobsInv, TypeOK, JobsFit, IsParse, queue
  <2>3. RunsFit' BY <1>8 DEF GetWebhook, JobsInv, RunsFit, queue
  <2>4. FanOutFits'
    BY <1>8 DEF GetWebhook, JobsInv, TypeOK, FanOutFits, IsParse, Announced, tables, queue
  <2>5. PostsFit' BY <1>8 DEF GetWebhook, JobsInv, PostsFit, IsParse, tables, queue
  <2> QED BY <2>1, <2>2, <2>3, <2>4, <2>5 DEF JobsInv
<1>9. ASSUME NEW j \in Jobs, Post(j) PROVE JobsInv'
  <2>1. TypeOK' BY <1>9 DEF Post, JobsInv, TypeOK, JobsFit, queue
  <2>2. JobsFit' BY <1>9 DEF Post, JobsInv, TypeOK, JobsFit, IsParse, queue
  <2>3. RunsFit' BY <1>9 DEF Post, JobsInv, RunsFit, queue
  <2>4. FanOutFits'
    BY <1>9 DEF Post, JobsInv, TypeOK, FanOutFits, IsParse, Announced, queue
  <2>5. PostsFit' BY <1>9 DEF Post, JobsInv, TypeOK, JobsFit, PostsFit, IsParse, queue
  <2> QED BY <2>1, <2>2, <2>3, <2>4, <2>5 DEF JobsInv
<1>10. ASSUME NEW j \in Jobs,
              CompleteParse(j) \/ RecordDelivery(j) \/ RunFailure(j)
       PROVE JobsInv'
  <2>1. state[j] = "active"
    BY <1>10 DEF CompleteParse, RecordDelivery, RunFailure, FailRun, RecordThrow,
       StallRun, JobsInv, JobsFit
  <2>2. /\ UNCHANGED <<shown, active, got>>
        /\ rows' \subseteq rows \cup {<<j, runs[j], FALSE>>, <<j, runs[j], okay[j]>>}
    BY <1>10 DEF CompleteParse, RecordDelivery, RunFailure, FailRun, RecordThrow,
       StallRun, tables
  <2>4. rows' \in SUBSET (Jobs \X Nat \X BOOLEAN)
    <3>1. /\ <<j, runs[j], FALSE>> \in Jobs \X Nat \X BOOLEAN
          /\ <<j, runs[j], okay[j]>> \in Jobs \X Nat \X BOOLEAN
      <4>1. runs[j] \in Nat /\ okay[j] \in BOOLEAN
        BY DEF JobsInv, TypeOK
      <4> QED BY <4>1
    <3>2. rows \subseteq Jobs \X Nat \X BOOLEAN
      BY DEF JobsInv, TypeOK
    <3> QED BY <2>2, <3>1, <3>2
  <2>3. \/ \E s \in {"waiting", "completed", "failed"} :
             EndRun(j, s) /\ UNCHANGED stalled /\ (s = "waiting" => Failures(j) < Attempts)
        \/ \E s \in {"waiting", "completed", "failed"} :
             /\ EndRun(j, s) /\ stalled' = stalled \cup {j}
             /\ s = "waiting" => j \notin stalled
    BY <1>10 DEF CompleteParse, RecordDelivery, RunFailure, FailRun, RecordThrow,
       StallRun, Throw
  <2> QED BY <2>1, <2>2, <2>3, <2>4, EndRunStep
<1>11. CASE UNCHANGED vars
  BY <1>11 DEF vars, tables, queue, run, JobsInv, TypeOK, JobsFit, RunsFit,
     FanOutFits, PostsFit, IsParse, Announced
<1>12. ASSUME NEW m \in Messages, AdminReparseMessage(m) \/ ReparseScript(m)
       PROVE JobsInv'
  BY <1>12, <1>2 DEF AdminReparseMessage, ReparseScript, Result
<1> QED
  BY <1>1, <1>3, <1>4, <1>5, <1>6, <1>7, <1>8, <1>9, <1>10, <1>11, <1>12
     DEF Next, Clients, RunStep

\* Types, and the bound on the runs of a job: Attempts of them may throw, and
\* one more may die with its worker.
THEOREM RunsAreBounded == Spec => []TypeOK
BY JobsInvInit, JobsInvStep, PTL DEF Spec, JobsInv

\* A receiver has only got events it has subscribed to, about messages whose
\* result is committed and stays so, however often the runs before it failed.
THEOREM ToldIsCommitted == Spec => []ToldAfterResult
<1>1. JobsInv => ToldAfterResult
  BY DEF JobsInv, TypeOK, FanOutFits, PostsFit, Announced, ToldAfterResult
<1> QED BY <1>1, JobsInvInit, JobsInvStep, PTL DEF Spec

\* 'delivered' is only recorded by a run whose post was received.
THEOREM DeliveredIsTrue == Spec => []DeliveredIsReceived
<1>1. Init => DeliveredIsReceived
  BY DEF Init, DeliveredIsReceived
<1>2. JobsInv /\ DeliveredIsReceived /\ [Next]_vars => DeliveredIsReceived'
  <2> SUFFICES ASSUME JobsInv, DeliveredIsReceived, [Next]_vars,
                      NEW d \in rows', d[3]
               PROVE <<d[1], d[2]>> \in got'
    BY DEF DeliveredIsReceived
  <2>1. got \subseteq got'
    BY DEF Next, Clients, RunStep, RunFailure, EnqueueParse, AdminReparseMessage,
       ReparseScript, CreateWebhook, StartRun, ApplyResult, ListWebhooks,
       EnqueueDelivery, CompleteParse, GetWebhook, Post, RecordDelivery, FailRun,
       RecordThrow, StallRun, vars, tables
  <2>2. \/ UNCHANGED rows
        \/ \E j \in Jobs : rows' \subseteq rows \cup {<<j, runs[j], FALSE>>}
        \/ \E j \in Jobs : rows' = rows \cup {<<j, runs[j], okay[j]>>}
    BY DEF Next, Clients, RunStep, RunFailure, EnqueueParse, AdminReparseMessage,
       ReparseScript, CreateWebhook, StartRun, ApplyResult, ListWebhooks,
       EnqueueDelivery, CompleteParse, GetWebhook, Post, RecordDelivery, FailRun,
       RecordThrow, StallRun, vars, tables
  <2>3. d \in rows \/ \E j \in Jobs : okay[j] /\ d[1] = j /\ d[2] = runs[j]
    <3>1. CASE UNCHANGED rows
      BY <3>1
    <3>2. ASSUME NEW j \in Jobs, rows' \subseteq rows \cup {<<j, runs[j], FALSE>>}
          PROVE d \in rows
      <4>1. d # <<j, runs[j], FALSE>>
        <5>1. <<j, runs[j], FALSE>>[3] = FALSE
          OBVIOUS
        <5> QED BY <5>1, Zenon
      <4> QED BY <3>2, <4>1
    <3>3. ASSUME NEW j \in Jobs, rows' = rows \cup {<<j, runs[j], okay[j]>>}
          PROVE d \in rows \/ (okay[j] /\ d[1] = j /\ d[2] = runs[j])
      BY <3>3
    <3>4. CASE \E j \in Jobs : rows' \subseteq rows \cup {<<j, runs[j], FALSE>>}
      BY <3>4, <3>2
    <3>5. CASE \E j \in Jobs : rows' = rows \cup {<<j, runs[j], okay[j]>>}
      BY <3>5, <3>3
    <3> QED BY <2>2, <3>1, <3>4, <3>5
  <2> QED BY <2>1, <2>3 DEF DeliveredIsReceived, JobsInv, PostsFit
<1> QED BY <1>1, <1>2, JobsInvInit, JobsInvStep, PTL DEF Spec

=============================================================================
