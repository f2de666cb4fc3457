---------------------------- MODULE MessageJobs ----------------------------
(***************************************************************************)
(* The two job types that run in production: message.parse, which writes   *)
(* what the parser found in a stored message and enqueues one              *)
(* webhook.deliver job per webhook of the tenant, and webhook.deliver,     *)
(* which posts the event and records how that went.                        *)
(*                                                                         *)
(* The queue is BullMQ (external): it runs a job again after a run that    *)
(* threw, up to Attempts runs, and once more after a run whose worker died.*)
(* A worker takes one job of each type at a time.  Steps are the awaits of *)
(* the job handlers.  Message rows and webhooks are never deleted.         *)
(***************************************************************************)
EXTENDS Naturals, FiniteSets

CONSTANTS Messages,  \* stored messages
          Otp,       \* those in which the parser finds a code or a link
          Hooks,     \* webhooks of the tenant
          Wants,     \* the event types a webhook is subscribed to
          MaxJobs,   \* bound on the jobs ever enqueued
          Attempts,  \* QUEUE_JOB_ATTEMPTS
          Posts,     \* WEBHOOK_RETRY_ATTEMPTS
          None       \* the webhook of a parse job, the message of no job

EventTypes == {"otp.extracted", "mail.received"}

Jobs == 1 .. MaxJobs

ASSUME OtpAssumption == Otp \subseteq Messages
ASSUME WantsAssumption == Wants \in [Hooks -> SUBSET EventTypes]
ASSUME BoundsAssumption == Attempts \in Nat \ {0} /\ Posts \in Nat \ {0}
                            /\ MaxJobs \in Nat
ASSUME NoneAssumption == None \notin Messages \cup Hooks

VARIABLES shown,    \* what the tenant is shown of a message's parsing
          active,   \* webhooks with status 'active'
          rows,     \* webhook_deliveries: <<job, run, delivered>>
          got,      \* the posts receivers have got: <<job, run>>
          msg,      \* the message of a job
          hook,     \* the webhook of a delivery job
          state,    \* BullMQ's state of a job
          runs,     \* runs of a job that have begun
          stalled,  \* jobs one of whose runs died with its worker
          step,     \* where the current run is
          pending,  \* webhooks a parse run has still to enqueue jobs for
          posts,    \* posts of the current run
          okay      \* the last of them was answered 2xx

tables == <<shown, active, rows, got>>
queue == <<msg, hook, state, runs, stalled>>
run == <<step, pending, posts, okay>>
vars == <<tables, queue, run>>

TypeOK ==
  /\ shown \in [Messages -> {"pending", "failed", "parsed"}]
  /\ active \in SUBSET Hooks
  /\ rows \in SUBSET (Jobs \X Nat \X BOOLEAN)
  /\ got \in SUBSET (Jobs \X Nat)
  /\ msg \in [Jobs -> Messages \cup {None}]
  /\ hook \in [Jobs -> Hooks \cup {None}]
  /\ state \in [Jobs -> {"unused", "waiting", "active", "completed", "failed"}]
  /\ runs \in [Jobs -> 0 .. Attempts + 1]
  /\ stalled \in SUBSET Jobs
  /\ step \in [Jobs -> {"off", "apply", "list", "fanout", "get", "post", "record"}]
  /\ pending \in [Jobs -> SUBSET Hooks]
  /\ posts \in [Jobs -> 0 .. Posts]
  /\ okay \in [Jobs -> BOOLEAN]

Init ==
  /\ shown = [m \in Messages |-> "pending"]
  /\ active = {}
  /\ rows = {}
  /\ got = {}
  /\ msg = [j \in Jobs |-> None]
  /\ hook = [j \in Jobs |-> None]
  /\ state = [j \in Jobs |-> "unused"]
  /\ runs = [j \in Jobs |-> 0]
  /\ stalled = {}
  /\ step = [j \in Jobs |-> "off"]
  /\ pending = [j \in Jobs |-> {}]
  /\ posts = [j \in Jobs |-> 0]
  /\ okay = [j \in Jobs |-> FALSE]

IsParse(j) == hook[j] = None

EventType(m) == IF m \in Otp THEN "otp.extracted" ELSE "mail.received"

-----------------------------------------------------------------------------
(* The queue.                                                              *)

\* queue.enqueue: a new job for message m and webhook h; ids are counted up.
Enqueue(m, h) ==
  \E j \in Jobs :
    /\ {k \in Jobs : state[k] # "unused"} = 1 .. j - 1
    /\ state' = [state EXCEPT ![j] = "waiting"]
    /\ msg' = [msg EXCEPT ![j] = m]
    /\ hook' = [hook EXCEPT ![j] = h]
    /\ UNCHANGED <<runs, stalled>>

\* A message has been ingested: its one parse job.
EnqueueParse(m) ==
  /\ \A j \in Jobs : ~(msg[j] = m /\ IsParse(j))
  /\ Enqueue(m, None)
  /\ UNCHANGED <<tables, run>>

\* A worker takes up a waiting job, one of each type at a time.
StartRun(j) ==
  /\ state[j] = "waiting"
  /\ \A k \in Jobs : state[k] = "active" => IsParse(k) # IsParse(j)
  /\ state' = [state EXCEPT ![j] = "active"]
  /\ runs' = [runs EXCEPT ![j] = @ + 1]
  /\ step' = [step EXCEPT ![j] = IF IsParse(j) THEN "apply" ELSE "get"]
  /\ UNCHANGED <<tables, msg, hook, stalled, pending, posts, okay>>

\* The run of j is over and leaves the job in state s.
EndRun(j, s) ==
  /\ state' = [state EXCEPT ![j] = s]
  /\ step' = [step EXCEPT ![j] = "off"]
  /\ pending' = [pending EXCEPT ![j] = {}]
  /\ posts' = [posts EXCEPT ![j] = 0]
  /\ okay' = [okay EXCEPT ![j] = FALSE]
  /\ UNCHANGED <<msg, hook, runs>>

\* Runs that threw: all but the one that died.
Failures(j) == IF j \in stalled THEN runs[j] - 1 ELSE runs[j]

Throw(j) ==
  /\ EndRun(j, IF Failures(j) < Attempts THEN "waiting" ELSE "failed")
  /\ UNCHANGED stalled

\* A statement, Redis or the reading of the secret fails in the middle of a
\* run.  (A failed post does not throw.)
FailRun(j) ==
  /\ state[j] = "active" /\ step[j] # "post"
  /\ Throw(j)
  /\ UNCHANGED tables

\* The worker dies: the job's lock expires, and it is run again, once.
StallRun(j) ==
  /\ state[j] = "active"
  /\ EndRun(j, IF j \in stalled THEN "failed" ELSE "waiting")
  /\ stalled' = stalled \cup {j}
  /\ UNCHANGED tables

-----------------------------------------------------------------------------
(* message.parse.                                                          *)

\* What Postgres shows once an event of the given result has been added: one
\* otp.extracted event among the message's events is enough for 'parsed'.
AddEvent(m, result) ==
  shown' = [shown EXCEPT ![m] =
              IF @ = "parsed" THEN @ ELSE result]

Result(m) == IF m \in Otp THEN "parsed" ELSE "failed"

\* applyMessageParseResult.
ApplyResult(j) ==
  /\ step[j] = "apply"
  /\ AddEvent(msg[j], Result(msg[j]))
  /\ step' = [step EXCEPT ![j] = "list"]
  /\ UNCHANGED <<active, rows, got, queue, pending, posts, okay>>

\* Mutant: the webhooks are listed, and told, before the result is written.
ListWithoutResult(j) ==
  /\ step[j] \in {"apply", "list"}
  /\ pending' = [pending EXCEPT ![j] =
                   {h \in active : EventType(msg[j]) \in Wants[h]}]
  /\ step' = [step EXCEPT ![j] = "fanout"]
  /\ UNCHANGED <<tables, queue, posts, okay>>

\* getMessage, which finds the message, and listActiveWebhooksByEvent.
ListWebhooks(j) ==
  /\ step[j] = "list"
  /\ pending' = [pending EXCEPT ![j] =
                   {h \in active : EventType(msg[j]) \in Wants[h]}]
  /\ step' = [step EXCEPT ![j] = "fanout"]
  /\ UNCHANGED <<tables, queue, posts, okay>>

\* One turn of the loop over the webhooks.
EnqueueDelivery(j, h) ==
  /\ step[j] = "fanout"
  /\ h \in pending[j]
  /\ Enqueue(msg[j], h)
  /\ pending' = [pending EXCEPT ![j] = @ \ {h}]
  /\ UNCHANGED <<tables, step, posts, okay>>

CompleteParse(j) ==
  /\ step[j] = "fanout"
  /\ pending[j] = {}
  /\ EndRun(j, "completed")
  /\ UNCHANGED <<tables, stalled>>

-----------------------------------------------------------------------------
(* webhook.deliver.                                                        *)

\* getWebhook, which finds the webhook, whatever its status.
GetWebhook(j) ==
  /\ step[j] = "get"
  /\ step' = [step EXCEPT ![j] = "post"]
  /\ UNCHANGED <<tables, queue, pending, posts, okay>>

\* dispatch throws before its first post (the secret cannot be decrypted):
\* the failure is recorded, if that does not fail too, and thrown on.
RecordThrow(j) ==
  /\ step[j] = "post" /\ posts[j] = 0
  /\ rows' \in {rows, rows \cup {<<j, runs[j], FALSE>>}}
  /\ Throw(j)
  /\ UNCHANGED <<shown, active, got>>

\* Mutant: a timeout counts as an answer.
PostAssumingSuccess(j) ==
  /\ step[j] = "post"
  /\ posts' = [posts EXCEPT ![j] = @ + 1]
  /\ got' \in {got, got \cup {<<j, runs[j]>>}}
  /\ okay' = [okay EXCEPT ![j] = TRUE]
  /\ step' = [step EXCEPT ![j] = "record"]
  /\ UNCHANGED <<shown, active, rows, queue, pending>>

\* Mutant: one post too many before the dispatcher gives up.
PostOnceMore(j) ==
  /\ step[j] = "post"
  /\ posts' = [posts EXCEPT ![j] = @ + 1]
  /\ \E reached, ok \in BOOLEAN :
       /\ ok => reached
       /\ got' = IF reached THEN got \cup {<<j, runs[j]>>} ELSE got
       /\ okay' = [okay EXCEPT ![j] = ok]
       /\ step' = [step EXCEPT ![j] =
                     IF ok \/ posts[j] = Posts THEN "record" ELSE "post"]
  /\ UNCHANGED <<shown, active, rows, queue, pending>>

\* One attempt of the dispatcher, with the same delivery id as the others of
\* its run.  It may reach the receiver and yet not be answered 2xx in time.
Post(j) ==
  /\ step[j] = "post"
  /\ posts' = [posts EXCEPT ![j] = @ + 1]
  /\ \E reached, ok \in BOOLEAN :
       /\ ok => reached
       /\ got' = IF reached THEN got \cup {<<j, runs[j]>>} ELSE got
       /\ okay' = [okay EXCEPT ![j] = ok]
       /\ step' = [step EXCEPT ![j] =
                     IF ok \/ posts[j] + 1 = Posts THEN "record" ELSE "post"]
  /\ UNCHANGED <<shown, active, rows, queue, pending>>

\* Mutant: only a delivery that succeeded is recorded.
RecordSuccess(j) ==
  /\ step[j] = "record"
  /\ rows' = IF okay[j] THEN rows \cup {<<j, runs[j], TRUE>>} ELSE rows
  /\ EndRun(j, "completed")
  /\ UNCHANGED <<shown, active, got, stalled>>

\* recordWebhookDelivery, and the job is completed, also with ok = false.
RecordDelivery(j) ==
  /\ step[j] = "record"
  /\ rows' = rows \cup {<<j, runs[j], okay[j]>>}
  /\ EndRun(j, "completed")
  /\ UNCHANGED <<shown, active, got, stalled>>

-----------------------------------------------------------------------------
(* The tenant and the operators.                                           *)

CreateWebhook(h) ==
  /\ active' = active \cup {h}
  /\ UNCHANGED <<shown, rows, got, queue, run>>

\* POST /v2/admin/messages/{id}/reparse: a fixed code and link, not the
\* parser's, are added to the message's events.
AdminReparseMessage(m) ==
  /\ AddEvent(m, "parsed")
  /\ UNCHANGED <<active, rows, got, queue, run>>

\* scripts/reparse-messages.js --apply, for a message whose newest event is
\* not what the parser finds (which `shown' may hide).
ReparseScript(m) ==
  /\ AddEvent(m, Result(m))
  /\ UNCHANGED <<active, rows, got, queue, run>>

-----------------------------------------------------------------------------
RunStep(j) ==
  \/ ApplyResult(j)
  \/ ListWebhooks(j)
  \/ \E h \in Hooks : EnqueueDelivery(j, h)
  \/ CompleteParse(j)
  \/ GetWebhook(j)
  \/ Post(j)
  \/ RecordDelivery(j)

RunFailure(j) == FailRun(j) \/ RecordThrow(j) \/ StallRun(j)

Clients ==
  \/ \E m \in Messages :
       EnqueueParse(m) \/ AdminReparseMessage(m) \/ ReparseScript(m)
  \/ \E h \in Hooks : CreateWebhook(h)

Next ==
  \/ Clients
  \/ \E j \in Jobs : StartRun(j) \/ RunStep(j) \/ RunFailure(j)

Spec == Init /\ [][Next]_vars

\* The worker process is restarted when it dies, and takes up what waits.
FairSpec ==
  /\ Spec
  /\ \A j \in Jobs : WF_vars(RunStep(j)) /\ WF_vars(StartRun(j))

-----------------------------------------------------------------------------
(* Properties.                                                             *)

\* A receiver is only told of a message whose result a reader is shown, and
\* only of events it has subscribed to: runs may fail and be repeated, but
\* fan-out and delivery come after the commit of the result.
ToldAfterResult ==
  \A d \in got :
    /\ shown[msg[d[1]]] # "pending"
    /\ EventType(msg[d[1]]) \in Wants[hook[d[1]]]

\* A row that says delivered stands for a post the receiver has got, in the
\* run that wrote it.
DeliveredIsReceived ==
  \A d \in rows : d[3] => <<d[1], d[2]>> \in got

\* A webhook that is there when a message's parse job waits is told of the
\* message, or the failure is on record: in webhook_deliveries or as a failed
\* job.  Workers that die and statements that fail do not lose an event.
EveryHookIsTold ==
  \A m \in Messages, h \in Hooks :
    (/\ \E j \in Jobs : msg[j] = m /\ IsParse(j) /\ state[j] = "waiting"
     /\ h \in active /\ EventType(m) \in Wants[h])
    ~> \/ \E d \in rows : msg[d[1]] = m /\ hook[d[1]] = h
       \/ \E j \in Jobs : msg[j] = m /\ state[j] = "failed"

=============================================================================
