------------------------------ MODULE Sending ------------------------------
(***************************************************************************)
(* POST /v2/messages/send: the cooldown of new tenants, the attempt, its   *)
(* submission to Mailu's SMTP server, and the record of how it ended.      *)
(*                                                                         *)
(* PostgresStore keeps an attempt as rows of audit_logs, of which the      *)
(* newest counts; MemoryStore keeps a map beside its log.                  *)
(***************************************************************************)
EXTENDS Calls

CONSTANT CooldownLimit  \* COOLDOWN_SEND_LIMIT: 10 in the code

ASSUME CooldownLimitAssumption == CooldownLimit \in Nat \ {0}

-----------------------------------------------------------------------------
(* How an attempt is read.                                                 *)

Latest(i) ==
  LET rows == {n \in 1..Len(audit) :
                 /\ audit[n].call = i
                 /\ audit[n].action \in {"send_attempt.created",
                      "send_attempt.completed", "send_attempt.failed"}}
  IN  {audit[n].action : n \in {m \in rows : \A k \in rows : k <= m}}

\* _sendAttemptFromAuditRow: the submissionStatus in the row's metadata.
StatusOf(action) ==
  CASE action = "send_attempt.created"   -> "queued"
    [] action = "send_attempt.completed" -> "accepted"
    [] action = "send_attempt.failed"    -> "failed"

\* getTenantSendAttempt of each store; "none" is its null.
MemoryAttempt(i) == db.attempt[i]

PgAttempt(i) ==
  IF Latest(i) = {} THEN "none" ELSE StatusOf(CHOOSE a \in Latest(i) : TRUE)

Attempt(i) == IF store = "memory" THEN MemoryAttempt(i) ELSE PgAttempt(i)

\* listTenantSendAttempts: one item an attempt, select distinct on.
MemoryTenantAttempts ==
  {[call |-> i, status |-> db.attempt[i]] :
     i \in {j \in CallIds : db.attempt[j] # "none"}}

PgTenantAttempts ==
  UNION {{[call |-> i, status |-> StatusOf(a)] : a \in Latest(i)} : i \in CallIds}

TenantAttempts ==
  IF store = "memory" THEN MemoryTenantAttempts ELSE PgTenantAttempts

\* adminListSendAttempts with a submission_status: filtered once the newest
\* row of each attempt has been chosen.
MemoryAdminAttempts(status) ==
  {item \in MemoryTenantAttempts : item.status = status}

\* Mutant: filtered before the newest row of each attempt is chosen.
PgAdminAttemptsFilteredFirst(status) ==
  {[call |-> audit[n].call, status |-> status] : n \in
     {k \in 1..Len(audit) :
        /\ audit[k].action \in {"send_attempt.created",
             "send_attempt.completed", "send_attempt.failed"}
        /\ StatusOf(audit[k].action) = status}}

PgAdminAttempts(status) ==
  {item \in PgTenantAttempts : item.status = status}

AdminAttempts(status) ==
  IF store = "memory" THEN MemoryAdminAttempts(status)
                      ELSE PgAdminAttempts(status)

-----------------------------------------------------------------------------
(* The handler.                                                            *)

\* Mutant: the limit is compared with <=.
AllowedOneMore == bound \/ Cardinality(db.usage) <= CooldownLimit

Allowed == bound \/ Cardinality(db.usage) < CooldownLimit

\* enforceSendCooldown; a refusal is answered 429.
EnforceCooldown(i) ==
  /\ \/ store = "postgres" /\ Query(i, "cooldown", IF Allowed THEN "find" ELSE "failed")
     \/ AtOnce(i, "cooldown", IF Allowed THEN "find" ELSE "failed")
  /\ UNCHANGED <<kept, db, audit, mailed, api, log>>

FindMailbox(i) ==
  IF store = "memory"
  THEN /\ AtOnce(i, "find", "create")
       /\ UNCHANGED <<kept, db, audit, mailed, api, log>>
  ELSE Select(i, "find", "create")

MemoryCreateAttempt(i) ==
  InMemory(i, "create", "smtp", [db EXCEPT !.attempt[i] = "queued"],
           Entry(i, "send_attempt.created", TRUE))

PgCreateAttempt(i) ==
  Record(i, "create", "smtp", Entry(i, "send_attempt.created", TRUE))

\* Mutant: a submission whose answer was lost is made again.
SubmitAgain(i) ==
  /\ \E t \in {"complete", "failing", "smtp"} : Step(i, "smtp", t)
  /\ mailed' = [mailed EXCEPT ![i] = @ + 1]
  /\ UNCHANGED <<kept, clients, db, audit, api, log>>

\* sendMailboxMessage: the server takes the mail, and its answer may be lost.
Submit(i) ==
  /\ \E t \in {"complete", "failing"} : Step(i, "smtp", t)
  /\ mailed' = [mailed EXCEPT ![i] = @ + 1]
  /\ UNCHANGED <<kept, clients, db, audit, api, log>>

\* The server cannot be reached, or refuses the password or the recipients.
Refused(i) ==
  /\ Step(i, "smtp", "failing")
  /\ UNCHANGED <<kept, clients, db, audit, mailed, api, log>>

MemoryCompleteAttempt(i) ==
  InMemory(i, "complete", "show", [db EXCEPT !.attempt[i] = "accepted"],
           Entry(i, "send_attempt.completed", TRUE))

\* completeSendAttempt: the new row, then a read of it.
PgCompleteAttempt(i) ==
  \/ Record(i, "complete", "reread", Entry(i, "send_attempt.completed", TRUE))
  \/ Select(i, "reread", "show")

\* The try covers completeSendAttempt: its error is one of the backend.
CaughtError(i) ==
  /\ store = "postgres"
  /\ \E s \in {"complete", "reread"} : Step(i, s, "failing")
  /\ UNCHANGED <<kept, clients, db, audit, mailed, api, log>>

MemoryFailAttempt(i) ==
  InMemory(i, "failing", "failed", [db EXCEPT !.attempt[i] = "failed"],
           Entry(i, "send_attempt.failed", TRUE))

PgFailAttempt(i) ==
  Record(i, "failing", "failed", Entry(i, "send_attempt.failed", TRUE))

\* getTenantSendAttempt once more, for the answer.
ShowAttempt(i) ==
  IF store = "memory"
  THEN /\ AtOnce(i, "show", "meter")
       /\ UNCHANGED <<kept, db, audit, mailed, api, log>>
  ELSE Select(i, "show", "meter")

\* recordUsage, for a send and for a new webhook.
Meter(i) ==
  /\ IF store = "memory" THEN AtOnce(i, "meter", "answer")
                         ELSE Query(i, "meter", "answer")
  /\ db' = IF op[i] = "send" THEN [db EXCEPT !.usage = @ \cup {i}] ELSE db
  /\ UNCHANGED <<kept, audit, mailed, api, log>>

SendMessage(i) ==
  /\ op[i] = "send"
  /\ \/ EnforceCooldown(i)
     \/ FindMailbox(i) \/ NotFound(i, "find")
     \/ MemoryCreateAttempt(i) \/ PgCreateAttempt(i)
     \/ Submit(i) \/ Refused(i)
     \/ MemoryCompleteAttempt(i) \/ PgCompleteAttempt(i)
     \/ CaughtError(i)
     \/ MemoryFailAttempt(i) \/ PgFailAttempt(i)
     \/ ShowAttempt(i)

-----------------------------------------------------------------------------
(* Properties.                                                             *)

\* An attempt is shown as accepted only when the mail was taken, and a send
\* that was answered 202 is shown as accepted by the read of one attempt, by
\* the tenant's list and by the operators' filtered one, in either store.
AcceptedIsMailed ==
  \A i \in CallIds :
    /\ Attempt(i) = "accepted" => mailed[i] = 1
    /\ op[i] = "send" /\ pc[i] = "ok" =>
         LET item == [call |-> i, status |-> "accepted"]
         IN  /\ Attempt(i) = "accepted"
             /\ item \in TenantAttempts
             /\ item \in AdminAttempts("accepted")
             /\ \A other \in AdminAttempts("queued") : other.call # i

\* Usage is read before a send and written after it, so sends in progress
\* pass the cooldown together; no more than they can exceed it.
CooldownHolds ==
  ~bound => Cardinality(db.usage) < CooldownLimit + InFlight

=============================================================================
