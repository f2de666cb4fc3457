------------------------------- MODULE Calls -------------------------------
(***************************************************************************)
(* What the calls of the API have in common: their progress, the           *)
(* connections they take from the pool, the tables they write and the      *)
(* audit log.  Sending and Console give the calls themselves.              *)
(*                                                                         *)
(* A call advances by one awaited statement at a time.  PostgresStore      *)
(* sends a statement to pool.query, which takes a connection for that      *)
(* statement only, or runs it inside _withTx, which keeps a client from    *)
(* BEGIN to its release.  MemoryStore runs a whole operation at once and   *)
(* cannot fail.                                                            *)
(*                                                                         *)
(* One tenant, one invoice, one message and one risk policy; a call's      *)
(* number stands for its request id and for every value it makes up.       *)
(***************************************************************************)
EXTENDS Naturals, Sequences, FiniteSets, SequencesExt

CONSTANTS MaxCalls,  \* a bound on the calls ever made
          InFlight,  \* calls that can be in progress together
          PoolSize   \* clients of the Postgres pool (pg's default is 10)

ASSUME MaxCallsAssumption == MaxCalls \in Nat
ASSUME InFlightAssumption == InFlight \in Nat
ASSUME PoolSizeAssumption == PoolSize \in Nat \ {0}

VARIABLES store,    \* STORAGE_BACKEND, chosen once
          op,       \* what a call does, "none" if it is never made
          arg,      \* its input
          bound,    \* the tenant has a primary wallet identity
          v2,       \* the table webhook_deliveries exists (db-migration-v2.sql)
          pc,       \* the await it is suspended at, or how it ended
          kept,     \* what it has read and uses after its next await
          clients,  \* calls that hold a client of the pool
          db,       \* the tables, as committed
          audit,    \* audit_logs, oldest first
          mailed,   \* times the SMTP server has taken the mail of a call
          api,      \* the runtime settings in the API's memory
          log       \* an operator's pass over the pages of the audit log

asked == <<store, op, arg, bound, v2>>
vars == <<asked, pc, kept, clients, db, audit, mailed, api, log>>

CallIds == 1..MaxCalls

Over == {"ok", "failed", "lost"}

Running == {i \in CallIds : pc[i] \notin Over \cup {"unborn"}}

\* A new tenant: nothing suspended, issued, blocked, parsed or sent; its first
\* webhook is number 0, and 0 is the secret that webhook was created with.
InitialDb == [status    |-> "active",
              qps       |-> "default",
              limit     |-> "default",
              hooks     |-> {0},
              secret    |-> 0,
              code      |-> [h \in 0..MaxCalls |-> "none"],
              delivered |-> {},
              invoice   |-> "draft",
              policy    |-> "none",
              events    |-> <<>>,
              settings  |-> 0,
              attempt   |-> [i \in CallIds |-> "none"],
              usage     |-> {}]

\* What a call can be given, a few values of each kind.
Inputs == {"none", "disable", "form", "one", "deny", "remove",
           "parsed", "failed", "ok", "bad"}

Actions == {"tenant.update", "invoice.issue", "webhook.rotate_secret",
            "webhook.replay", "message.replay_webhook", "risk.policy_update",
            "webhook.create", "message.reparse", "message.parsed",
            "webhook.deliver", "send_attempt.created",
            "send_attempt.completed", "send_attempt.failed"}

\* request_id is there only if the caller passes it on.
AuditRow == [action : Actions, call : CallIds, named : BOOLEAN]

Tables == [status    : {"active", "suspended"},
           qps       : {"default", "new"},
           limit     : {"default", "new"},
           hooks     : SUBSET (0..MaxCalls),
           secret    : 0..MaxCalls,
           code      : [0..MaxCalls -> Inputs],
           delivered : SUBSET CallIds,
           invoice   : {"draft", "issued"},
           policy    : Inputs,
           events    : Seq(Inputs),
           settings  : 0..MaxCalls,
           attempt   : [CallIds -> {"none", "queued", "accepted", "failed"}],
           usage     : SUBSET CallIds]

\* Settings 0 are those of the configuration.
FreshApi == [cache |-> 0, loaded |-> FALSE, muddled |-> FALSE]

CallsInit ==
  /\ store \in {"memory", "postgres"} /\ bound \in BOOLEAN /\ v2 \in BOOLEAN
  /\ pc = [i \in CallIds |-> "unborn"]
  /\ kept = [i \in CallIds |-> 0]
  /\ clients = {}
  /\ db = InitialDb
  /\ audit = <<>>
  /\ mailed = [i \in CallIds |-> 0]
  /\ api = FreshApi
  /\ log = [reader |-> 0, page |-> 1, due |-> {}, seen |-> {}]

-----------------------------------------------------------------------------
(* Progress.                                                               *)

\* Call i has done step s and awaits step t.
Step(i, s, t) ==
  /\ pc[i] = s
  /\ pc' = [pc EXCEPT ![i] = t]
  /\ UNCHANGED asked

\* Call i arrives; it begins at step s.
Start(i, s) ==
  /\ Cardinality(Running) < InFlight
  /\ op[i] # "none"
  /\ Step(i, "unborn", s)
  /\ UNCHANGED <<kept, clients, db, audit, mailed, api, log>>

Free == Cardinality(clients) < PoolSize

\* pool.query: any free connection will do, and it is free again afterwards.
Query(i, s, t) ==
  /\ store = "postgres" /\ Free
  /\ Step(i, s, t)
  /\ UNCHANGED clients

\* _withTx takes a client and keeps it.
Begin(i, s, t) ==
  /\ store = "postgres" /\ Free
  /\ Step(i, s, t)
  /\ clients' = clients \cup {i}

\* A statement given the client of its transaction.
InTx(i, s, t) ==
  /\ i \in clients
  /\ Step(i, s, t)
  /\ UNCHANGED clients

\* COMMIT, and the finally that releases the client.
Commit(i, s, t) ==
  /\ i \in clients
  /\ Step(i, s, t)
  /\ clients' = clients \ {i}

\* A method of MemoryStore.
AtOnce(i, s, t) ==
  /\ store = "memory"
  /\ Step(i, s, t)
  /\ UNCHANGED clients

Answer(i) ==
  /\ Step(i, "answer", "ok")
  /\ UNCHANGED <<kept, clients, db, audit, mailed, api, log>>

-----------------------------------------------------------------------------
(* Statements.                                                             *)

Entry(i, action, named) == [action |-> action, call |-> i, named |-> named]

\* A read whose result only says that the row is there.
Select(i, s, t) ==
  /\ Query(i, s, t)
  /\ UNCHANGED <<kept, db, audit, mailed, api, log>>

\* It is not: the call is answered 404.
NotFound(i, s) ==
  /\ IF store = "memory" THEN AtOnce(i, s, "failed") ELSE Query(i, s, "failed")
  /\ UNCHANGED <<kept, db, audit, mailed, api, log>>

Write(i, s, t, tables) ==
  /\ Query(i, s, t)
  /\ db' = tables
  /\ UNCHANGED <<kept, audit, mailed, api, log>>

\* PostgresStore._recordAudit outside a transaction.
Record(i, s, t, entry) ==
  /\ Query(i, s, t)
  /\ audit' = Append(audit, entry)
  /\ UNCHANGED <<kept, db, mailed, api, log>>

\* An operation of MemoryStore ends with its _recordAudit.
InMemory(i, s, t, tables, entry) ==
  /\ AtOnce(i, s, t)
  /\ db' = tables
  /\ audit' = Append(audit, entry)
  /\ UNCHANGED <<kept, mailed, api, log>>

\* BEGIN: created_at of what the transaction inserts is now().
Open(i, t) ==
  /\ Begin(i, "begin", t)
  /\ kept' = [kept EXCEPT ![i] = Len(audit)]
  /\ UNCHANGED <<db, audit, mailed, api, log>>

Within(i, s, t) ==
  /\ InTx(i, s, t)
  /\ UNCHANGED <<kept, db, audit, mailed, api, log>>

\* The rows of a transaction appear at its COMMIT, in the log at the place
\* their created_at gives them, before those of the transactions begun later.
\* Of two with the same place either may have begun first.
CommitWith(i, t, tables, entry) ==
  /\ Commit(i, "commit", t)
  /\ db' = tables
  /\ audit' = InsertAt(audit, kept[i] + 1, entry)
  /\ \E later \in SUBSET {j \in clients \ {i} : kept[j] >= kept[i]} :
       /\ {j \in clients \ {i} : kept[j] > kept[i]} \subseteq later
       /\ kept' = [j \in CallIds |-> IF j \in later THEN kept[j] + 1 ELSE kept[j]]
  /\ UNCHANGED <<mailed, api, log>>

-----------------------------------------------------------------------------
(* Failures of Postgres and of the process.                                *)

\* A call that has changed the settings it has not stored.
Unstored(i) ==
  op[i] = "updateSettings" /\ pc[i] \in {"begin", "upsert", "nested", "commit"}

\* Steps whose error the handler of the send catches.
Caught == {"smtp", "complete", "reread"}

\* Mutant: a transaction that throws keeps its client.
FailKeepingClient(i) ==
  /\ store = "postgres"
  /\ i \in Running /\ pc[i] \notin Caught
  /\ pc' = [pc EXCEPT ![i] = "failed"]
  /\ api' = [api EXCEPT !.muddled = @ \/ Unstored(i)]
  /\ UNCHANGED <<asked, kept, clients, db, audit, mailed, log>>

\* A statement fails, or its answer or the call's own is lost: an open
\* transaction is rolled back and its client released, what was committed
\* before stays, and nothing is retried.
Fail(i) ==
  /\ store = "postgres"
  /\ i \in Running /\ pc[i] \notin Caught
  /\ pc' = [pc EXCEPT ![i] = "failed"]
  /\ clients' = clients \ {i}
  /\ api' = [api EXCEPT !.muddled = @ \/ Unstored(i)]
  /\ UNCHANGED <<asked, kept, db, audit, mailed, log>>

\* The API restarts over the same database.
Crash ==
  /\ store = "postgres"
  /\ Running # {}
  /\ pc' = [i \in CallIds |-> IF i \in Running THEN "lost" ELSE pc[i]]
  /\ clients' = {}
  /\ api' = FreshApi
  /\ UNCHANGED <<asked, kept, db, audit, mailed, log>>

=============================================================================
