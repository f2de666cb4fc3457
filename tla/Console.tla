------------------------------ MODULE Console ------------------------------
(***************************************************************************)
(* The calls that change a tenant's account: the operators' commands of    *)
(* v2/admin-routes.js, the tenant's own (webhooks, sending), and what the  *)
(* workers record (parse results, deliveries), over both stores.           *)
(*                                                                         *)
(* MemoryStore changes its tables and its log at once.  PostgresStore      *)
(* sends most commands as separate statements without a transaction: a     *)
(* read, the change, the audit row.  A reparse, a parse result, a delivery *)
(* and the runtime settings are transactions; two of them ask the pool for *)
(* a second connection while they hold their own.                          *)
(***************************************************************************)
EXTENDS Sending, Listings

CONSTANTS Menu,     \* the choices of [op |-> , arg |-> ] for every call: a bound
          PageSize  \* rows on a page of the audit log

ASSUME PageSizeAssumption == PageSize \in Nat \ {0}

Logged == {"patchTenant", "issueInvoice", "rotateSecret", "adminRotate",
           "replayWebhook", "replayMessage", "upsertPolicy", "createWebhook",
           "reparse", "parse", "deliver", "send"}

Ops == Logged \cup {"updateSettings", "readLog"}

\* What a call of each kind can be given.
Args(o) ==
  CASE o = "patchTenant"  -> {"disable", "form", "one"}
    [] o = "upsertPolicy" -> {"deny", "remove"}
    [] o = "parse"        -> {"parsed", "failed"}
    [] o = "deliver"      -> {"ok", "bad"}
    [] OTHER              -> {"none"}

ASSUME MenuAssumption ==
  /\ Menu \subseteq [CallIds -> [op : Ops \cup {"none"}, arg : Inputs]]
  /\ \A calls \in Menu : \A i \in CallIds : calls[i].arg \in Args(calls[i].op)

TenantOps == {"send", "createWebhook", "rotateSecret"}

\* What each logged call leaves in the log.
LoggedAs(i) ==
  CASE op[i] = "patchTenant"   -> "tenant.update"
    [] op[i] = "issueInvoice"  -> "invoice.issue"
    [] op[i] = "rotateSecret"  -> "webhook.rotate_secret"
    [] op[i] = "adminRotate"   -> "webhook.rotate_secret"
    [] op[i] = "replayWebhook" -> "webhook.replay"
    [] op[i] = "replayMessage" -> "message.replay_webhook"
    [] op[i] = "upsertPolicy"  -> "risk.policy_update"
    [] op[i] = "createWebhook" -> "webhook.create"
    [] op[i] = "reparse"       -> "message.reparse"
    [] op[i] = "parse"         -> "message.parsed"
    [] op[i] = "deliver"       -> "webhook.deliver"
    [] OTHER                   -> "send_attempt.completed"

\* The commands whose row carries the request id: of those that write a row,
\* createWebhook passes no id on.
Named == Logged \ {"createWebhook"}

Row(i) == Entry(i, LoggedAs(i), op[i] \in Named)

\* The first statement of a handler once ensureLoaded is done.
First(o) ==
  CASE o \in TenantOps -> "auth"
    [] o \in {"reparse", "parse", "deliver"} -> "begin"
    [] o = "updateSettings" -> "set"
    [] o = "readLog" -> "open"
    [] OTHER -> "find"

\* Calls of the store by the workers, which are not requests.
Background == {"parse", "deliver"}

\* A request awaits ensureLoaded before it reaches its handler.
Ask(i) ==
  Start(i, IF api.loaded \/ op[i] \in Background THEN First(op[i]) ELSE "load")

\* requireAuth and evaluateAccess both read the tenant's status.
Authenticate(i) ==
  /\ op[i] \in TenantOps
  /\ \E t \in {IF db.status # "active" THEN "failed"
               ELSE IF op[i] = "send" THEN "cooldown"
               ELSE IF op[i] = "createWebhook" THEN "change"
               ELSE "find"} :
       IF store = "memory" THEN AtOnce(i, "auth", t) ELSE Query(i, "auth", t)
  /\ UNCHANGED <<kept, db, audit, mailed, api, log>>

-----------------------------------------------------------------------------
(* Runtime settings (src/src/runtime-settings.js).                         *)

\* ensureLoaded reads the table ...
Load(i) ==
  /\ IF store = "memory" THEN AtOnce(i, "load", "loaded")
                         ELSE Query(i, "load", "loaded")
  /\ kept' = [kept EXCEPT ![i] = db.settings]
  /\ api' = [api EXCEPT !.muddled = @ \/ \E j \in Running : Unstored(j)]
  /\ UNCHANGED <<db, audit, mailed, log>>

\* Mutant: what was read is thrown away.
FinishLoadEmpty(i) ==
  /\ Step(i, "loaded", First(op[i]))
  /\ api' = [api EXCEPT !.loaded = TRUE]
  /\ UNCHANGED <<kept, clients, db, audit, mailed, log>>

\* ... and takes over what it has read: an update may have come in between.
FinishLoad(i) ==
  /\ Step(i, "loaded", First(op[i]))
  /\ api' = [api EXCEPT !.loaded = TRUE,
                        !.cache = IF kept[i] = 0 THEN @ ELSE kept[i]]
  /\ UNCHANGED <<kept, clients, db, audit, mailed, log>>

\* Somebody else is about to write the cache or the table.
SettingsInHand(i) ==
  \E j \in Running \ {i} : Unstored(j) \/ pc[j] = "loaded"

\* update: the cache first.  MemoryStore's write is the same step.
SetCache(i) ==
  /\ op[i] = "updateSettings"
  /\ Step(i, "set", IF store = "memory" THEN "answer" ELSE "begin")
  /\ api' = [api EXCEPT !.cache = i, !.muddled = @ \/ SettingsInHand(i)]
  /\ db' = IF store = "memory" THEN [db EXCEPT !.settings = i] ELSE db
  /\ UNCHANGED <<kept, clients, audit, mailed, log>>

\* The upserted rows stay locked until their transaction ends.
Locked(i) ==
  \E j \in clients \ {i} :
    op[j] = "updateSettings" /\ pc[j] \in {"nested", "commit"}

\* PostgresStore.updateRuntimeSettings: two upserts, both in this order, then
\* getRuntimeSettings without the client, which needs a second connection.
PgUpdateSettings(i) ==
  /\ op[i] = "updateSettings"
  /\ \/ Open(i, "upsert")
     \/ ~Locked(i) /\ Within(i, "upsert", "nested")
     \/ Free /\ Within(i, "nested", "commit")
     \/ /\ Commit(i, "commit", "answer")
        /\ db' = [db EXCEPT !.settings = i]
        /\ UNCHANGED <<kept, audit, mailed, api, log>>

-----------------------------------------------------------------------------
(* The tenant's account.                                                   *)

\* The dashboard's "disable" sends a status, its form also the quotas that are
\* filled in, both or one.
Patched(i) ==
  IF arg[i] = "disable" THEN [db EXCEPT !.status = "suspended"]
  ELSE IF arg[i] = "form"
       THEN [db EXCEPT !.status = "suspended", !.qps = "new", !.limit = "new"]
       ELSE [db EXCEPT !.status = "suspended", !.qps = "new"]

MemoryPatchTenant(i) ==
  /\ op[i] = "patchTenant"
  /\ InMemory(i, "find", "answer", Patched(i), Row(i))

\* Mutant: the answer is sent before the log has been written.
PgPatchTenantUnlogged(i) ==
  /\ op[i] = "patchTenant"
  /\ \/ Select(i, "find", "status")
     \/ Write(i, "status", IF arg[i] = "disable" THEN "show" ELSE "quotas",
              [db EXCEPT !.status = "suspended"])
     \/ arg[i] = "form" /\ Write(i, "quotas", "show", Patched(i))
     \/ arg[i] = "one" /\ Select(i, "quotas", "failed")
     \/ Record(i, "audit", "show", Row(i))
     \/ Select(i, "show", "answer")

\* Mutant: the status is dropped.
PgPatchTenantQuotas(i) ==
  /\ op[i] = "patchTenant"
  /\ \/ Select(i, "find", "status")
     \/ Write(i, "status", IF arg[i] = "disable" THEN "audit" ELSE "quotas",
              db)
     \/ arg[i] = "form" /\ Write(i, "quotas", "audit",
                                 [db EXCEPT !.qps = "new", !.limit = "new"])
     \/ arg[i] = "one" /\ Select(i, "quotas", "failed")
     \/ Record(i, "audit", "show", Row(i))
     \/ Select(i, "show", "answer")

\* The quota left out is inserted as null, which its column refuses, when the
\* status has been written already.
PgPatchTenant(i) ==
  /\ op[i] = "patchTenant"
  /\ \/ Select(i, "find", "status")
     \/ Write(i, "status", IF arg[i] = "disable" THEN "audit" ELSE "quotas",
              [db EXCEPT !.status = "suspended"])
     \/ arg[i] = "form" /\ Write(i, "quotas", "audit", Patched(i))
     \/ arg[i] = "one" /\ Select(i, "quotas", "failed")
     \/ Record(i, "audit", "show", Row(i))
     \/ Select(i, "show", "answer")

MemoryIssueInvoice(i) ==
  /\ op[i] = "issueInvoice"
  /\ InMemory(i, "find", "answer", [db EXCEPT !.invoice = "issued"], Row(i))

PgIssueInvoice(i) ==
  /\ op[i] = "issueInvoice"
  /\ \/ Select(i, "find", "change")
     \/ Write(i, "change", "audit", [db EXCEPT !.invoice = "issued"])
     \/ Record(i, "audit", "answer", Row(i))

MemoryUpsertPolicy(i) ==
  /\ op[i] = "upsertPolicy"
  /\ InMemory(i, "find", "answer", [db EXCEPT !.policy = arg[i]], Row(i))

PgUpsertPolicy(i) ==
  /\ op[i] = "upsertPolicy"
  /\ \/ Write(i, "find", "audit", [db EXCEPT !.policy = arg[i]])
     \/ Record(i, "audit", "answer", Row(i))

-----------------------------------------------------------------------------
(* Webhooks.                                                               *)

NewHook(i) == [db EXCEPT !.hooks = @ \cup {i}]

MemoryCreateWebhook(i) ==
  /\ op[i] = "createWebhook"
  /\ InMemory(i, "change", "meter", NewHook(i), Row(i))

PgCreateWebhook(i) ==
  /\ op[i] = "createWebhook"
  /\ \/ Write(i, "change", "audit", NewHook(i))
     \/ Record(i, "audit", "meter", Row(i))

\* The tenant's rotation and the operators': a new random secret.
MemoryRotate(i) ==
  /\ op[i] = "rotateSecret"
  /\ InMemory(i, "find", "answer", [db EXCEPT !.secret = i], Row(i))

MemoryAdminRotate(i) ==
  /\ op[i] = "adminRotate"
  /\ InMemory(i, "find", "answer", [db EXCEPT !.secret = i], Row(i))

PgRotate(i) ==
  /\ op[i] = "rotateSecret"
  /\ \/ Select(i, "find", "change")
     \/ Write(i, "change", "audit", [db EXCEPT !.secret = i])
     \/ Record(i, "audit", "answer", Row(i))

PgAdminRotate(i) ==
  /\ op[i] = "adminRotate"
  /\ \/ Select(i, "find", "change")
     \/ Write(i, "change", "audit", [db EXCEPT !.secret = i])
     \/ Record(i, "audit", "answer", Row(i))

\* A replay posts nothing: it writes the status of a delivery that succeeded.
Pinged(hooks) ==
  [db EXCEPT !.code = [h \in 0..MaxCalls |-> IF h \in hooks THEN "ok" ELSE @[h]]]

MemoryReplayWebhook(i) ==
  /\ op[i] = "replayWebhook"
  /\ InMemory(i, "find", "answer", Pinged({0}), Row(i))

PgReplayWebhook(i) ==
  /\ op[i] = "replayWebhook"
  /\ \/ Select(i, "find", "change")
     \/ Write(i, "change", "audit", Pinged({0}))
     \/ Record(i, "audit", "answer", Row(i))

\* The tenant's oldest webhook, whether it subscribed to the message or not.
MemoryReplayMessage(i) ==
  /\ op[i] = "replayMessage"
  /\ InMemory(i, "find", "answer", Pinged({0}), Row(i))

\* All of them.
PgReplayMessage(i) ==
  /\ op[i] = "replayMessage"
  /\ \/ Select(i, "find", "change")
     \/ Write(i, "change", "audit", Pinged(db.hooks))
     \/ Record(i, "audit", "answer", Row(i))

\* A worker records how its post to webhook 0 ended.
Delivered(i) ==
  [db EXCEPT !.code[0] = arg[i],
             !.delivered = IF store = "memory" \/ v2 THEN @ \cup {i} ELSE @]

MemoryDeliver(i) ==
  /\ op[i] = "deliver"
  /\ InMemory(i, "begin", "answer", Delivered(i), Row(i))

PgDeliver(i) ==
  /\ op[i] = "deliver"
  /\ \/ Open(i, "commit")
     \/ CommitWith(i, "answer", Delivered(i), Row(i))

-----------------------------------------------------------------------------
(* Messages.                                                               *)

\* A reparse always finds the code 654321.
Event(status) == [db EXCEPT !.events = Append(@, status)]

MemoryReparse(i) ==
  /\ op[i] = "reparse"
  /\ InMemory(i, "begin", "answer", Event("parsed"), Row(i))

\* Mutant: the audit row is written without the client of the transaction.
PgReparseLeaky(i) ==
  /\ op[i] = "reparse"
  /\ \/ Open(i, "write")
     \/ /\ Free /\ InTx(i, "write", "commit")
        /\ audit' = Append(audit, Row(i))
        /\ UNCHANGED <<kept, db, mailed, api, log>>
     \/ /\ Commit(i, "commit", "answer")
        /\ db' = Event("parsed")
        /\ UNCHANGED <<kept, audit, mailed, api, log>>

PgReparse(i) ==
  /\ op[i] = "reparse"
  /\ \/ Open(i, "write")
     \/ Within(i, "write", "commit")
     \/ CommitWith(i, "answer", Event("parsed"), Row(i))

MemoryApplyResult(i) ==
  /\ op[i] = "parse"
  /\ InMemory(i, "begin", "answer", Event(arg[i]), Row(i))

\* applyMessageParseResult: getMessage runs without the client.
PgApplyResult(i) ==
  /\ op[i] = "parse"
  /\ \/ Open(i, "nested")
     \/ Free /\ Within(i, "nested", "write")
     \/ Within(i, "write", "commit")
     \/ CommitWith(i, "answer", Event(arg[i]), Row(i))

-----------------------------------------------------------------------------
(* An operator reads the log, page by page, while calls go on.             *)

\* The request for one page.
Fetch(i, s, t) ==
  IF store = "memory" THEN AtOnce(i, s, t) ELSE Query(i, s, t)

Shown(page) ==
  {AuditLog(page, PageSize)[n] : n \in DOMAIN AuditLog(page, PageSize)}

OpenLog(i) ==
  /\ op[i] = "readLog"
  /\ \A j \in Running \ {i} : op[j] # "readLog"
  /\ Fetch(i, "open", IF Len(audit) <= PageSize THEN "answer" ELSE "turn")
  /\ log' = [reader |-> i, page |-> 2,
             due |-> {audit[n] : n \in 1..Len(audit)}, seen |-> Shown(1)]
  /\ UNCHANGED <<kept, db, audit, mailed, api>>

TurnPage(i) ==
  /\ op[i] = "readLog"
  /\ Fetch(i, "turn",
           IF log.page * PageSize >= Len(audit) THEN "answer" ELSE "turn")
  /\ log' = [log EXCEPT !.page = @ + 1, !.seen = @ \cup Shown(log.page)]
  /\ UNCHANGED <<kept, db, audit, mailed, api>>

-----------------------------------------------------------------------------

\* An id that names nothing.
UnknownId(i) ==
  /\ op[i] \notin {"upsertPolicy", "send"}
  /\ NotFound(i, "find")

OperatorStep(i) ==
  \/ MemoryPatchTenant(i) \/ PgPatchTenant(i)
  \/ MemoryIssueInvoice(i) \/ PgIssueInvoice(i)
  \/ MemoryUpsertPolicy(i) \/ PgUpsertPolicy(i)
  \/ MemoryAdminRotate(i) \/ PgAdminRotate(i)
  \/ MemoryReplayWebhook(i) \/ PgReplayWebhook(i)
  \/ MemoryReplayMessage(i) \/ PgReplayMessage(i)
  \/ MemoryReparse(i) \/ PgReparse(i)
  \/ OpenLog(i) \/ TurnPage(i)

TenantStep(i) ==
  \/ Authenticate(i)
  \/ MemoryCreateWebhook(i) \/ PgCreateWebhook(i)
  \/ MemoryRotate(i) \/ PgRotate(i)
  \/ SendMessage(i) \/ Meter(i)

WorkerStep(i) ==
  \/ MemoryApplyResult(i) \/ PgApplyResult(i)
  \/ MemoryDeliver(i) \/ PgDeliver(i)

SettingsStep(i) ==
  \/ Load(i) \/ FinishLoad(i)
  \/ SetCache(i) \/ PgUpdateSettings(i)

CallStep(i) ==
  \/ Ask(i) \/ SettingsStep(i)
  \/ OperatorStep(i) \/ TenantStep(i) \/ WorkerStep(i)
  \/ UnknownId(i) \/ Fail(i) \/ Answer(i)

Init ==
  /\ CallsInit
  /\ \E calls \in Menu : /\ op = [i \in CallIds |-> calls[i].op]
                        /\ arg = [i \in CallIds |-> calls[i].arg]

Next == Crash \/ \E i \in CallIds : CallStep(i)

Spec == Init /\ [][Next]_vars

-----------------------------------------------------------------------------
(* Properties.                                                             *)

Steps == {"unborn", "load", "loaded", "auth", "find", "status", "quotas",
          "change", "audit", "show", "meter", "cooldown", "create", "smtp",
          "complete", "reread", "failing", "begin", "nested", "upsert", "write",
          "commit", "set", "open", "turn", "answer"} \cup Over

InTransaction == {"upsert", "nested", "write", "commit"}

\* Types; a client is held by a call inside a transaction and by no other.
TypeOK ==
  /\ op \in [CallIds -> Ops \cup {"none"}]
  /\ arg \in [CallIds -> Inputs]
  /\ pc \in [CallIds -> Steps]
  /\ kept \in [CallIds -> Nat]
  /\ clients = {i \in CallIds : store = "postgres" /\ pc[i] \in InTransaction}
  /\ Cardinality(clients) <= PoolSize
  /\ db \in Tables
  /\ audit \in Seq(AuditRow)
  /\ mailed \in [CallIds -> Nat]
  /\ api \in [cache : 0..MaxCalls, loaded : BOOLEAN, muddled : BOOLEAN]

\* A command is not answered before the id of its request finds its row in the
\* audit log, if it is one of Named.  Two commands are not, and nothing is said
\* of them here: createWebhook, whose row has no id, and updateSettings, which
\* has no row (WritesAreAudited).  (Commands of PostgresStore are separate
\* statements, a call that fails or is lost between them leaves its change
\* without a row; it is not answered as done.)
AnsweredIsAudited ==
  \A i \in CallIds : op[i] \in Named /\ pc[i] = "ok" => LoggedAs(i) \in AuditOf(i)

\* What docs/admin-dashboard.md:284 says of every write: the audit log has it
\* under its request id.
WritesAreAudited ==
  \A i \in CallIds : op[i] \in Ops \ {"readLog"} /\ pc[i] = "ok" => AuditOf(i) # {}

RowsOf(actions) == {n \in 1..Len(audit) : audit[n].action \in actions}

\* What a row says has happened.
Truth(row) ==
  CASE row.action = "tenant.update"  -> db.status = "suspended"
    [] row.action = "invoice.issue"  -> db.invoice = "issued"
    [] row.action = "webhook.create" -> row.call \in db.hooks
    [] row.action = "webhook.rotate_secret" -> db.secret # 0
    [] row.action = "risk.policy_update" -> db.policy # "none"
    [] row.action = "webhook.deliver" -> row.call \in DeliveryRows
    [] row.action = "send_attempt.completed" -> mailed[row.call] = 1
    [] OTHER -> TRUE

\* The log tells of nothing that has not happened: no row precedes its
\* change.  What parses and reparses write they write with their rows in one
\* transaction, so there are as many events as rows.
AuditTellsTruth ==
  /\ Len(db.events) = Cardinality(RowsOf({"message.reparse", "message.parsed"}))
  /\ \A n \in 1..Len(audit) : Truth(audit[n])

\* What a call changes for others to overwrite.
Subject(o) ==
  CASE o \in {"rotateSecret", "adminRotate"} -> "secret"
    [] o \in {"replayWebhook", "replayMessage", "deliver"} -> "code"
    [] o \in {"parse", "reparse"} -> "message"
    [] OTHER -> o

Unrivalled(i) ==
  \A j \in CallIds \ {i} : pc[j] # "unborn" => Subject(op[j]) # Subject(op[i])

\* What the call has changed, as every read call shows it, whichever store it
\* is.  No call shows a webhook's secret or a risk policy: of those the table
\* is looked at.  Nothing is said of replays: the status they write is that of
\* no delivery, although docs/admin-dashboard.md:206-207 says it is.
Visible(i) ==
  CASE op[i] = "patchTenant" ->
         /\ GetTenant \in ListTenants("suspended")
         /\ ListTenants("active") = {}
         /\ arg[i] = "form" => GetTenant.qps = "new" /\ GetTenant.limit = "new"
    [] op[i] = "issueInvoice" -> InvoiceShown("issued")
    [] op[i] \in {"rotateSecret", "adminRotate"} -> db.secret = i
    [] op[i] = "createWebhook" -> \E c \in {"none", "ok"} : HookShown(i, c)
    [] op[i] = "deliver" -> HookShown(0, arg[i]) /\ DeliveryShown(i)
    [] op[i] = "upsertPolicy" -> db.policy = arg[i]
    [] op[i] = "reparse" -> MessageShown("parsed")
    [] op[i] = "parse" -> MessageShown(arg[i])
    [] OTHER -> TRUE

\* A call that was answered as done, with no rival for what it changes, is
\* shown as done by the reads of one item, the tenant's lists and the
\* operators' filtered ones.
AnsweredIsVisible ==
  \A i \in CallIds : pc[i] = "ok" /\ Unrivalled(i) => Visible(i)

\* Once no call is loading or changing them, the settings the API charges and
\* limits by are those in the table, unless an update failed on the way there
\* or met another update or the first load (muddled).
SettingsAgree ==
  api.loaded /\ ~api.muddled
    /\ (\A i \in Running : ~Unstored(i) /\ pc[i] # "loaded")
  => api.cache = db.settings

\* A client of the pool whose call cannot go on with what it has.
Waiting(i) ==
  \/ i \notin Running
  \/ pc[i] = "nested" /\ ~Free
  \/ pc[i] = "upsert" /\ Locked(i)

\* Transactions wait for each other's clients only where they ask for a
\* second one, in a parse result or an update of the settings, and only when
\* there are as many of those as clients: nothing else leaks a client or
\* holds it while it waits.
OnlyNestingStarvesPool ==
  (clients # {} /\ \A i \in clients : Waiting(i))
  => Cardinality({i \in Running : op[i] \in {"parse", "updateSettings"}}) >= PoolSize

\* Rows pushed in front while an operator turns the pages may show a row
\* twice but never hide one that was there when the log was opened.
PagesMissNothing ==
  log.reader # 0 /\ pc[log.reader] \in {"answer", "ok"} => log.due \subseteq log.seen

\* The abstract promise of Sending.
Promise == INSTANCE SubmitOnce
  WITH Ids <- CallIds,
       status <- [i \in CallIds |-> Attempt(i)],
       given <- mailed,
       over <- {i \in CallIds : pc[i] \in Over}

\* Every step of every call is a step of the abstract attempt or leaves it
\* alone: submitted at most once, accepted only once submitted, settled when
\* the call is over.
ImplementsSubmitOnce == Promise!Spec

=============================================================================
