# Agent Mail Cloud in TLA+

A verification development of the control plane in `src/src` (paths below are relative to `src/`): the
mailboxes it leases to agents, the mail it takes in for them and sends for them, the webhooks it tells, what
it charges, how a wallet signs in, and what its operators do to all of that. TLC checks small instances of
every module; TLAPS proves the safety properties of the central ones for all values of the constants.

1. [The system](#1-the-system) · 2. [Modules](#2-modules) · 3. [Runs and bounds](#3-runs-and-bounds) ·
4. [Fairness](#4-fairness) · 5. [Proofs](#5-proofs) · 6. [What does not hold](#6-what-does-not-hold) ·
7. [Not modelled](#7-not-modelled) · 8. [Plan](#8-plan)

## 1. The system

A tenant (a wallet) has agents and mailboxes. An agent leases a mailbox, Mailu is told to enable the
account behind it, mail for it is read from Mailu's Maildir and posted to the API, parsed by a job, and
announced to the tenant's webhooks. Agents also send mail, and most calls are metered. The tables are
behind one interface with two implementations, `MemoryStore` (each operation runs to its end) and
`PostgresStore` (transactions at READ COMMITTED, one await per statement). In production
(`docker-compose.prod.yml`) there are the API process, a job worker, Redis (BullMQ), Postgres and the
Maildir sync loop.

| Component (main files) | State | Operations | Interacts with | What is hard | What makes it correct |
|---|---|---|---|---|---|
| Mailbox control plane (`src/v2/tenant-commands.js`, `src/storage/*-store.js`) | `mailboxes.status`, `mailbox_leases`, Mailu users | grant, release, freeze, operator's release, reset credentials | store, Mailu adapter | store and Mailu cannot be written together; two statements of a release; late compensation | one active lease per mailbox; a leased mailbox has a lease; frozen stays frozen |
| Mailu adapter (`src/mail-backend/mailu-internal-adapter.js`) | the Mailu user of a mailbox | provision, release (disable or delete), issue credentials, send | Mailu | a call takes effect and its answer is lost | repeated calls are harmless |
| Reconciliation (`src/reconcile.js`) | listing of one pass | list, probe, repair | store, adapter, running requests | stale listing; one failing mailbox ends a pass | once requests pause, accounts match the table |
| Maildir sync (`src/mailu-sync.js`) | state file, pass in progress | list, stat, post, save | Maildir, ingest API | files renamed while listed; torn state file; abandoned calls | no mail is marked before it is stored; every mail is stored |
| Inbound ingestion (`src/services/internal-service.js`) | `messages`, parse queue | look up, insert, enqueue | stores, queue | duplicate and concurrent posts; failure between commit and enqueue | one row per provider id |
| Message jobs (`src/jobs/*.js`, `src/webhook-dispatcher.js`) | BullMQ jobs, `message_events`, `webhook_deliveries` | parse, fan out, deliver, record; operators' reparses | Redis, receivers | runs that die in the middle; a post received but not answered; retries | told only after the result is committed; nothing lost silently |
| Access control and metering (`src/request-auth.js`, `src/v2/metering.js`) | `usage_records`, `invoices`, charges | check limits, record, charge, issue | every metered handler, settings | check-then-act; concurrent charges; failing after the record | bounded overshoot; invoices add up |
| Sign-in (`src/services/v1-system-service.js`) | challenges in memory, `wallet_identities`, tenants | challenge, verify, create tenant | store | concurrent first sign-ins; replayed challenges; unique-index waits | one tenant per wallet; tokens name it |
| Sending (`src/v2/tenant-commands.js`, `src/v2/message-routes.js`) | send attempts: rows of `audit_logs` (Postgres), a map (memory); usage records | check the cooldown, create, submit, complete or fail, show | SMTP, store | mail sent, record fails; sends in progress pass the cooldown together; the newest of several rows counts | sent at most once; shown as accepted only if sent; bounded overshoot |
| Runtime settings (`src/runtime-settings.js`) | cache and `app_settings` | load, update | store | first load racing an update; an update the store fails to keep | cache and store agree |
| Connection pool (`src/storage/postgres-store.js`) | clients | connect, query, release | all Postgres operations | a transaction asking for a second client | a client is held inside a transaction only, and always given back |
| Operator console (`src/v2/admin-routes.js`, `src/admin-ui.js`) and the tenant's webhook calls | tenants, quotas, webhooks, deliveries, policies, the audit log | patch, issue, rotate, replay, reparse, upsert, create; every listing | all of the above | a command is several statements; pages over a growing log | answered means logged and shown; no row without its change |

`PROJECT.json` lists, under `hazards`, each behaviour of this code that is hard to test, with the line
where it bites and the properties of some run that would see it go wrong. Not every hazard has one: where
the bad outcome does happen in the code and the model keeps it, or a property only speaks of a part, a note
says so.

## 2. Modules

| Module | What it is |
|---|---|
| `MailboxControl` | the mailbox tables, the Mailu users and the requests that change them |
| `ExclusiveLease` | the abstract registry: a lease is granted on a mailbox nobody holds and nobody froze |
| `MemoryLeaseRefinement` | the mapping from `MailboxControl` to `ExclusiveLease` (`ImplementsExclusiveLease`) |
| `Reconcile` | EXTENDS `MailboxControl` with the repair script, beside the requests |
| `Inbound` | Maildir, sync loop, ingest calls and the `messages` rows |
| `MailboxViews` | EXTENDS `MailboxControl` with what both stores' read calls show of mailboxes and leases |
| `MessageJobs` | `message.parse` and `webhook.deliver` over BullMQ |
| `Metering` | limits, usage records, overage charges, invoices |
| `SignIn` | challenges, verification, the transaction that makes a tenant |
| `Calls` | what API calls have in common: their progress, the pool's clients, the tables, the audit log |
| `Sending` | EXTENDS `Calls` with `POST /v2/messages/send` and how an attempt is read |
| `SubmitOnce` | the abstract send attempt: handed over at most once, settled at most once |
| `Listings` | EXTENDS `Calls` with what the tenant's and the operators' read calls show |
| `Console` | EXTENDS both with the operators' commands, the tenant's webhook calls, the settings, what workers record; `ImplementsSubmitOnce` |
| `MailboxControlProofs`, `InboundProofs`, `MessageJobsProofs`, `MeteringProofs`, `SignInProofs`, `ConsoleProofs` | theorems and proofs about one module each |
| `MailboxReadersProofs` | theorems about `MailboxViews` and `Reconcile`, from those of `MailboxControlProofs` |
| `ConsoleHistoryProofs` | theorems about what calls leave behind in the log, the listings, the settings and the attempts, from `ConsoleProofs` |
| `MC...` | constants, symmetry and bounds for TLC |

How a module stands for the code:

- **A step is what nobody can interrupt.** JavaScript runs to the next `await`, so a step of a
  `MemoryStore` operation is the whole operation, and a step over Postgres is a statement (or a
  transaction, where its statements cannot be told apart by another one). A statement that waits for a
  row lock or for another transaction's entry in a unique index is a guard: the row locks of released
  leases in `MailboxControl` (`held`), the invoice row in `Metering` (`Locked`), the wallet and mailbox
  entries in `SignIn` (`HoldsWallet`, `HoldsPrefix`).
- **`pc` is the await a request is suspended at**; a request's other variables are the local variables
  its handler still uses after it. `Crash`, `Fail...`, `Restart` end a request at any await, with
  its open transaction rolled back and its committed work kept.
- **External calls have every outcome they can have**: a Mailu call can take effect and still fail for
  the caller (`ProvisionMailbox`, `BackendReleaseMailbox`), a post can be received and time out
  (`MessageJobs!Post`), a sync can give up on an ingest call that the API goes on with (`Inbound!LosePass`).
- **What is listed has an order**, where a failure in the middle makes it matter. `Inbound!Precedes` is the
  order of `listMailboxFiles`: mailbox by mailbox, all of `new/` before all of `cur/`, in a folder as
  `readdir` gives the files; a mail that is opened moves behind those that are not. `Reconcile!NextMailbox`
  goes by the addresses. The rows of `audit_logs` are ordered by `created_at`, which is the time of BEGIN
  for all rows of a transaction: `Calls!CommitWith` inserts them where it began, in front of which the rows
  of later ones may already stand.
- **Data are ids.** A message is its provider id, an event its type, a price a natural number (millionths
  of a USDC); passwords, subjects, signatures and templates are left out.
- **Mutants.** Operators commented "Mutant:" are plausible bugs. `PROJECT.json` pairs each with the
  property that has to notice it when it replaces the definition that follows.

`PROJECT.json` "map" gives the lines every definition stands for. In short: `MailboxControl` follows
`tenant-commands.js:18-76` and the store's allocate, release, freeze and admin-release operations;
`Reconcile` follows `reconcile.js` and `reconcile-helpers.js`; `Inbound` follows `mailu-sync.js:53-180`
and `internal-service.js:44-111`; `MessageJobs` the two handlers in `src/jobs/` and the dispatcher;
`Metering` follows `evaluateAccess`, `recordUsageAndCharge` and `recordOverageCharge`; `SignIn` follows
`createSiweChallenge`, `verifySiwe` and `getOrCreateIdentity`; `Calls`, `Sending` and `Console` follow
`v2/admin-routes.js`, `v2/webhook-*.js`, `v2/message-routes.js`, `runtime-settings.js` and the stores'
operations behind them; `Listings` and `MailboxViews` the stores' list and get operations.

The console family deserves a word. A call has an `op`, an input `arg`, a `pc` and one remembered value
(`kept`); its number is its request id and every value it makes up (a secret, a webhook, a usage record).
A Postgres call is a chain of statements, each of which `Fail`s or succeeds; a statement outside a
transaction needs a free client of the pool for its own duration, one inside keeps the client from BEGIN
to release, and `nested` is where `applyMessageParseResult` and `updateRuntimeSettings` ask for a second
one while they hold theirs. `Menu` is a bound: which commands a run considers together.

Simplifications that a reader should know of:

- `MailboxControl`, `Metering`, `MessageJobs` and the console family have one tenant: every query filters on
  it. The console family also has one invoice, one message, one policy, and a webhook to begin with.
  `Metering` has one agent, whose hourly limit is checked, and a constant limit (an operator can change it).
- `Metering` keeps the records inside each window as two counts, those let through below the limits
  (`unpaid`) and the rest; `Expire` lets any of them age at any time.
- `store` is chosen in `Init` of `Metering`, `SignIn` and `Console`, so that one run checks both.
  `MemoryStore` operations are single steps there that cannot fail.
- What a listing shows is the columns the modelled calls can change; its pages are modelled for the audit
  log, whose rows are pushed in front of the reader.
- Calls of `SignIn` that show no or another challenge get a 401 and change nothing, so there is no step.
- All metered endpoints are in `fetch-app.js`'s `paidBypassTargets`, so the 429 branch is never taken.

## 3. Runs and bounds

| Run | Shows | Bounds, and why they do |
|---|---|---|
| `mailbox_memory` | over `MemoryStore`: `LeasedIsBacked`, `ExclusiveLeases`, `FreezeHolds`, `ViewsAgree` (every listing tells the same of a mailbox and its lease), and the refinement of `ExclusiveLease` | 2 mailboxes, 3 leases, 3 requests: a grant, a release and a freeze can overlap on one mailbox while another is free |
| `mailbox_postgres` | over `PostgresStore`: `LeasedIsBacked`, `LeaseHistory`, `ViewsAgree` | the same, `delete` mode; two open transactions and a grant between them |
| `postgres_one_active_lease` | violation, see 6 | 1 mailbox, 2 requests, 3 leases |
| `postgres_freeze_holds` | violation, see 6 | 1 mailbox, 2 requests |
| `reconcile_repair` | passes align Mailu once requests pause (`EventuallyAligned`), though every pass ends at a mailbox for which Mailu always fails | 2 leases of one mailbox and 2 requests: a release and a new grant can overtake a pass, a compensation another request; a second mailbox, listed behind the first, is broken, and the requests leave it alone (`BrokenRest`) |
| `inbound` | `UniqueMessages`, `MarkedIsStored`, `CallsFit` with abandoned calls; every mail is stored in the end, unless a refused one is listed before it for good (`MailIsStored`) | 2 mails of one mailbox, the first without Message-ID, the second refused; 2 calls, so that one can outlive its pass. The refused file can be listed behind the other, in front of it (the mail in `cur/`, the refused one in `new/`), and move from one to the other |
| `inbound_unqueued` | violation, see 6 | 1 mail |
| `jobs` | `ToldAfterResult`, `DeliveredIsReceived`, `EveryHookIsTold` | 1 message, 2 webhooks, 4 jobs: room for a second parse job or a repeated fan-out |
| `metering` | over both stores: `OvershootBounded`, `InvoicesAddUp`, `AnsweredIsMetered` | 2 calls at a time of 3, limit 1 (so the third can overshoot and two can pay at once), 2 months and prices, 3 invoices |
| `sign_in` | over both stores: `OneTenantEach`, `TokensAreTrue`, `ReplayBounded`, `EverySignInEnds` | 3 wallets, two with one mailbox prefix; 2 sessions, 3 challenges, 3 verifications: an overlap and a late comer |
| `console` | over both stores: `AnsweredIsAudited`, `AuditTellsTruth`, `AnsweredIsVisible`, `SettingsAgree`, `OnlyNestingStarvesPool`, `PagesMissNothing`, `AcceptedIsMailed`, `CooldownHolds`, and the refinement of `SubmitOnce` | 3 calls of which 2 at a time, 2 clients, a cooldown of 1 mail, pages of 1 row; every pair of 19 commands and four triples: two commands that nest starve a pool of two, three sends can exceed a cooldown of one by more than those in flight, a second row needs a second page, and a first load needs a third call to meet two updates |
| `console_unaudited` | violation, see 6 | one command, an update of the settings |

The bounds on ids (`Leases`, `Messages`, `MaxJobs`, `MaxCalls`, `MaxChallenges`, `MaxVerifies`,
`MaxMonth`, `Invoices`, `Menu`) cap how often something is made; they disable the making of more and nothing
else. Symmetry is only used in runs without liveness.

Each module has one type invariant. The other properties relate the steps of several actors or two pieces of
state: what the table says and who holds a lease, what the state file names and what is stored, what a
receiver got and what the row says, what an invoice amounts to and which charges there are, what a call was
answered and what the log and the listings then say.

## 4. Fairness

- `Inbound!FairSpec`: the loop in `docker-compose.prod.yml` starts the script again after each pass,
  however it ended (weak fairness of `StartPass`). Steps of the pass and of the call it waits for have
  strong fairness per mail the API takes: a failure may strike any number of times, but not each time. A
  refused mail is posted when the pass is at it (weak fairness); its refusal ends the pass, and nothing
  assumes it away. The Maildir's owner and requests of other clients have none.
- `MessageJobs!FairSpec`: the worker container has `restart: unless-stopped`, and BullMQ hands waiting
  and stalled jobs out again: weak fairness of starting a job and of its next step. Failing, dying and
  operators have none.
- `Reconcile!RecSpec`: the operator runs `npm run reconcile:mailboxes -- --repair` again and again, and
  but for the mailboxes in `Broken` Mailu does not fail for ever (strong fairness of probing and repairing
  each). A broken one makes the pass that comes to it throw (weak fairness of `ProbeThrows`), and
  `EventuallyAligned` only claims what is listed before it. Requests have none: it only speaks of behaviours
  in which they pause.
- `SignIn!FairSpec`: a request that can go on does; nothing is assumed of clients.
- `MailboxControl`, `Metering` and `Console` are checked for safety only. Of the pool, liveness does not
  hold (section 6); `OnlyNestingStarvesPool` says what alone can stop it.

## 5. Proofs

Every safety property that a passing run checks is also a theorem, for all values of the constants. The
assumptions are the named `ASSUME`s of the modules: the store is one of two, special values are outside the
sets they mark the absence of, bounds are natural numbers, slots and sessions are finite, a page, a pool and
the cooldown are at least 1, and `Menu` offers inputs a command can be given (`Args`). Nothing else is
assumed.

- **`MailboxControlProofs`.** `LeasedMailboxIsBacked`, for both stores. `LeasedIsBacked` alone is not
  inductive: an open release has already ended leases, and its mailbox is still shown as leased to others.
  `BackedInv` adds `RequestsFit`, what each request remembers of the tables, in particular that a
  transaction in `commit` only holds leases of its own mailbox, whose status it is about to write.
  `LeasesEndOnce` is the action property, one case per action, from the same invariant.
  `MemoryLeasesExclusive`, `MemoryFreezeHolds` and `MemoryImplementsExclusiveLease` assume `Store =
  "memory"` and rest on `MemoryInv` (no transaction is ever open there). The refinement maps every step to a
  grant, release, freeze or reopening of `ExclusiveLease`, or to a stutter.
- **`MailboxReadersProofs`.** `ListingsAgree`: the listings are joins, so the proof is that a row of each
  shows a lease exactly if `BackedInv` lets the mailbox have it. The script's steps leave the tables alone
  and the requests' steps leave the pass alone, which gives `ReconcileTypes` and `RepairKeepsLeases`.
  `FreshPassesAlign` is the safety half of `EventuallyAligned`: while requests pause and the listing is
  true, no step of the script undoes an aligned mailbox and every repair aligns its own.
- **`InboundProofs`.** `CallInv` (types and `CallsFit`: what a call remembers is still so when it writes)
  gives `InboundTypes` and `CallsKeepTheirMessage`; with it, `MessagesAreUnique` (the insert is atomic with
  its check) and `StateFileIsTrue` (a file is only marked after the answer, an answer follows its row).
- **`MessageJobsProofs`.** `JobsInv` says what each job can be doing in each state, how many runs it has
  had, and that fan-out comes after a committed result; from it `ToldIsCommitted`, `DeliveredIsTrue` and
  `RunsAreBounded` (at most `Attempts + 1` runs).
- **`MeteringProofs`.** `OvershootBounded` becomes inductive when the calls that have passed a window and
  are not yet recorded are counted with the records (`RoomLeft`): passing needs fewer than `Limit` records,
  and there are never more than `Cardinality(Slots)` calls under way. `MeterInv` (each busy slot has a call
  of its own, and what it has still to write is not written) gives `AnsweredCallsAreMetered`.
  `ChargesAddUp` has two halves. `BillInv`: at most one bill is computed against a locked invoice row, and
  its total is the amount that is there and its price. And a fact about sums over sets, whose definition is
  recursive: adding a charge adds its price (`SumOfOneMore`), whichever element the sum takes first. The
  induction it needs is a smallest set without the property (`SmallestSet`, from the library's `WFMin`,
  which has no operator for a parameter): some function sums every subset in any order (`AddsExists`), and
  the one the definition chooses can be no other (`OneByChoice`).
- **`SignInProofs`.** `RowsInv`: what a transaction has inserted under a unique index belongs to no other,
  committed or open (`LocksHold`), and the id of a tenant in the making is fresh (`FreshTenants`); hence
  `WalletsHaveOneTenant` and `TokensNameTenants`. For `ReplaysAreBounded`, the tokens of a challenge are
  counted together with the requests that still hold it (`TokensFit`): as long as the challenge is kept it
  has given none (`ChallengesFit`). Both stores are covered: over `MemoryStore` no transaction is ever open
  (`SessionsFit`), and addresses are not claimed to be unique.
- **`ConsoleProofs`.** One inductive invariant, `Types /\ Pool /\ Calling`, for any number of calls of any
  kind, any size of the pool and either store. `Pool`: the clients are those of the calls suspended inside a
  transaction, and no more than there are, whatever fails or crashes. `Calling` has three parts: `KeptFits`
  (what a call remembers is what it read), `Nesting` (only parse results and settings updates get to where a
  second client is asked for) and `Audited` (a call past its audit statement has its row in the log, which
  only grows). From it `ConsoleTypes`, `AnsweredCallsAreAudited` (of the commands in `Named`: a settings
  update has no row and a new webhook's has no id, see section 6) and `OnlyNestingStarves`: if all holders of
  clients wait, each is at a nested statement or at a row another one holds, and there are as many as the
  pool has clients.

  The second half sorts the steps of all calls by what they do (`Effects`): eleven kinds, from `Passing`,
  which changes no table, to `DoingBoth`, which commits a change with its row; a row put into the log moves
  the rows behind it (`ShiftedRows`), and with them the places at which open transactions will put theirs
  (`CommitPlaces`), and changes none. The later proofs go by kind, not by action. The first
  is `CooldownBounds`: a send that has passed the check holds one of the `InFlight` places until its record
  is there, so records and such sends together (`CooldownInv`) stay below the limit and those places.
- **`ConsoleHistoryProofs`.** Each theorem has an invariant of its own beside the first one.
  `SendInv` (what a send's step says of its mail, of its newest row, and of the row in memory) gives
  `AcceptedMails` and the refinement `SendsSubmitOnce`; rows of other calls can land anywhere in the log,
  but the newest row of an attempt stays its newest. `TruthInv` (a call between its change and its row
  has changed what the row will say, and nothing takes that back) gives `LogIsTrue`, where the events are
  counted against their rows. `VisibleInv` (what an unrivalled call has changed stays as it left it) gives
  `DoneIsShown` through the listings that show it (of a secret and a policy, which none shows, in the table);
  of replays it says nothing. `SettingsInv` (unless muddled, one update at most is under way, none
  during a load, and the cache is its value) gives `SettingsAreStored`. `PagesInv` gives `PagesAreWhole`:
  every row the reader has not seen lies deeper than the pages turned (`Ahead`), and a row never comes
  nearer to the front (`OnlyDeeper`), wherever a commit puts its own.

Only model-checked: liveness (`MailIsStored`, `EveryHookIsTold`, `EventuallyAligned`, `EverySignInEnds`),
which is out of the prover's reach.

## 6. What does not hold

Disagreements between the code and what its documents say, each with a run that finds it (`findings`):

- **Two active leases** (`postgres_one_active_lease`). `PostgresStore.releaseMailbox` ends the leases in
  one statement and resets the mailbox in the next. A grant committed in between leaves an active lease
  on an available mailbox, which the next grant takes again.
  `docs/mailagents-v2-technical-design.md:207` asks for at most one active lease.
- **A freeze that thaws** (`postgres_freeze_holds`). The release of an already ended lease, or a late
  compensation, sets a frozen mailbox back to available (`postgres-store.js:440`);
  `docs/admin-dashboard.md:201` says it cannot be given out. `MemoryStore` returns early instead.
- **A stored message nobody parses** (`inbound_unqueued`). A failure between commit and enqueue, and
  every repetition is taken for a duplicate (`internal-service.js:76`).
- **A write without a row in the audit log** (`console_unaudited`). An update of the runtime settings
  changes every tenant's overage price and logs nothing (`postgres-store.js:318`);
  `docs/admin-dashboard.md:284` says that every write is found in the log by its request id
  (`WritesAreAudited`). The property is false of one more command: the row of `createWebhook` has no request
  id (`:932`). `AnsweredIsAudited` says that it holds of all others.

Further behaviours that the models keep and for which no property is claimed:

- a repeated release, over either store, ends the lease of the mailbox's next holder
  (`tenant-commands.js:50`);
- a mailbox for which Mailu keeps failing ends every repair pass, and those with a later address are never
  repaired (`reconcile.js:9`), where `docs/mailbox-reconciliation.md:38-42` makes no such exception;
- a refused mail in `new/` ends every pass, and the mail listed behind it is never handed over
  (`mailu-sync.js:166`), where `docs/redesign-architecture.md:202-204` has all mail recorded;
- a mail without Message-ID is stored again when its file is renamed (`mailu-sync.js:56`);
- a receiver is told twice when its answer comes late or the record of it fails
  (`webhook-dispatcher.js:49`, `webhook-delivery-job.js:43`), and a delivery recorded as failed may have been
  received;
- one month can have two invoices (`postgres-store.js:1420`), and an issued invoice still grows (`:1434`);
- a wallet whose mailbox prefix is taken can never sign in (`postgres-store.js:98`); consuming a challenge
  can delete a newer one (`v1-system-service.js:58`).

In the console family:

- a pool of clients can be starved for good by as many parse results and settings updates as it has
  clients (`postgres-store.js:767`, `:340`): each holds one and asks for a second;
- the cache of settings and the table differ after an update the store fails to keep
  (`runtime-settings.js:35`), when the slow first load lands on a newer update (`:24`) and
  when two updates meet, until the next update or restart. `SettingsAgree` says that nothing else makes them differ;
- an operator's command is a read, a change and an audit row without a transaction: a failure in between
  leaves a change without a row (`postgres-store.js:1683`); a patch of one quota fails on the other's NOT
  NULL column when the status is already written (`:1694`);
- a mail that was sent can be recorded as failed, even after it was recorded as accepted
  (`tenant-commands.js:107`); and when only the metering after it fails, the call is answered 502 and its
  repetition sends the mail again (`message-routes.js:145`);
- a webhook replay records a status 200 without posting anything (`postgres-store.js:2061`, `:1935`), where
  `docs/admin-dashboard.md:206-207` has the event queued again and the result of its delivery written back;
  replaying a message marks all of a tenant's webhooks in Postgres and one of them in memory; a message once
  parsed stays `parsed` in Postgres when a later parse fails.

## 7. Not modelled

- The legacy `/v1` API and its jobs: `fetch-app.js` answers 410 and nothing enqueues the jobs.
- The pages' own state in the browser (a token, a selected mailbox, saved passwords): it is not shared. The
  commands their tables and forms send are `Console`'s choices.
- The development mail backend and the no-op backend, configuration parsing, wording of responses, the
  overview's metrics and time series, usage summaries and the list of risk events: no state changes.
- The lazy creation of the pool: one promise, awaited by everybody.
- The parser's regular expressions, signatures, tokens, encryption: data.
- Payment proofs: `Metering` only knows that a call over a limit shows one or ends.
- Restarts of a `MemoryStore`, which forgets all: that is `Init` again (only `SignIn`, whose tokens
  outlive it, has the step).

## 8. Plan

Order: the lease path first (it is what the product sells and where two systems of record meet), then
the inbound path, the jobs, the bookkeeping around them, and the console that crosses them all. Done:
`MailboxControl` with its refinement and its views, `Reconcile`, `Inbound`, `MessageJobs`, `Metering` and
`SignIn` over both stores, `Sending` with its refinement, settings, pool, `Listings`, `Console`.

Next:

1. `MessageJobs`: rotation of a webhook's secret during a delivery.
2. What `MemoryStore` and `PostgresStore` promise in common, as an abstract specification that `Metering`
   implements in both.
