------------------------------ MODULE Listings ------------------------------
(***************************************************************************)
(* What the tenant's and the operators' read calls show of the tables, per *)
(* store.  Items carry the columns the calls can change.                   *)
(***************************************************************************)
EXTENDS Calls

-----------------------------------------------------------------------------
(* Tenants.                                                                *)

MemoryTenants(status) ==
  {t \in {[status |-> db.status, qps |-> db.qps, limit |-> db.limit]} :
     status \in {"any", t.status}}

PgTenants(status) ==
  {[status |-> s, qps |-> db.qps, limit |-> db.limit] :
     s \in {db.status} \cap (IF status = "any" THEN {db.status} ELSE {status})}

ListTenants(status) ==
  IF store = "memory" THEN MemoryTenants(status) ELSE PgTenants(status)

MemoryGetTenant == CHOOSE t \in MemoryTenants("any") : TRUE

PgGetTenant == [status |-> db.status, qps |-> db.qps, limit |-> db.limit]

GetTenant == IF store = "memory" THEN MemoryGetTenant ELSE PgGetTenant

-----------------------------------------------------------------------------
(* Webhooks and their deliveries.                                          *)

Hook(h) == [hook |-> h, code |-> db.code[h]]

MemoryTenantHooks == {Hook(h) : h \in db.hooks}

PgTenantHooks == {Hook(h) : h \in db.hooks}

\* getTenantWebhook; the empty set is its null.
MemoryTenantHook(h) == {item \in MemoryTenantHooks : item.hook = h}

PgTenantHook(h) == {Hook(g) : g \in db.hooks \cap {h}}

\* adminListWebhooks with a webhook_id.
MemoryAdminHooks(h) == {item \in {Hook(g) : g \in db.hooks} : item.hook = h}

PgAdminHooks(h) == {Hook(g) : g \in {k \in db.hooks : k = h}}

\* The calls that read them.
TenantHooks == IF store = "memory" THEN MemoryTenantHooks ELSE PgTenantHooks

TenantHook(h) == IF store = "memory" THEN MemoryTenantHook(h) ELSE PgTenantHook(h)

AdminHooks(h) == IF store = "memory" THEN MemoryAdminHooks(h) ELSE PgAdminHooks(h)

\* Every listing that shows webhook h shows it with this code.
HookShown(h, code) ==
  LET item == [hook |-> h, code |-> code]
  IN  /\ item \in TenantHooks \cap AdminHooks(h)
      /\ TenantHook(h) = {item}

\* The rows of webhook_deliveries or, without it, of the audit log.
DeliveryRows ==
  IF store = "memory" \/ v2 THEN db.delivered
  ELSE {audit[n].call : n \in
          {k \in 1..Len(audit) : audit[k].action = "webhook.deliver"}}

MemoryTenantDeliveries == db.delivered

PgTenantDeliveries == DeliveryRows

MemoryTenantDelivery(d) == {e \in MemoryTenantDeliveries : e = d}

PgTenantDelivery(d) == DeliveryRows \cap {d}

MemoryAdminDeliveries == db.delivered

PgAdminDeliveries == DeliveryRows

TenantDeliveries ==
  IF store = "memory" THEN MemoryTenantDeliveries ELSE PgTenantDeliveries

TenantDelivery(d) ==
  IF store = "memory" THEN MemoryTenantDelivery(d) ELSE PgTenantDelivery(d)

AdminDeliveries ==
  IF store = "memory" THEN MemoryAdminDeliveries ELSE PgAdminDeliveries

DeliveryShown(d) ==
  /\ d \in TenantDeliveries \cap AdminDeliveries
  /\ TenantDelivery(d) = {d}

-----------------------------------------------------------------------------
(* Messages.                                                               *)

\* MemoryStore keeps the newest event of a message only.
MemoryMessageStatus ==
  IF db.events = <<>> THEN "pending" ELSE db.events[Len(db.events)]

PgMessageStatus ==
  IF \E n \in 1..Len(db.events) : db.events[n] = "parsed" THEN "parsed"
  ELSE IF db.events = <<>> THEN "pending" ELSE "failed"

MemoryAdminMessages(status) ==
  {s \in {MemoryMessageStatus} : status \in {"any", s}}

PgAdminMessages(status) ==
  {s \in {PgMessageStatus} : status \in {"any", s}}

\* getTenantMessageDetail.
MemoryMessage == [status |-> MemoryMessageStatus,
                  code |-> MemoryMessageStatus = "parsed"]

\* The code is that of the newest otp.extracted event.
PgMessage == [status |-> PgMessageStatus,
              code |-> "parsed" \in {db.events[n] : n \in 1..Len(db.events)}]

\* getLatestMessages has no status.
MemoryLatest == [code |-> MemoryMessageStatus = "parsed"]

PgLatest == [code |-> \E n \in 1..Len(db.events) : db.events[n] = "parsed"]

AdminMessages(status) ==
  IF store = "memory" THEN MemoryAdminMessages(status) ELSE PgAdminMessages(status)

TenantMessage == IF store = "memory" THEN MemoryMessage ELSE PgMessage

LatestMessage == IF store = "memory" THEN MemoryLatest ELSE PgLatest

MessageShown(status) ==
  /\ status \in AdminMessages(status)
  /\ TenantMessage.status = status
  /\ LatestMessage.code = (status = "parsed")

-----------------------------------------------------------------------------
(* Invoices.                                                               *)

Invoice == [status |-> db.invoice]

\* listTenantInvoices, getInvoice and adminListInvoices of each store.
MemoryTenantInvoices == {Invoice}

PgTenantInvoices == {Invoice}

MemoryTenantInvoice == Invoice

PgTenantInvoice == Invoice

MemoryAdminInvoices == {Invoice}

PgAdminInvoices == {Invoice}

TenantInvoices ==
  IF store = "memory" THEN MemoryTenantInvoices ELSE PgTenantInvoices

TenantInvoice ==
  IF store = "memory" THEN MemoryTenantInvoice ELSE PgTenantInvoice

AdminInvoices == IF store = "memory" THEN MemoryAdminInvoices ELSE PgAdminInvoices

InvoiceShown(status) ==
  /\ TenantInvoice.status = status
  /\ TenantInvoice \in TenantInvoices \cap AdminInvoices

-----------------------------------------------------------------------------
(* The audit log.                                                          *)

\* Mutant: pages are counted from 0.
PageFromZero(items, page, size) ==
  LET offset == page * size
      last == IF offset + size < Len(items) THEN offset + size ELSE Len(items)
  IN  SubSeq(items, offset + 1, last)

\* _paginate.
Page(items, page, size) ==
  LET offset == (page - 1) * size
      last == IF offset + size < Len(items) THEN offset + size ELSE Len(items)
  IN  SubSeq(items, offset + 1, last)

\* adminListAuditLogs: newest first.
NewestFirst == [n \in 1..Len(audit) |-> audit[Len(audit) + 1 - n]]

MemoryAuditLog(page, size) == Page(NewestFirst, page, size)

PgAuditLog(page, size) == Page(NewestFirst, page, size)

AuditLog(page, size) ==
  IF store = "memory" THEN MemoryAuditLog(page, size) ELSE PgAuditLog(page, size)

\* With request_id: what one call has left in the log.
AuditOf(i) ==
  {audit[n].action : n \in
     {k \in 1..Len(audit) : audit[k].named /\ audit[k].call = i}}

=============================================================================
