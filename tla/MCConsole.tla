----------------------------- MODULE MCConsole -----------------------------
(* Console for TLC.                                                        *)
EXTENDS Console

Call(o, a) == [op |-> o, arg |-> a]

\* Every command, in some order.
Calls == <<Call("patchTenant", "disable"), Call("patchTenant", "form"),
           Call("patchTenant", "one"), Call("issueInvoice", "none"),
           Call("rotateSecret", "none"), Call("adminRotate", "none"),
           Call("replayWebhook", "none"), Call("replayMessage", "none"),
           Call("upsertPolicy", "deny"), Call("upsertPolicy", "remove"),
           Call("createWebhook", "none"), Call("reparse", "none"),
           Call("parse", "parsed"), Call("parse", "failed"),
           Call("deliver", "ok"), Call("deliver", "bad"),
           Call("send", "none"), Call("updateSettings", "none"),
           Call("readLog", "none")>>

\* Any two, and three where three are needed.
Pairs ==
  {<<Calls[m], Calls[n], Call("none", "none")>> :
     <<m, n>> \in {p \in (1..Len(Calls)) \X (1..Len(Calls)) : p[1] <= p[2]}}

Triples ==
  {<<Call("send", "none"), Call("send", "none"), Call("send", "none")>>,
   <<Call("send", "none"), Call("reparse", "none"), Call("readLog", "none")>>,
   <<Call("updateSettings", "none"), Call("updateSettings", "none"),
     Call("issueInvoice", "none")>>,
   <<Call("parse", "parsed"), Call("updateSettings", "none"),
     Call("reparse", "none")>>}

PairsAndTriples == Pairs \cup Triples

\* One call alone.
SettingsAlone == {<<Call("updateSettings", "none")>>}

\* One call looks at the tenant's identity and another at the table of
\* deliveries: they are absent together.
MCInit == Init /\ v2 = bound

MCSpec == MCInit /\ [][Next]_vars

=============================================================================
