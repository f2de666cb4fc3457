------------------------------ MODULE Inbound ------------------------------
(***************************************************************************)
(* How mail gets into the control plane.  A loop (docker-compose.prod.yml, *)
(* service mailu-sync) runs scripts/mailu-maildir-sync.js: each pass lists *)
(* the files of Mailu's Maildir, posts those its state file does not name  *)
(* to /internal/inbound/events, one at a time, and writes the state file   *)
(* at its end.  The API stores the message and enqueues a parse job.       *)
(*                                                                         *)
(* PostgresStore and the Redis queue, as in production: the API awaits a   *)
(* statement or the queue between any two steps of a call, and a call goes *)
(* on when the client that made it is gone.                                *)
(***************************************************************************)
EXTENDS Naturals, FiniteSets

CONSTANTS Mails,     \* the mails Mailu accepts, numbered in the order in
                     \* which a readdir gives the files of one folder
          BoxOf,     \* the mailbox a mail is for, numbered in the order in
                     \* which a readdir of the Maildir gives them
          Headed,    \* those with a Message-ID header
          Refused,   \* those the API answers 400 or 404: the sender has no
                     \* domain (a bounce), or no mailbox has the address
          Messages,  \* ids of messages rows, a bound on their number
          Calls,     \* POSTs the API can be handling at once
          Nobody     \* no file, no call, no message

ASSUME HeadedAssumption == Headed \subseteq Mails
ASSUME RefusedAssumption == Refused \subseteq Mails
ASSUME MailsAssumption == Mails \subseteq Nat
ASSUME BoxOfAssumption == BoxOf \in [Mails -> Nat]

VARIABLES folder,   \* the Maildir folder a mail's file is in
          saved,    \* the files named in the state file
          syncing,  \* a pass is running
          todo,     \* the files it listed and has not come to
          marked,   \* state.files, the pass's copy of the state
          awaited,  \* the call whose answer it waits for
          at,       \* where the API is with a call
          about,    \* the file a call is about
          row,      \* the message a call has found or inserted
          stored,   \* provider_message_id of the messages rows
          queued    \* messages a parse job has been enqueued for

mailVars == <<folder>>
passVars == <<saved, syncing, todo, marked, awaited>>
apiVars == <<at, about, row, stored, queued>>
vars == <<mailVars, passVars, apiVars>>

Folders == {"new", "cur"}
Files == Mails \X Folders

\* providerMessageId: the Message-ID header or, without one, the file's path.
ProviderId(f) == <<f[1], IF f[1] \in Headed THEN "header" ELSE f[2]>>

ProviderIds == Mails \X {"header", "new", "cur"}

ASSUME NobodyAssumption == Nobody \notin Files \cup ProviderIds \cup Calls \cup Messages

TypeOK ==
  /\ folder \in [Mails -> Folders \cup {"away", "gone"}]
  /\ saved \in SUBSET Files
  /\ syncing \in BOOLEAN
  /\ todo \in SUBSET Files
  /\ marked \in SUBSET Files
  /\ awaited \in Calls \cup {Nobody}
  /\ at \in [Calls -> {"idle", "lookup", "insert", "enqueue", "answer"}]
  /\ about \in [Calls -> Files \cup {Nobody}]
  /\ row \in [Calls -> Messages \cup {Nobody}]
  /\ stored \in [Messages -> ProviderIds \cup {Nobody}]
  /\ queued \in SUBSET Messages

Init ==
  /\ folder = [m \in Mails |-> "away"]
  /\ saved = {}
  /\ syncing = FALSE
  /\ todo = {}
  /\ marked = {}
  /\ awaited = Nobody
  /\ at = [c \in Calls |-> "idle"]
  /\ about = [c \in Calls |-> Nobody]
  /\ row = [c \in Calls |-> Nobody]
  /\ stored = [i \in Messages |-> Nobody]
  /\ queued = {}

-----------------------------------------------------------------------------
(* Mailu.                                                                  *)

Arrive(m) ==
  /\ folder[m] = "away"
  /\ folder' = [folder EXCEPT ![m] = "new"]
  /\ UNCHANGED <<passVars, apiVars>>

\* A mail client opens the mailbox: the file moves, and its path with it.
Open(m) ==
  /\ folder[m] = "new"
  /\ folder' = [folder EXCEPT ![m] = "cur"]
  /\ UNCHANGED <<passVars, apiVars>>

Expunge(m) ==
  /\ folder[m] \in Folders
  /\ folder' = [folder EXCEPT ![m] = "gone"]
  /\ UNCHANGED <<passVars, apiVars>>

-----------------------------------------------------------------------------
(* The pass.                                                               *)

Present(f) == folder[f[1]] = f[2]

\* listMailboxFiles and loadState.
StartPass ==
  /\ ~syncing
  /\ syncing' = TRUE
  /\ todo' = {f \in Files : Present(f)}
  /\ marked' = saved
  /\ UNCHANGED <<mailVars, saved, awaited, apiVars>>

\* The order of the listing: mailbox by mailbox, in each all of new/ before
\* all of cur/, in a folder as readdir gives the files.
Precedes(f, g) ==
  LET box == BoxOf[f[1]]
      other == BoxOf[g[1]]
  IN \/ box < other
     \/ box = other /\ f[2] = "new" /\ g[2] = "cur"
     \/ box = other /\ f[2] = g[2] /\ f[1] < g[1]

\* The files are visited in the order of the listing.
NextFile(f) ==
  /\ syncing /\ awaited = Nobody
  /\ f \in todo
  /\ \A g \in todo : ~Precedes(g, f)

\* Any error ends the pass, with the state file as it was.
AbortPass ==
  /\ syncing' = FALSE
  /\ todo' = {}
  /\ marked' = {}
  /\ awaited' = Nobody
  /\ UNCHANGED saved

\* The file was renamed or removed since it was listed: stat throws.
FileVanished(f) ==
  /\ NextFile(f)
  /\ ~Present(f)
  /\ AbortPass
  /\ UNCHANGED <<mailVars, apiVars>>

\* Mutant: only files in new/ are compared with the state.
SkipAllOfCur(f) ==
  /\ NextFile(f)
  /\ Present(f) /\ (f \in marked \/ f[2] = "cur")
  /\ todo' = todo \ {f}
  /\ UNCHANGED <<mailVars, saved, syncing, marked, awaited, apiVars>>

\* shouldSync: size and time of a Maildir file do not change.
SkipFile(f) ==
  /\ NextFile(f)
  /\ Present(f) /\ f \in marked
  /\ todo' = todo \ {f}
  /\ UNCHANGED <<mailVars, saved, syncing, marked, awaited, apiVars>>

\* Mutant: the file is marked before the POST has been answered.
PostMarkingFirst(f, c) ==
  /\ NextFile(f)
  /\ Present(f) /\ f \notin marked
  /\ at[c] = "idle"
  /\ todo' = todo \ {f}
  /\ awaited' = c
  /\ at' = [at EXCEPT ![c] = "lookup"]
  /\ about' = [about EXCEPT ![c] = f]
  /\ marked' = marked \cup {f}
  /\ UNCHANGED <<mailVars, saved, syncing, row, stored, queued>>

PostFile(f, c) ==
  /\ NextFile(f)
  /\ Present(f) /\ f \notin marked
  /\ at[c] = "idle"
  /\ todo' = todo \ {f}
  /\ awaited' = c
  /\ at' = [at EXCEPT ![c] = "lookup"]
  /\ about' = [about EXCEPT ![c] = f]
  /\ UNCHANGED <<mailVars, saved, syncing, marked, row, stored, queued>>

\* saveState.
FinishPass ==
  /\ syncing /\ todo = {} /\ awaited = Nobody
  /\ saved' = marked
  /\ syncing' = FALSE
  /\ marked' = {}
  /\ UNCHANGED <<mailVars, todo, awaited, apiVars>>

\* writeFile truncates first: a crash within it leaves a file that
\* loadState cannot parse and takes for no state at all.
TearStateFile ==
  /\ syncing /\ todo = {} /\ awaited = Nobody
  /\ saved' = {}
  /\ syncing' = FALSE
  /\ marked' = {}
  /\ UNCHANGED <<mailVars, todo, awaited, apiVars>>

\* The script dies, or its connection to the API: the call, if the API has
\* got it, goes on.
LosePass ==
  /\ syncing
  /\ AbortPass
  /\ UNCHANGED <<mailVars, apiVars>>

-----------------------------------------------------------------------------
(* The API: ingestInboundEvent.                                            *)

\* Call c is over; the pass that waits for it gets an error.
Fail(c) ==
  /\ at' = [at EXCEPT ![c] = "idle"]
  /\ about' = [about EXCEPT ![c] = Nobody]
  /\ row' = [row EXCEPT ![c] = Nobody]
  /\ IF awaited = c THEN AbortPass ELSE UNCHANGED passVars

Refuse(c) ==
  /\ at[c] = "lookup" /\ about[c][1] \in Refused
  /\ Fail(c)
  /\ UNCHANGED <<mailVars, stored, queued>>

Has(i, p) == stored[i] = p

\* Mutant: the parse job is enqueued before the message is inserted.
LookupAndEnqueue(c) ==
  /\ at[c] = "lookup" /\ about[c][1] \notin Refused
  /\ \/ \E i \in Messages :
          /\ Has(i, ProviderId(about[c]))
          /\ row' = [row EXCEPT ![c] = i]
          /\ at' = [at EXCEPT ![c] = "answer"]
          /\ UNCHANGED queued
     \/ /\ \A i \in Messages : ~Has(i, ProviderId(about[c]))
        /\ at' = [at EXCEPT ![c] = "insert"]
        /\ queued' = queued \cup {row[c]}
        /\ UNCHANGED row
  /\ UNCHANGED <<mailVars, passVars, about, stored>>

\* Mutant: the SELECT has lost its provider_message_id condition.
LookupAnyMessage(c) ==
  /\ at[c] = "lookup" /\ about[c][1] \notin Refused
  /\ \/ \E i \in Messages :
          /\ ~Has(i, Nobody)
          /\ row' = [row EXCEPT ![c] = i]
          /\ at' = [at EXCEPT ![c] = "answer"]
     \/ /\ \A i \in Messages : Has(i, Nobody)
        /\ at' = [at EXCEPT ![c] = "insert"]
        /\ UNCHANGED row
  /\ UNCHANGED <<mailVars, passVars, about, stored, queued>>

\* The SELECT for a row with the same provider_message_id: with one the call
\* answers at once, "deduped", without a parse job.
Lookup(c) ==
  /\ at[c] = "lookup" /\ about[c][1] \notin Refused
  /\ \/ \E i \in Messages :
          /\ Has(i, ProviderId(about[c]))
          /\ row' = [row EXCEPT ![c] = i]
          /\ at' = [at EXCEPT ![c] = "answer"]
     \/ /\ \A i \in Messages : ~Has(i, ProviderId(about[c]))
        /\ at' = [at EXCEPT ![c] = "insert"]
        /\ UNCHANGED row
  /\ UNCHANGED <<mailVars, passVars, about, stored, queued>>

\* Mutant: no unique index on (mailbox_id, provider_message_id).
InsertUnchecked(c) ==
  /\ at[c] = "insert"
  /\ \E i \in Messages :
       /\ Has(i, Nobody)
       /\ stored' = [stored EXCEPT ![i] = ProviderId(about[c])]
       /\ row' = [row EXCEPT ![c] = i]
       /\ at' = [at EXCEPT ![c] = "enqueue"]
       /\ UNCHANGED <<passVars, about, queued>>
  /\ UNCHANGED mailVars

\* The INSERTs and the COMMIT.  The unique index makes a concurrent insert of
\* the same mail wait for this one's commit and then fail: 500.
Insert(c) ==
  /\ at[c] = "insert"
  /\ \/ \E i \in Messages :
          /\ \A j \in Messages : ~Has(j, ProviderId(about[c]))
          /\ Has(i, Nobody)
          /\ stored' = [stored EXCEPT ![i] = ProviderId(about[c])]
          /\ row' = [row EXCEPT ![c] = i]
          /\ at' = [at EXCEPT ![c] = "enqueue"]
          /\ UNCHANGED <<passVars, about, queued>>
     \/ /\ \E j \in Messages : Has(j, ProviderId(about[c]))
        /\ Fail(c)
        /\ UNCHANGED <<stored, queued>>
  /\ UNCHANGED mailVars

\* queue.enqueue(MESSAGE_PARSE_JOB).
Enqueue(c) ==
  /\ at[c] = "enqueue"
  /\ queued' = queued \cup {row[c]}
  /\ at' = [at EXCEPT ![c] = "answer"]
  /\ UNCHANGED <<mailVars, passVars, about, row, stored>>

\* 202, deduped or not; the pass marks the file if it is still waiting.
Answer(c) ==
  /\ at[c] = "answer"
  /\ at' = [at EXCEPT ![c] = "idle"]
  /\ about' = [about EXCEPT ![c] = Nobody]
  /\ row' = [row EXCEPT ![c] = Nobody]
  /\ IF awaited = c
     THEN marked' = marked \cup {about[c]} /\ awaited' = Nobody
     ELSE UNCHANGED <<marked, awaited>>
  /\ UNCHANGED <<mailVars, saved, syncing, todo, stored, queued>>

\* The API process dies, or Postgres or Redis fails the call (500): what is
\* committed stays, the rest of the handler does not run.
FailCall(c) ==
  /\ at[c] # "idle"
  /\ Fail(c)
  /\ UNCHANGED <<mailVars, stored, queued>>

-----------------------------------------------------------------------------
Mailu == \E m \in Mails : Arrive(m) \/ Open(m) \/ Expunge(m)

Pass ==
  \/ StartPass
  \/ \E f \in Files : \/ FileVanished(f)
                      \/ SkipFile(f)
                      \/ \E c \in Calls : PostFile(f, c)
  \/ FinishPass
  \/ TearStateFile
  \/ LosePass

Api ==
  \E c \in Calls :
    \/ Refuse(c) \/ Lookup(c) \/ Insert(c) \/ Enqueue(c) \/ Answer(c)
    \/ FailCall(c)

Next == Mailu \/ Pass \/ Api

Spec == Init /\ [][Next]_vars

Handle(c) == Lookup(c) \/ Insert(c) \/ Enqueue(c) \/ Answer(c)

\* The running pass waits for call c, about mail m.
WaitsFor(c, m) == awaited = c /\ about[c][1] = m

\* The loop restarts the script after every pass, however it ended, and a
\* call the API has taken comes to an end.  FailCall, LosePass and
\* TearStateFile may strike any number of times, but not every time that the
\* same step could be taken for the same mail while a pass waits for it.
FairSpec ==
  /\ Spec
  /\ WF_vars(StartPass)
  /\ WF_vars(\E f \in Files : FileVanished(f))
  /\ SF_vars(\E f \in Files : SkipFile(f))
  /\ SF_vars(FinishPass)
  /\ \A c \in Calls : WF_vars(Refuse(c) \/ Handle(c))
  /\ WF_vars(\E f \in Files, c \in Calls : PostFile(f, c))
  /\ \A m \in Mails \ Refused :
       /\ SF_vars(\E d \in Folders, c \in Calls : PostFile(<<m, d>>, c))
       /\ SF_vars(\E c \in Calls : WaitsFor(c, m) /\ Lookup(c))
       /\ SF_vars(\E c \in Calls : WaitsFor(c, m) /\ Insert(c))
       /\ SF_vars(\E c \in Calls : WaitsFor(c, m) /\ Enqueue(c))
       /\ SF_vars(\E c \in Calls : WaitsFor(c, m) /\ Answer(c))

-----------------------------------------------------------------------------
(* Properties.                                                             *)

Stored(m) == \E i \in Messages : stored[i] # Nobody /\ stored[i][1] = m

\* A provider id has one message row, however often, and however
\* concurrently, its file is posted.
UniqueMessages ==
  \A i, j \in Messages : stored[i] = stored[j] => i = j \/ stored[i] = Nobody

\* The pass and its state file only name files whose message is stored: no
\* crash, lost answer or refused call makes the sync skip a mail it has not
\* handed over.  The parse job is enqueued for stored messages only.
MarkedIsStored ==
  /\ \A f \in saved \cup marked : \E i \in Messages : Has(i, ProviderId(f))
  /\ \A i \in queued : stored[i] # Nobody

\* What the API knows in the middle of a call, through the failures of other
\* calls: the file it is about, and the row of that file's mail.
CallsFit ==
  /\ \A c \in Calls : at[c] # "idle" => about[c] \in Files
  /\ \A c \in Calls : at[c] \in {"enqueue", "answer"} =>
       row[c] \in Messages /\ stored[row[c]] = ProviderId(about[c])

\* A refused mail's file is listed before that of mail m.
Blocked(m) ==
  \E b \in Refused :
    /\ {folder[b], folder[m]} \subseteq Folders
    /\ Precedes(<<b, folder[b]>>, <<m, folder[m]>>)

\* A mail that stays in the Maildir becomes a message, though passes abort,
\* answers get lost, the state file is torn and calls fail, unless from some
\* moment on a refused mail is listed before it for good.  One that is opened,
\* removed or listed behind the mail in the end does not keep it out.
MailIsStored ==
  \A m \in Mails \ Refused :
    folder[m] \in Folders ~> \/ Stored(m)
                             \/ folder[m] = "gone"
                             \/ []Blocked(m)

\* A stored message gets a parse job, at the latest when the sync posts its
\* mail again (docs/mailagents-v2-technical-design.md:338).
MessageIsQueued ==
  \A m \in Mails :
    Stored(m) ~> folder[m] = "gone" \/ \E i \in queued : stored[i][1] = m

=============================================================================
