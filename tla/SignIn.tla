------------------------------- MODULE SignIn -------------------------------
(***************************************************************************)
(* Signing in with a wallet: a challenge per wallet in the memory of the   *)
(* API process, its verification, and the tenant made for a wallet seen    *)
(* for the first time: one transaction over PostgresStore, one step over   *)
(* MemoryStore.                                                            *)
(*                                                                         *)
(* Steps end at an await that another sign-in, or the table, can take part *)
(* in.  Whether a signature is good is the wallet library's business: a    *)
(* client shows the message of a challenge its wallet was given, and the   *)
(* signature is found good or not.  A row of identities stands for what    *)
(* the transaction inserts beside it: tenant, agent, quota and invoice.    *)
(***************************************************************************)
EXTENDS Integers, FiniteSets

CONSTANTS Wallets,        \* wallet addresses
          Prefix,         \* the mailbox prefix made of a wallet's address
          Sessions,       \* requests to verify that can be in progress
          MaxChallenges,  \* bound on the challenges
          MaxVerifies,    \* bound on the requests to verify
          None            \* no wallet

Challenges == 1 .. MaxChallenges
Tenants == 1 .. MaxVerifies
Prefixes == {Prefix[w] : w \in Wallets}

ASSUME PrefixAssumption == Prefix = [w \in Wallets |-> Prefix[w]]
ASSUME SessionsAssumption == IsFiniteSet(Sessions)
ASSUME BoundsAssumption == MaxChallenges \in Nat /\ MaxVerifies \in Nat
ASSUME NoneAssumption == None \notin Wallets

VARIABLES store,       \* the store in use, "memory" or "postgres"
          challenge,   \* the challenge kept for each wallet, 0 for none
          owner,       \* the wallet each challenge was made for
          identities,  \* wallet_identities: <<wallet, tenant>>
          mailboxes,   \* mailboxes by the prefix of their address: <<prefix, tenant>>
          verifies,    \* requests to verify so far
          pc,          \* where the request of a session is
          wallet,      \* the wallet of its message
          nonce,       \* the challenge of its message
          tenant,      \* the tenant it found or makes
          tokens,      \* tokens given, as long as the tables last: <<wallet, tenant>>
          given        \* tokens given for each challenge

tables == <<identities, mailboxes>>
session == <<pc, wallet, nonce, tenant>>
history == <<tokens, given>>
vars == <<store, challenge, owner, tables, verifies, session, history>>

TypeOK ==
  /\ store \in {"memory", "postgres"}
  /\ challenge \in [Wallets -> 0 .. MaxChallenges]
  /\ owner \in [Challenges -> Wallets \cup {None}]
  /\ identities \in SUBSET (Wallets \X Tenants)
  /\ mailboxes \in SUBSET (Prefixes \X Tenants)
  /\ verifies \in 0 .. MaxVerifies
  /\ pc \in [Sessions -> {"idle", "signature", "find", "wallet", "mailboxes",
                          "commit", "answer"}]
  /\ wallet \in [Sessions -> Wallets \cup {None}]
  /\ nonce \in [Sessions -> 0 .. MaxChallenges]
  /\ tenant \in [Sessions -> 0 .. MaxVerifies]
  /\ tokens \in SUBSET (Wallets \X Tenants)
  /\ given \in [Challenges -> Nat]

Init ==
  /\ store \in {"memory", "postgres"}
  /\ challenge = [w \in Wallets |-> 0]
  /\ owner = [n \in Challenges |-> None]
  /\ identities = {}
  /\ mailboxes = {}
  /\ verifies = 0
  /\ pc = [s \in Sessions |-> "idle"]
  /\ wallet = [s \in Sessions |-> None]
  /\ nonce = [s \in Sessions |-> 0]
  /\ tenant = [s \in Sessions |-> 0]
  /\ tokens = {}
  /\ given = [n \in Challenges |-> 0]

-----------------------------------------------------------------------------
(* Challenges.                                                             *)

\* A new challenge takes the place of the wallet's last one.
CreateSiweChallenge(w) ==
  /\ \E n \in Challenges :
       /\ owner[n] = None /\ \A k \in 1 .. n - 1 : owner[k] # None
       /\ owner' = [owner EXCEPT ![n] = w]
       /\ challenge' = [challenge EXCEPT ![w] = n]
  /\ UNCHANGED <<store, tables, verifies, session, history>>

ExpireChallenge(w) ==
  /\ challenge[w] # 0
  /\ challenge' = [challenge EXCEPT ![w] = 0]
  /\ UNCHANGED <<store, owner, tables, verifies, session, history>>

-----------------------------------------------------------------------------
(* Verifying: verifySiwe.                                                  *)

\* A request shows a challenge, and it is the one kept (else: 401).  Its
\* number is the id of the tenant it may make.
GetChallenge(s, n) ==
  /\ pc[s] = "idle" /\ verifies < MaxVerifies
  /\ owner[n] # None /\ challenge[owner[n]] = n
  /\ verifies' = verifies + 1
  /\ pc' = [pc EXCEPT ![s] = "signature"]
  /\ wallet' = [wallet EXCEPT ![s] = owner[n]]
  /\ nonce' = [nonce EXCEPT ![s] = n]
  /\ tenant' = [tenant EXCEPT ![s] = verifies + 1]
  /\ UNCHANGED <<store, challenge, owner, tables, history>>

\* Mutant: the challenge is kept for the sign-ins to come.
KeepChallenge(s) ==
  /\ pc[s] = "signature"
  /\ pc' = [pc EXCEPT ![s] = "find"]
  /\ UNCHANGED <<store, challenge, owner, tables, verifies, wallet, nonce, tenant,
                 history>>

\* The signature is good; whatever challenge the wallet now has is deleted.
ConsumeChallenge(s) ==
  /\ pc[s] = "signature"
  /\ challenge' = [challenge EXCEPT ![wallet[s]] = 0]
  /\ pc' = [pc EXCEPT ![s] = "find"]
  /\ UNCHANGED <<store, owner, tables, verifies, wallet, nonce, tenant, history>>

Known(w) == {t \in Tenants : <<w, t>> \in identities}

\* Mutant: a wallet without an identity is answered like one that has it.
FindOrAssume(s) ==
  /\ store = "postgres" /\ pc[s] = "find"
  /\ pc' = [pc EXCEPT ![s] = "answer"]
  /\ UNCHANGED <<store, challenge, owner, tables, verifies, wallet, nonce, tenant,
                 history>>

\* MemoryStore finds the identity or makes it at once, and gives a new tenant
\* its addresses whoever has them.
MemoryIdentity(s) ==
  /\ store = "memory" /\ pc[s] = "find"
  /\ IF Known(wallet[s]) = {}
     THEN /\ identities' = identities \cup {<<wallet[s], tenant[s]>>}
          /\ mailboxes' = mailboxes \cup {<<Prefix[wallet[s]], tenant[s]>>}
          /\ UNCHANGED tenant
     ELSE /\ \E t \in Known(wallet[s]) : tenant' = [tenant EXCEPT ![s] = t]
          /\ UNCHANGED tables
  /\ pc' = [pc EXCEPT ![s] = "answer"]
  /\ UNCHANGED <<store, challenge, owner, verifies, wallet, nonce, history>>

\* BEGIN and the SELECT of the wallet's identity.
FindIdentity(s) ==
  /\ store = "postgres" /\ pc[s] = "find"
  /\ IF Known(wallet[s]) = {}
     THEN pc' = [pc EXCEPT ![s] = "wallet"] /\ UNCHANGED tenant
     ELSE /\ \E t \in Known(wallet[s]) : tenant' = [tenant EXCEPT ![s] = t]
          /\ pc' = [pc EXCEPT ![s] = "answer"]
  /\ UNCHANGED <<store, challenge, owner, tables, verifies, wallet, nonce, history>>

\* Mutant: those that wait to insert hold a lock, too.
HoldsOrWaits(s, w) == pc[s] \in {"wallet", "mailboxes", "commit"} /\ wallet[s] = w

\* Open transactions that have inserted the wallet's row, or the mailboxes.
HoldsWallet(s, w) == pc[s] \in {"mailboxes", "commit"} /\ wallet[s] = w

HoldsPrefix(s, p) == pc[s] = "commit" /\ Prefix[wallet[s]] = p

\* INSERT INTO wallet_identities, unique by wallet: waits for the end of another
\* transaction that inserted the wallet, and fails if that committed.
InsertIdentity(s) ==
  /\ pc[s] = "wallet"
  /\ \A r \in Sessions \ {s} : ~HoldsWallet(r, wallet[s])
  /\ Known(wallet[s]) = {}
  /\ pc' = [pc EXCEPT ![s] = "mailboxes"]
  /\ UNCHANGED <<store, challenge, owner, tables, verifies, wallet, nonce, tenant,
                 history>>

Taken(p) == \E t \in Tenants : <<p, t>> \in mailboxes

\* Mutant: an address in use is taken again, as MemoryStore does.
InsertMailboxesAnyway(s) ==
  /\ pc[s] = "mailboxes"
  /\ pc' = [pc EXCEPT ![s] = "commit"]
  /\ UNCHANGED <<store, challenge, owner, tables, verifies, wallet, nonce, tenant,
                 history>>

\* The INSERTs of the five mailboxes, unique by address.
InsertMailboxes(s) ==
  /\ pc[s] = "mailboxes"
  /\ \A r \in Sessions \ {s} : ~HoldsPrefix(r, Prefix[wallet[s]])
  /\ ~Taken(Prefix[wallet[s]])
  /\ pc' = [pc EXCEPT ![s] = "commit"]
  /\ UNCHANGED <<store, challenge, owner, tables, verifies, wallet, nonce, tenant,
                 history>>

\* Mutant: the rows do not get the id of the tenant.
CommitWithoutTenant(s) ==
  /\ pc[s] = "commit"
  /\ identities' = identities \cup {<<wallet[s], 0>>}
  /\ mailboxes' = mailboxes \cup {<<Prefix[wallet[s]], 0>>}
  /\ pc' = [pc EXCEPT ![s] = "answer"]
  /\ UNCHANGED <<store, challenge, owner, verifies, wallet, nonce, tenant, history>>

\* COMMIT makes the rows visible, all at once.
CommitIdentity(s) ==
  /\ pc[s] = "commit"
  /\ identities' = identities \cup {<<wallet[s], tenant[s]>>}
  /\ mailboxes' = mailboxes \cup {<<Prefix[wallet[s]], tenant[s]>>}
  /\ pc' = [pc EXCEPT ![s] = "answer"]
  /\ UNCHANGED <<store, challenge, owner, verifies, wallet, nonce, tenant, history>>

Leave(s) ==
  /\ pc' = [pc EXCEPT ![s] = "idle"]
  /\ wallet' = [wallet EXCEPT ![s] = None]
  /\ nonce' = [nonce EXCEPT ![s] = 0]
  /\ tenant' = [tenant EXCEPT ![s] = 0]

\* The token names the tenant, and the session is free again.
GiveToken(s) ==
  /\ pc[s] = "answer"
  /\ tokens' = tokens \cup {<<wallet[s], tenant[s]>>}
  /\ given' = [given EXCEPT ![nonce[s]] = @ + 1]
  /\ Leave(s)
  /\ UNCHANGED <<store, challenge, owner, tables, verifies>>

\* ROLLBACK: another transaction's row is in the way.
UniqueViolation(s) ==
  /\ \/ pc[s] = "wallet" /\ Known(wallet[s]) # {}
     \/ pc[s] = "mailboxes" /\ Taken(Prefix[wallet[s]])
  /\ Leave(s)
  /\ UNCHANGED <<store, challenge, owner, tables, verifies, history>>

\* The signature is bad, or a statement fails; the challenge stays as it is.
Fail(s) ==
  /\ pc[s] # "idle"
  /\ Leave(s)
  /\ UNCHANGED <<store, challenge, owner, tables, verifies, history>>

\* The API process starts anew: requests and challenges are gone, and all that
\* a MemoryStore has (the tokens that are still about name no tenant then).
Restart ==
  /\ IF store = "memory"
     THEN identities' = {} /\ mailboxes' = {} /\ tokens' = {}
     ELSE UNCHANGED <<identities, mailboxes, tokens>>
  /\ challenge' = [w \in Wallets |-> 0]
  /\ pc' = [s \in Sessions |-> "idle"]
  /\ wallet' = [s \in Sessions |-> None]
  /\ nonce' = [s \in Sessions |-> 0]
  /\ tenant' = [s \in Sessions |-> 0]
  /\ UNCHANGED <<store, owner, verifies, given>>

-----------------------------------------------------------------------------
\* The steps the process and the database take by themselves.
Advance(s) ==
  \/ ConsumeChallenge(s) \/ MemoryIdentity(s) \/ FindIdentity(s)
  \/ InsertIdentity(s) \/ InsertMailboxes(s) \/ CommitIdentity(s)
  \/ GiveToken(s) \/ UniqueViolation(s)

Next ==
  \/ \E w \in Wallets : CreateSiweChallenge(w) \/ ExpireChallenge(w)
  \/ \E s \in Sessions :
       \/ \E n \in Challenges : GetChallenge(s, n)
       \/ Advance(s) \/ Fail(s)
  \/ Restart

Spec == Init /\ [][Next]_vars
FairSpec == Spec /\ \A s \in Sessions : WF_vars(Advance(s))

-----------------------------------------------------------------------------
(* Properties.                                                             *)

\* A wallet has one tenant and a mailbox address one owner (over Postgres: a
\* MemoryStore has no unique index for them), however many sign-ins of new
\* wallets overlap; a tenant's mailboxes and its identity come together.
OneTenantEach ==
  /\ \A a, b \in identities : a[1] = b[1] \/ a[2] = b[2] => a = b
  /\ \A a, b \in mailboxes :
       (store = "postgres" /\ a[1] = b[1]) \/ a[2] = b[2] => a = b
  /\ mailboxes = {<<Prefix[a[1]], a[2]>> : a \in identities}

\* A token names a committed tenant, the only one its wallet has (a MemoryStore
\* forgets it with all others).
TokensAreTrue == tokens \subseteq identities

\* A challenge gives at most one token per session: only requests that had
\* read it by the time it was consumed.
ReplayBounded == \A n \in Challenges : given[n] <= Cardinality(Sessions)

\* The waits for rows never form a cycle: every sign-in ends.
EverySignInEnds == \A s \in Sessions : pc[s] # "idle" ~> pc[s] = "idle"

=============================================================================
