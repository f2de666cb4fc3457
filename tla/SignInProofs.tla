---------------------------- MODULE SignInProofs ----------------------------
(***************************************************************************)
(* Proofs about SignIn, for any wallets, prefixes, sessions and bounds: a  *)
(* wallet has one tenant and an address one owner (WalletsHaveOneTenant),  *)
(* tokens name committed tenants (TokensNameTenants), and a challenge      *)
(* gives at most one token per session (ReplaysAreBounded).                *)
(***************************************************************************)
EXTENDS SignIn, FiniteSetTheorems, TLAPS

Making == {"signature", "find", "wallet", "mailboxes", "commit"}

\* A busy session is about one of its wallet's challenges.
SessionsFit ==
  \A s \in Sessions :
    /\ pc[s] = "idle" => nonce[s] = 0
    /\ pc[s] # "idle" =>
         /\ wallet[s] \in Wallets /\ nonce[s] \in Challenges
         /\ tenant[s] \in 1 .. verifies
         /\ owner[nonce[s]] = wallet[s]
    /\ store = "memory" => pc[s] \notin {"wallet", "mailboxes", "commit"}

\* The id of a tenant that may still be made is used by nobody else.
FreshTenants ==
  /\ \A a \in identities : a[2] \in 1 .. verifies
  /\ \A s \in Sessions : pc[s] \in Making =>
       /\ \A a \in identities : a[2] # tenant[s]
       /\ \A r \in Sessions :
            pc[r] \in Making /\ tenant[r] = tenant[s] => r = s

\* What a transaction has inserted is nobody else's, committed or not.
LocksHold ==
  \A s \in Sessions :
    /\ pc[s] \in {"mailboxes", "commit"} =>
         /\ \A a \in identities : a[1] # wallet[s]
         /\ \A r \in Sessions : HoldsWallet(r, wallet[s]) => r = s
    /\ pc[s] = "commit" =>
         /\ \A b \in mailboxes : b[1] # Prefix[wallet[s]]
         /\ \A r \in Sessions : HoldsPrefix(r, Prefix[wallet[s]]) => r = s
    /\ pc[s] = "answer" => <<wallet[s], tenant[s]>> \in identities

RowsInv ==
  TypeOK /\ SessionsFit /\ FreshTenants /\ LocksHold /\ OneTenantEach /\ TokensAreTrue

LEMMA RowsInvInit == Init => RowsInv
BY BoundsAssumption
DEF Init, RowsInv, TypeOK, SessionsFit, FreshTenants, LocksHold, OneTenantEach,
    TokensAreTrue, Challenges, Tenants, Prefixes, Making

-----------------------------------------------------------------------------
(* Each part of RowsInv, step by step.                                     *)

LEMMA TypeStep == RowsInv /\ [Next]_vars => TypeOK'
<1> SUFFICES ASSUME RowsInv, [Next]_vars PROVE TypeOK'
  OBVIOUS
<1> USE BoundsAssumption DEF RowsInv, TypeOK
<1>1. ASSUME NEW w \in Wallets, CreateSiweChallenge(w) \/ ExpireChallenge(w)
      PROVE  TypeOK'
  <2>1. CASE CreateSiweChallenge(w)
    <3>1. PICK n \in Challenges : /\ owner' = [owner EXCEPT ![n] = w]
                                 /\ challenge' = [challenge EXCEPT ![w] = n]
      BY <2>1 DEF CreateSiweChallenge
    <3>2. n \in 0 .. MaxChallenges
      BY DEF Challenges
    <3>. QED
      BY <2>1, <3>1, <3>2 DEF CreateSiweChallenge, tables, session, history
  <2>2. CASE ExpireChallenge(w)
    BY <2>2 DEF ExpireChallenge, tables, session, history
  <2>. QED
    BY <1>1, <2>1, <2>2
<1>2. ASSUME NEW s \in Sessions, NEW n \in Challenges, GetChallenge(s, n)
      PROVE  TypeOK'
  BY <1>2 DEF GetChallenge, tables, history, Challenges, Tenants
<1>3. ASSUME NEW s \in Sessions,
             ConsumeChallenge(s) \/ FindIdentity(s) \/ InsertIdentity(s) \/ InsertMailboxes(s)
      PROVE  TypeOK'
  <2>1. CASE ConsumeChallenge(s)
    <3>a. 0 \in 0 .. MaxChallenges /\ challenge' = [challenge EXCEPT ![wallet[s]] = 0]
      BY <2>1 DEF ConsumeChallenge
    <3>1. challenge' \in [Wallets -> 0 .. MaxChallenges]
      BY <3>a
    <3>. QED
      BY <2>1, <3>1 DEF ConsumeChallenge, tables, history
  <2>2. CASE FindIdentity(s)
    <3>a. \/ tenant' = tenant
          \/ \E t \in Tenants : tenant' = [tenant EXCEPT ![s] = t]
      BY <2>2 DEF FindIdentity, Known
    <3>b. \A t \in Tenants : t \in 0 .. MaxVerifies
      BY DEF Tenants
    <3>1. tenant' \in [Sessions -> 0 .. MaxVerifies]
      BY <3>a, <3>b
    <3>2. pc' = [pc EXCEPT ![s] = "wallet"] \/ pc' = [pc EXCEPT ![s] = "answer"]
      BY <2>2 DEF FindIdentity
    <3>. QED
      BY <2>2, <3>1, <3>2 DEF FindIdentity, tables, history
  <2>3. CASE InsertIdentity(s) \/ InsertMailboxes(s)
    BY <2>3 DEF InsertIdentity, InsertMailboxes, tables, history
  <2>. QED
    BY <1>3, <2>1, <2>2, <2>3
<1>4. ASSUME NEW s \in Sessions, CommitIdentity(s)
      PROVE  TypeOK'
  BY <1>4 DEF CommitIdentity, history, Tenants, SessionsFit, Prefixes
<1>9. ASSUME NEW s \in Sessions, MemoryIdentity(s)
      PROVE  TypeOK'
  <2>1. CASE Known(wallet[s]) = {}
    BY <1>9, <2>1 DEF MemoryIdentity, history, Tenants, SessionsFit, Prefixes
  <2>2. CASE Known(wallet[s]) # {}
    <3>1. PICK t \in Tenants : tenant' = [tenant EXCEPT ![s] = t]
      BY <1>9, <2>2 DEF MemoryIdentity, Known
    <3>2. tenant' \in [Sessions -> 0 .. MaxVerifies]
      BY <3>1 DEF Tenants
    <3>. QED
      BY <1>9, <2>2, <3>2 DEF MemoryIdentity, tables, history
  <2>. QED
    BY <2>1, <2>2
<1>5. ASSUME NEW s \in Sessions, GiveToken(s)
      PROVE  TypeOK'
  BY <1>5 DEF GiveToken, Leave, tables, Tenants, SessionsFit
<1>6. ASSUME NEW s \in Sessions, UniqueViolation(s) \/ Fail(s)
      PROVE  TypeOK'
  BY <1>6 DEF UniqueViolation, Fail, Leave, tables, history
<1>7. CASE Restart
  BY <1>7 DEF Restart, tables, history
<1>8. CASE UNCHANGED vars
  BY <1>8 DEF vars, tables, session, history
<1>. QED
  BY <1>1, <1>2, <1>3, <1>4, <1>5, <1>6, <1>7, <1>8, <1>9 DEF Next, Advance

LEMMA SessionsStep == RowsInv /\ [Next]_vars => SessionsFit'
<1> SUFFICES ASSUME RowsInv, [Next]_vars PROVE SessionsFit'
  OBVIOUS
<1> USE BoundsAssumption, NoneAssumption DEF RowsInv, TypeOK, SessionsFit, Challenges
<1>1. ASSUME NEW w \in Wallets, CreateSiweChallenge(w) \/ ExpireChallenge(w)
      PROVE  SessionsFit'
  BY <1>1 DEF CreateSiweChallenge, ExpireChallenge, tables, session, history
<1>2. ASSUME NEW s \in Sessions, NEW n \in Challenges, GetChallenge(s, n)
      PROVE  SessionsFit'
  BY <1>2 DEF GetChallenge
<1>3. ASSUME NEW s \in Sessions,
             ConsumeChallenge(s) \/ InsertIdentity(s) \/ InsertMailboxes(s) \/ CommitIdentity(s)
      PROVE  SessionsFit'
  BY <1>3 DEF ConsumeChallenge, InsertIdentity, InsertMailboxes, CommitIdentity
<1>4. ASSUME NEW s \in Sessions, FindIdentity(s)
      PROVE  SessionsFit'
  <2>1. \A t \in Known(wallet[s]) : t \in 1 .. verifies
    BY DEF Known, FreshTenants
  <2>. QED
    BY <1>4, <2>1 DEF FindIdentity
<1>8. ASSUME NEW s \in Sessions, MemoryIdentity(s)
      PROVE  SessionsFit'
  <2>1. \A t \in Known(wallet[s]) : t \in 1 .. verifies
    BY DEF Known, FreshTenants
  <2>. QED
    BY <1>8, <2>1 DEF MemoryIdentity
<1>5. ASSUME NEW s \in Sessions, GiveToken(s) \/ UniqueViolation(s) \/ Fail(s)
      PROVE  SessionsFit'
  BY <1>5 DEF GiveToken, UniqueViolation, Fail, Leave
<1>6. CASE Restart
  BY <1>6 DEF Restart
<1>7. CASE UNCHANGED vars
  BY <1>7 DEF vars, session
<1>. QED
  BY <1>1, <1>2, <1>3, <1>4, <1>5, <1>6, <1>7, <1>8 DEF Next, Advance

LEMMA FreshStep == RowsInv /\ [Next]_vars => FreshTenants'
<1> SUFFICES ASSUME RowsInv, [Next]_vars PROVE FreshTenants'
  OBVIOUS
<1> USE DEF RowsInv, TypeOK, SessionsFit, FreshTenants, Making
<1>1. ASSUME NEW w \in Wallets, CreateSiweChallenge(w) \/ ExpireChallenge(w)
      PROVE  FreshTenants'
  BY <1>1 DEF CreateSiweChallenge, ExpireChallenge, tables, session
<1>2. ASSUME NEW s \in Sessions, NEW n \in Challenges, GetChallenge(s, n)
      PROVE  FreshTenants'
  BY <1>2 DEF GetChallenge, tables
<1>3. ASSUME NEW s \in Sessions,
             ConsumeChallenge(s) \/ FindIdentity(s) \/ InsertIdentity(s) \/ InsertMailboxes(s)
      PROVE  FreshTenants'
  BY <1>3 DEF ConsumeChallenge, FindIdentity, InsertIdentity, InsertMailboxes, tables
<1>4. ASSUME NEW s \in Sessions, CommitIdentity(s)
      PROVE  FreshTenants'
  <2>1. \A a \in identities' : a \in identities \/ a[2] = tenant[s]
    BY <1>4 DEF CommitIdentity
  <2>. QED
    BY <1>4, <2>1 DEF CommitIdentity
<1>8. ASSUME NEW s \in Sessions, MemoryIdentity(s)
      PROVE  FreshTenants'
  <2>1. \A a \in identities' : a \in identities \/ a[2] = tenant[s]
    BY <1>8 DEF MemoryIdentity, tables
  <2>2. \A r \in Sessions : pc'[r] \in Making =>
          pc[r] \in Making /\ r # s /\ tenant'[r] = tenant[r]
    BY <1>8 DEF MemoryIdentity
  <2>3. pc[s] \in Making /\ verifies' = verifies
    BY <1>8 DEF MemoryIdentity
  <2>. QED
    BY <2>1, <2>2, <2>3
<1>5. ASSUME NEW s \in Sessions, GiveToken(s) \/ UniqueViolation(s) \/ Fail(s)
      PROVE  FreshTenants'
  BY <1>5 DEF GiveToken, UniqueViolation, Fail, Leave, tables
<1>6. CASE Restart
  BY <1>6 DEF Restart, tables
<1>7. CASE UNCHANGED vars
  BY <1>7 DEF vars, tables, session
<1>. QED
  BY <1>1, <1>2, <1>3, <1>4, <1>5, <1>6, <1>7, <1>8 DEF Next, Advance

LEMMA LocksStep == RowsInv /\ [Next]_vars => LocksHold'
<1> SUFFICES ASSUME RowsInv, [Next]_vars PROVE LocksHold'
  OBVIOUS
<1> USE DEF RowsInv, TypeOK, LocksHold, HoldsWallet, HoldsPrefix
<1>1. ASSUME NEW w \in Wallets, CreateSiweChallenge(w) \/ ExpireChallenge(w)
      PROVE  LocksHold'
  BY <1>1 DEF CreateSiweChallenge, ExpireChallenge, tables, session
<1>2. ASSUME NEW s \in Sessions, NEW n \in Challenges, GetChallenge(s, n)
      PROVE  LocksHold'
  BY <1>2 DEF GetChallenge, tables
<1>3. ASSUME NEW s \in Sessions, ConsumeChallenge(s)
      PROVE  LocksHold'
  BY <1>3 DEF ConsumeChallenge, tables
<1>4. ASSUME NEW s \in Sessions, FindIdentity(s)
      PROVE  LocksHold'
  <2>1. CASE Known(wallet[s]) = {}
    BY <1>4, <2>1 DEF FindIdentity, tables
  <2>2. CASE Known(wallet[s]) # {}
    <3>1. PICK t \in Known(wallet[s]) : tenant' = [tenant EXCEPT ![s] = t]
      BY <1>4, <2>2 DEF FindIdentity
    <3>2. <<wallet[s], t>> \in identities
      BY DEF Known
    <3>. QED
      BY <1>4, <2>2, <3>1, <3>2 DEF FindIdentity, tables
  <2>. QED
    BY <2>1, <2>2
<1>5. ASSUME NEW s \in Sessions, InsertIdentity(s)
      PROVE  LocksHold'
  <2>1. \A a \in identities : a[1] # wallet[s]
    BY <1>5 DEF InsertIdentity, Known
  <2>. QED
    BY <1>5, <2>1 DEF InsertIdentity, tables
<1>6. ASSUME NEW s \in Sessions, InsertMailboxes(s)
      PROVE  LocksHold'
  <2>1. \A b \in mailboxes : b[1] # Prefix[wallet[s]]
    BY <1>6 DEF InsertMailboxes, Taken
  <2>. QED
    BY <1>6, <2>1 DEF InsertMailboxes, tables
<1>7. ASSUME NEW s \in Sessions, CommitIdentity(s)
      PROVE  LocksHold'
  <2>1. /\ \A a \in identities' : a \in identities \/ a[1] = wallet[s]
        /\ \A b \in mailboxes' : b \in mailboxes \/ b[1] = Prefix[wallet[s]]
        /\ <<wallet[s], tenant[s]>> \in identities' /\ identities \subseteq identities'
    BY <1>7 DEF CommitIdentity
  <2>. QED
    BY <1>7, <2>1 DEF CommitIdentity
<1>11. ASSUME NEW s \in Sessions, MemoryIdentity(s)
       PROVE  LocksHold'
  <2>1. /\ \A r \in Sessions : pc[r] \notin {"mailboxes", "commit"}
        /\ \A r \in Sessions : pc'[r] \notin {"mailboxes", "commit"}
    BY <1>11 DEF MemoryIdentity, SessionsFit
  <2>2. identities \subseteq identities'
    BY <1>11 DEF MemoryIdentity, tables
  <2>3. <<wallet'[s], tenant'[s]>> \in identities'
    BY <1>11 DEF MemoryIdentity, Known, tables
  <2>4. \A r \in Sessions \ {s} : pc'[r] = pc[r] /\ wallet'[r] = wallet[r]
                                 /\ tenant'[r] = tenant[r]
    BY <1>11 DEF MemoryIdentity
  <2>. QED
    BY <2>1, <2>2, <2>3, <2>4
<1>8. ASSUME NEW s \in Sessions, GiveToken(s) \/ UniqueViolation(s) \/ Fail(s)
      PROVE  LocksHold'
  BY <1>8 DEF GiveToken, UniqueViolation, Fail, Leave, tables
<1>9. CASE Restart
  BY <1>9 DEF Restart, tables
<1>10. CASE UNCHANGED vars
  BY <1>10 DEF vars, tables, session
<1>. QED
  BY <1>1, <1>2, <1>3, <1>4, <1>5, <1>6, <1>7, <1>8, <1>9, <1>10, <1>11 DEF Next, Advance

\* A row of a wallet without a tenant, under an id nobody has, leaves each with
\* one tenant; over Postgres the addresses were nobody's either.
LEMMA NewTenant ==
  ASSUME RowsInv, NEW w, NEW t,
         \A a \in identities : a[1] # w /\ a[2] # t,
         store = "postgres" => \A b \in mailboxes : b[1] # Prefix[w],
         identities' = identities \cup {<<w, t>>},
         mailboxes' = mailboxes \cup {<<Prefix[w], t>>},
         store' = store, tokens' = tokens
  PROVE  OneTenantEach' /\ TokensAreTrue'
<1> DEFINE id == <<w, t>>
           box == <<Prefix[w], t>>
<1>1. \A a \in identities : a[1] # id[1] /\ a[2] # id[2]
  OBVIOUS
<1>2. \A b \in mailboxes : \E a \in identities : b = <<Prefix[a[1]], a[2]>>
  BY DEF RowsInv, OneTenantEach
<1>3. \A b \in mailboxes : b[2] # box[2]
  BY <1>1, <1>2
<1>4. mailboxes' = {<<Prefix[a[1]], a[2]>> : a \in identities'}
  <2>1. {<<Prefix[a[1]], a[2]>> : a \in identities'}
          = {<<Prefix[a[1]], a[2]>> : a \in identities} \cup {<<Prefix[id[1]], id[2]>>}
    OBVIOUS
  <2>2. <<Prefix[id[1]], id[2]>> = box
    OBVIOUS
  <2>. QED
    BY <2>1, <2>2 DEF RowsInv, OneTenantEach
<1>5. /\ identities' = identities \cup {id} /\ mailboxes' = mailboxes \cup {box}
      /\ store = "postgres" => \A b \in mailboxes : b[1] # box[1]
  OBVIOUS
<1> HIDE DEF id, box
<1>6. /\ \A a, b \in identities' : a[1] = b[1] \/ a[2] = b[2] => a = b
      /\ \A a, b \in mailboxes' :
           (store' = "postgres" /\ a[1] = b[1]) \/ a[2] = b[2] => a = b
  BY <1>1, <1>3, <1>5 DEF RowsInv, OneTenantEach
<1>. QED
  BY <1>4, <1>5, <1>6 DEF RowsInv, OneTenantEach, TokensAreTrue

\* Only a new tenant or a restart writes the tables, and only an answered
\* request gets a token.
LEMMA TablesStep == RowsInv /\ [Next]_vars => OneTenantEach' /\ TokensAreTrue'
<1> SUFFICES ASSUME RowsInv, [Next]_vars PROVE OneTenantEach' /\ TokensAreTrue'
  OBVIOUS
<1>1. ASSUME NEW s \in Sessions, CommitIdentity(s)
      PROVE  OneTenantEach' /\ TokensAreTrue'
  <2>1. /\ \A a \in identities : a[1] # wallet[s] /\ a[2] # tenant[s]
        /\ \A b \in mailboxes : b[1] # Prefix[wallet[s]]
    BY <1>1 DEF CommitIdentity, RowsInv, LocksHold, FreshTenants, Making
  <2>. QED
    BY <1>1, <2>1, NewTenant DEF CommitIdentity, history
<1>2. ASSUME NEW s \in Sessions, MemoryIdentity(s)
      PROVE  OneTenantEach' /\ TokensAreTrue'
  <2>1. CASE Known(wallet[s]) = {}
    <3>1. \A a \in identities : a[1] # wallet[s] /\ a[2] # tenant[s]
      <4>1. \A a \in identities : a[2] # tenant[s]
        BY <1>2 DEF MemoryIdentity, RowsInv, FreshTenants, Making
      <4>2. \A a \in identities : a = <<a[1], a[2]>> /\ a[2] \in Tenants
        BY DEF RowsInv, TypeOK
      <4>. QED
        BY <2>1, <4>1, <4>2 DEF Known
    <3>. QED
      BY <1>2, <2>1, <3>1, NewTenant DEF MemoryIdentity, history
  <2>2. CASE Known(wallet[s]) # {}
    BY <1>2, <2>2 DEF MemoryIdentity, tables, history, RowsInv, OneTenantEach,
                      TokensAreTrue
  <2>. QED
    BY <2>1, <2>2
<1>3. ASSUME NEW s \in Sessions, GiveToken(s)
      PROVE  OneTenantEach' /\ TokensAreTrue'
  <2>1. /\ identities' = identities /\ mailboxes' = mailboxes /\ store' = store
        /\ tokens' = tokens \cup {<<wallet[s], tenant[s]>>}
        /\ <<wallet[s], tenant[s]>> \in identities
    BY <1>3 DEF GiveToken, tables, RowsInv, LocksHold
  <2>. QED
    BY <2>1 DEF RowsInv, OneTenantEach, TokensAreTrue
<1>4. CASE Restart
  BY <1>4 DEF Restart, RowsInv, OneTenantEach, TokensAreTrue
<1>5. ASSUME identities' = identities, mailboxes' = mailboxes, tokens' = tokens,
             store' = store
      PROVE  OneTenantEach' /\ TokensAreTrue'
  BY <1>5 DEF RowsInv, OneTenantEach, TokensAreTrue
<1>6. \/ \E s \in Sessions : CommitIdentity(s) \/ MemoryIdentity(s) \/ GiveToken(s)
      \/ Restart
      \/ identities' = identities /\ mailboxes' = mailboxes /\ tokens' = tokens
         /\ store' = store
  BY DEF Next, Advance, CreateSiweChallenge, ExpireChallenge, GetChallenge,
         ConsumeChallenge, FindIdentity, InsertIdentity, InsertMailboxes,
         UniqueViolation, Fail, vars, tables, history
<1>. QED
  BY <1>1, <1>2, <1>3, <1>4, <1>5, <1>6

LEMMA RowsInvStep == RowsInv /\ [Next]_vars => RowsInv'
BY TypeStep, SessionsStep, FreshStep, LocksStep, TablesStep DEF RowsInv

-----------------------------------------------------------------------------
(* Tokens by challenge.                                                    *)

Using(n) == {s \in Sessions : nonce[s] = n}

\* A challenge that is kept has given no token, and its requests have not
\* consumed it; with the requests that still can, its tokens fit.
ChallengesFit ==
  /\ \A w \in Wallets : challenge[w] # 0 => owner[challenge[w]] = w
  /\ \A n \in Challenges :
       /\ owner[n] = None \/ challenge[owner[n]] = n =>
            /\ given[n] = 0
            /\ \A s \in Sessions : nonce[s] = n => pc[s] = "signature"
       /\ owner[n] = None => Using(n) = {}

TokensFit ==
  \A n \in Challenges : given[n] + Cardinality(Using(n)) <= Cardinality(Sessions)

LEMMA UsingShrinks ==
  ASSUME NEW A \in SUBSET Sessions, NEW B \in SUBSET A
  PROVE  /\ IsFiniteSet(A) /\ Cardinality(B) \in Nat /\ Cardinality(A) \in Nat
         /\ Cardinality(B) <= Cardinality(A)
<1>1. IsFiniteSet(A)
  BY SessionsAssumption, FS_Subset
<1>. QED
  BY <1>1, FS_Subset, FS_CardinalityType

LEMMA ChallengesStep == RowsInv /\ ChallengesFit /\ [Next]_vars => ChallengesFit'
<1> SUFFICES ASSUME RowsInv, ChallengesFit, [Next]_vars PROVE ChallengesFit'
  OBVIOUS
<1> USE NoneAssumption, BoundsAssumption
    DEF RowsInv, TypeOK, SessionsFit, ChallengesFit, Using, Challenges
<1>1. ASSUME NEW w \in Wallets, CreateSiweChallenge(w)
      PROVE  ChallengesFit'
  BY <1>1 DEF CreateSiweChallenge, tables, session, history
<1>2. ASSUME NEW w \in Wallets, ExpireChallenge(w)
      PROVE  ChallengesFit'
  BY <1>2 DEF ExpireChallenge, tables, session, history
<1>3. ASSUME NEW s \in Sessions, NEW n \in Challenges, GetChallenge(s, n)
      PROVE  ChallengesFit'
  BY <1>3 DEF GetChallenge, tables, history
<1>4. ASSUME NEW s \in Sessions, ConsumeChallenge(s)
      PROVE  ChallengesFit'
  BY <1>4 DEF ConsumeChallenge, tables, history
<1>5. ASSUME NEW s \in Sessions,
             FindIdentity(s) \/ InsertIdentity(s) \/ InsertMailboxes(s)
               \/ CommitIdentity(s) \/ MemoryIdentity(s)
      PROVE  ChallengesFit'
  BY <1>5 DEF FindIdentity, InsertIdentity, InsertMailboxes, CommitIdentity,
              MemoryIdentity, tables, history
<1>6. ASSUME NEW s \in Sessions, GiveToken(s)
      PROVE  ChallengesFit'
  BY <1>6 DEF GiveToken, Leave, tables
<1>7. ASSUME NEW s \in Sessions, UniqueViolation(s) \/ Fail(s)
      PROVE  ChallengesFit'
  <2>1. /\ challenge' = challenge /\ owner' = owner /\ given' = given
        /\ pc' = [pc EXCEPT ![s] = "idle"] /\ nonce' = [nonce EXCEPT ![s] = 0]
    BY <1>7 DEF UniqueViolation, Fail, Leave, history
  <2>. QED
    BY <2>1
<1>8. CASE Restart
  BY <1>8 DEF Restart, tables, history
<1>9. CASE UNCHANGED vars
  BY <1>9 DEF vars, tables, session, history
<1>. QED
  BY <1>1, <1>2, <1>3, <1>4, <1>5, <1>6, <1>7, <1>8, <1>9 DEF Next, Advance

LEMMA TokensStep == RowsInv /\ ChallengesFit /\ TokensFit /\ [Next]_vars => TokensFit'
<1> SUFFICES ASSUME RowsInv, ChallengesFit, TokensFit, [Next]_vars, NEW n \in Challenges
             PROVE  given'[n] + Cardinality(Using(n)') <= Cardinality(Sessions)
  BY DEF TokensFit
<1>a. /\ Using(n) \in SUBSET Sessions /\ Using(n)' \in SUBSET Sessions
      /\ Cardinality(Using(n)) \in Nat /\ Cardinality(Using(n)') \in Nat
      /\ Cardinality(Sessions) \in Nat /\ given[n] \in Nat
      /\ Cardinality(Using(n)') <= Cardinality(Sessions)
      /\ given[n] + Cardinality(Using(n)) <= Cardinality(Sessions)
  <2>1. Using(n) \in SUBSET Sessions /\ Using(n)' \in SUBSET Sessions
    BY DEF Using
  <2>. QED
    BY <2>1, UsingShrinks, SessionsAssumption, FS_CardinalityType
    DEF RowsInv, TypeOK, TokensFit
<1>1. CASE given' = given /\ Using(n)' \subseteq Using(n)
  <2>1. Cardinality(Using(n)') <= Cardinality(Using(n))
    BY <1>a, <1>1, UsingShrinks
  <2>. QED
    BY <1>a, <1>1, <2>1
<1>2. ASSUME NEW s \in Sessions, NEW k \in Challenges, GetChallenge(s, k)
      PROVE  given'[n] + Cardinality(Using(n)') <= Cardinality(Sessions)
  <2>1. given' = given
    BY <1>2 DEF GetChallenge, history
  <2>2. CASE k = n
    <3>1. given[n] = 0
      BY <1>2, <2>2 DEF GetChallenge, ChallengesFit
    <3>. QED
      BY <1>a, <2>1, <3>1
  <2>3. CASE k # n
    <3>1. Using(n)' \subseteq Using(n)
      BY <1>2, <2>3 DEF GetChallenge, Using, RowsInv, TypeOK
    <3>. QED
      BY <1>1, <2>1, <3>1
  <2>. QED
    BY <2>2, <2>3
<1>3. ASSUME NEW s \in Sessions, GiveToken(s)
      PROVE  given'[n] + Cardinality(Using(n)') <= Cardinality(Sessions)
  <2>1. CASE nonce[s] = n
    <3>1. given'[n] = given[n] + 1
      BY <1>3, <2>1 DEF GiveToken, RowsInv, TypeOK
    <3>2. s \in Using(n) /\ Using(n)' = Using(n) \ {s}
      BY <1>3, <2>1 DEF GiveToken, Leave, Using, RowsInv, TypeOK, Challenges
    <3>3. Cardinality(Using(n)') = Cardinality(Using(n)) - 1
      BY <1>a, <3>2, UsingShrinks, FS_RemoveElement
    <3>. QED
      BY <1>a, <3>1, <3>3
  <2>2. CASE nonce[s] # n
    <3>1. given'[n] = given[n] /\ Using(n)' \subseteq Using(n)
      BY <1>3, <2>2 DEF GiveToken, Leave, Using, RowsInv, TypeOK, Challenges
    <3>2. Cardinality(Using(n)') <= Cardinality(Using(n))
      BY <1>a, <3>1, UsingShrinks
    <3>. QED
      BY <1>a, <3>1, <3>2
  <2>. QED
    BY <2>1, <2>2
<1>4. ASSUME NEW s \in Sessions, UniqueViolation(s) \/ Fail(s)
      PROVE  given' = given /\ Using(n)' \subseteq Using(n)
  BY <1>4 DEF UniqueViolation, Fail, Leave, Using, RowsInv, TypeOK, Challenges, history
<1>5. CASE Restart
  <2>1. given' = given /\ Using(n)' \subseteq Using(n)
    BY <1>5 DEF Restart, Using, Challenges, history
  <2>. QED
    BY <1>1, <2>1
<1>6. ASSUME given' = given, nonce' = nonce
      PROVE  Using(n)' \subseteq Using(n)
  BY <1>6 DEF Using
<1>7. \/ \E s \in Sessions :
           \/ \E k \in Challenges : GetChallenge(s, k)
           \/ GiveToken(s) \/ UniqueViolation(s) \/ Fail(s)
      \/ Restart
      \/ given' = given /\ nonce' = nonce
  BY DEF Next, Advance, CreateSiweChallenge, ExpireChallenge, ConsumeChallenge,
         FindIdentity, InsertIdentity, InsertMailboxes, CommitIdentity,
         MemoryIdentity, vars, session, history
<1>. QED
  BY <1>1, <1>2, <1>3, <1>4, <1>5, <1>6, <1>7

-----------------------------------------------------------------------------
\* Types of the sign-in state.
THEOREM SignInTypes == Spec => []TypeOK
<1>1. RowsInv => TypeOK
  BY DEF RowsInv
<1>. QED
  BY <1>1, RowsInvInit, RowsInvStep, PTL DEF Spec

\* However many sign-ins of new wallets overlap or fail, a wallet has one
\* tenant, an address one owner, and a tenant's rows come together.
THEOREM WalletsHaveOneTenant == Spec => []OneTenantEach
<1>1. RowsInv => OneTenantEach
  BY DEF RowsInv
<1>. QED
  BY <1>1, RowsInvInit, RowsInvStep, PTL DEF Spec

\* A token names the committed tenant of its wallet.
THEOREM TokensNameTenants == Spec => []TokensAreTrue
<1>1. RowsInv => TokensAreTrue
  BY DEF RowsInv
<1>. QED
  BY <1>1, RowsInvInit, RowsInvStep, PTL DEF Spec

\* A challenge gives at most as many tokens as there are sessions.
THEOREM ReplaysAreBounded == Spec => []ReplayBounded
<1>1. Init => ChallengesFit /\ TokensFit
  <2>1. Init => ChallengesFit
    BY NoneAssumption DEF Init, ChallengesFit, Using, Challenges
  <2>2. ASSUME Init, NEW n \in Challenges
        PROVE  given[n] + Cardinality(Using(n)) <= Cardinality(Sessions)
    <3>1. given[n] = 0 /\ Using(n) = {}
      BY <2>2 DEF Init, Using, Challenges
    <3>. QED
      BY <3>1, SessionsAssumption, FS_EmptySet, FS_CardinalityType
  <2>. QED
    BY <2>1, <2>2 DEF TokensFit
<1>2. RowsInv /\ TokensFit => ReplayBounded
  <2>1. ASSUME RowsInv, TokensFit, NEW n \in Challenges
        PROVE  given[n] <= Cardinality(Sessions)
    <3>1. Using(n) \in SUBSET Sessions
      BY DEF Using
    <3>2. Cardinality(Using(n)) \in Nat /\ Cardinality(Sessions) \in Nat
      BY <3>1, UsingShrinks, SessionsAssumption, FS_CardinalityType
    <3>. QED
      BY <2>1, <3>2 DEF TokensFit, RowsInv, TypeOK
  <2>. QED
    BY <2>1 DEF ReplayBounded
<1>. QED
  BY <1>1, <1>2, RowsInvInit, RowsInvStep, ChallengesStep, TokensStep, PTL DEF Spec

=============================================================================
