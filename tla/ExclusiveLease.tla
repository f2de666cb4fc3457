--------------------------- MODULE ExclusiveLease ---------------------------
(***************************************************************************)
(* What the mailbox control plane promises about leases, without requests, *)
(* stores or a mail server: a lease is granted once, on a mailbox that     *)
(* nobody holds and no operator has frozen, and ends once.                 *)
(***************************************************************************)
CONSTANTS Mailboxes, Leases

VARIABLES live,    \* the pairs <<m, l>> of a mailbox and the lease that holds it
          ended,   \* leases that are over
          frozen   \* mailboxes an operator has taken out of use

vars == <<live, ended, frozen>>

TypeOK ==
  /\ live \subseteq Mailboxes \X Leases
  /\ ended \subseteq Leases
  /\ frozen \subseteq Mailboxes

Held(m) == {l \in Leases : <<m, l>> \in live}

Init == live = {} /\ ended = {} /\ frozen = {}

Grant(m, l) ==
  /\ m \notin frozen
  /\ Held(m) = {}
  /\ l \notin ended
  /\ \A n \in Mailboxes : l \notin Held(n)
  /\ live' = live \cup {<<m, l>>}
  /\ UNCHANGED <<ended, frozen>>

\* m's lease, if it has one, is over.
EndLeases(m) ==
  /\ live' = live \ ({m} \X Held(m))
  /\ ended' = ended \cup Held(m)

Release(m) == Held(m) # {} /\ EndLeases(m) /\ UNCHANGED frozen

Freeze(m) == EndLeases(m) /\ frozen' = frozen \cup {m}

Reopen(m) == EndLeases(m) /\ frozen' = frozen \ {m}

Next ==
  \E m \in Mailboxes :
    \/ \E l \in Leases : Grant(m, l)
    \/ Release(m)
    \/ Freeze(m)
    \/ Reopen(m)

Spec == Init /\ [][Next]_vars

\* Nobody shares a mailbox: the promise the grants and releases add up to.
Exclusive ==
  \A m \in Mailboxes : \A k, l \in Held(m) : k = l

=============================================================================
