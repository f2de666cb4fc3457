---------------------------- MODULE MCReconcile ----------------------------
(* Reconcile for TLC: mailboxes are numbered in the order of their          *)
(* addresses, and the requests are about those whose Mailu calls succeed.   *)
EXTENDS Reconcile

InOrder == [m \in Mailboxes |-> m]

BrokenRest == \A m \in Broken : status'[m] = status[m] /\ account'[m] = account[m]

MCRecSpec == RecInit /\ [][RecNext /\ BrokenRest]_allVars /\ RecFairness

=============================================================================
