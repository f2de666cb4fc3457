------------------------------ MODULE MCSignIn ------------------------------
(* SignIn for TLC: two wallets share a mailbox prefix, the third does not. *)
EXTENDS SignIn, TLC

CONSTANTS w1, w2, w3, p, q

Colliding == (w1 :> p) @@ (w2 :> p) @@ (w3 :> q)

=============================================================================
