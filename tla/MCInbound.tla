----------------------------- MODULE MCInbound -----------------------------
(* Inbound for TLC: all mails are for one mailbox.                          *)
EXTENDS Inbound

OneMailbox == [m \in Mails |-> 1]

=============================================================================
