--------------------------- MODULE MCMessageJobs ---------------------------
(* MessageJobs for TLC.                                                     *)
EXTENDS MessageJobs

\* The webhooks take both event types.
WantAll == [h \in Hooks |-> EventTypes]

=============================================================================
