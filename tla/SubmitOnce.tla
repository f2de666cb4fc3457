----------------------------- MODULE SubmitOnce -----------------------------
(***************************************************************************)
(* What a send attempt promises its tenant, whatever keeps it: the mail is *)
(* handed to the SMTP server at most once and while the attempt is queued, *)
(* only a mail handed over is ever called accepted, and the attempt says   *)
(* the same thing forever once its call is over.                           *)
(***************************************************************************)
EXTENDS Naturals

CONSTANT Ids  \* the calls

VARIABLES status,  \* what the attempt of a call says; "none" before it exists
          given,   \* times its mail was handed over
          over     \* calls that have ended

vars == <<status, given, over>>

Init ==
  /\ status = [i \in Ids |-> "none"]
  /\ given = [i \in Ids |-> 0]
  /\ over = {}

Create(i) ==
  /\ i \notin over /\ status[i] = "none"
  /\ status' = [status EXCEPT ![i] = "queued"]
  /\ UNCHANGED <<given, over>>

Give(i) ==
  /\ i \notin over /\ status[i] = "queued" /\ given[i] = 0
  /\ given' = [given EXCEPT ![i] = 1]
  /\ UNCHANGED <<status, over>>

Accept(i) ==
  /\ i \notin over /\ status[i] = "queued" /\ given[i] = 1
  /\ status' = [status EXCEPT ![i] = "accepted"]
  /\ UNCHANGED <<given, over>>

\* The verdict is the last act of its call; an error while an acceptance is
\* written down turns it into a failure.
Fail(i) ==
  /\ i \notin over /\ status[i] \in {"queued", "accepted"}
  /\ status' = [status EXCEPT ![i] = "failed"]
  /\ over' = over \cup {i}
  /\ UNCHANGED given

\* Calls end, one by one or, with their process, together.
End ==
  /\ \E ended \in SUBSET Ids : over' = over \cup ended
  /\ UNCHANGED <<status, given>>

Next == End \/ \E i \in Ids : Create(i) \/ Give(i) \/ Accept(i) \/ Fail(i)

Spec == Init /\ [][Next]_vars

=============================================================================
