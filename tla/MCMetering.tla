----------------------------- MODULE MCMetering -----------------------------
(* Metering for TLC: slots and invoice ids are interchangeable.            *)
EXTENDS Metering, TLC

\* One record a window is the limit of both.
LimitOne == [w \in Windows |-> 1]

Symmetry == Permutations(Slots) \cup Permutations(Invoices)

=============================================================================
