\* Two concurrent calls, a limit of one record per window, two prices and a
\* change of the month; three invoices are as many as three charges can need.
SPECIFICATION Spec
CONSTANTS
  Slots = {s1, s2}
  Limit <- LimitOne
  Prices = {1, 2}
  Invoices = {i1, i2, i3}
  MaxCalls = 3
  MaxMonth = 1
  None = None
SYMMETRY Symmetry
INVARIANTS TypeOK OvershootBounded InvoicesAddUp AnsweredIsMetered
