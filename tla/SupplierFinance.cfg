SPECIFICATION Spec
CONSTANTS
    Withdrawals = {w1, w2, w3}
    Invoices = {i1, i2}
    Negligible = {1}
    Amounts = {1, 2}
    MaxEarned = 4
    Requests = {q1}
SYMMETRY Symmetry
INVARIANT NeverOverdrawn
INVARIANT LedgerTellsDocuments
