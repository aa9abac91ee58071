------------------------------ MODULE MCQuickAdd ------------------------------
\* A ledger that is empty, or holds a purchase of an import.
EXTENDS QuickAdd

MCNorm    == [d \in {"b"} |-> "b"]
MCKeyword == [d \in {"b"} |-> "none"]
MCLedgers == {{}, {[id |-> 1, date |-> 1, description |-> "b", category |-> "Other",
                    amount |-> -10, call |-> 0, confirmed |-> FALSE]}}
=============================================================================
