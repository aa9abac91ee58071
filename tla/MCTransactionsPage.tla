-------------------------- MODULE MCTransactionsPage --------------------------
\* Three purchases in two months and two categories, two of one month.
EXTENDS TransactionsPage

Purchase(id, date, amount, category) ==
    [id |-> id, date |-> date, description |-> "a", amount |-> amount, category |-> category]

MCNorm    == [d \in {"a"} |-> d]
MCLedger  == {Purchase(1, 1, -20, "Food"), Purchase(2, 40, -30, "Other"), Purchase(3, 41, -10, "Food")}
MCThrough == {Ids, {2}}
=============================================================================
