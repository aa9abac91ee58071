----------------------------- MODULE MCQueryCache -----------------------------
\* Two purchases of one category in two months, and a refund that may come; the
\* dashboard reads them two at a time.
EXTENDS QueryCache

Purchase(d, date, category) ==
    [date |-> date, description |-> d, amount |-> -10, category |-> category]

MCNorm    == [d \in {"a", "b"} |-> d]
MCKeyword == [d \in {"a", "b"} |-> "none"]
MCReads   == [k \in Keys |-> k]
MCMonth   == [k \in Keys |-> IF k = "full" THEN 0 ELSE Picked]
MCWatched == [p \in Pages |-> CASE p = "/" -> {"full"} [] p = "/transactions" -> {"list"}
                                [] p = "/insights" -> {"list", "budgets"}
                                [] OTHER -> {}]
MCLedger  == {Purchase("a", 1, "Food") @@ [id |-> 1], Purchase("b", 40, "Food") @@ [id |-> 2]}
MCNewRows == {[Purchase("a", 41, "Food") EXCEPT !.amount = 4]}
=============================================================================
