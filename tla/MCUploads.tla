------------------------------ MODULE MCUploads ------------------------------
\* A small statement, a large one that shares a purchase with it, one receipt
\* file and one file of another kind.
EXTENDS Uploads

Purchase(d, date) == [date |-> date, description |-> d, amount |-> -10]

MCNorm    == [d \in {"a", "b"} |-> d]
MCKeyword == [d \in {"a", "b"} |-> IF d = "a" THEN "Food" ELSE "none"]
MCKind    == [f \in Files |-> CASE f = "small" -> "csv" [] f = "large" -> "excel"
                                [] f = "empty" -> "csv" [] OTHER -> "other"]
MCContent == [f \in Files |->
                CASE f = "small" -> <<Purchase("a", 1)>>
                  [] f = "large" -> <<Purchase("a", 1), Purchase("b", 1)>>
                  [] OTHER -> <<>>]
=============================================================================
