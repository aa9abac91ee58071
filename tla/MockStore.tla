------------------------------ MODULE MockStore ------------------------------
\* The ledger as the web client sees it: what each call of the client's api
\* object reads and writes, translated from the in-browser store that
\* "mirrors the FastAPI contract" (frontend/src/mock/data.ts).  Rows are a set;
\* ids grow (nextId), so the order of insertion is that of the ids.  Amounts are
\* counted in tenths, dates in days from the first of a first month.
EXTENDS Integers, FiniteSets, FiniteSetsExt, Sequences, SequencesExt

CONSTANTS
    Categories,    \* the categories a row may have
    Norm,          \* normalised description: function on the descriptions
    Keyword,       \* the category whose keyword a description has, or "none"
    DaysPerMonth

MonthOf(date) == (date - 1) \div DaysPerMonth + 1

InMonth(rows, month) == {r \in rows : MonthOf(r.date) = month}

\* month = 0 is the call without a month.
Scoped(rows, month) == IF month = 0 THEN rows ELSE InMonth(rows, month)

\* GET /transactions: newest date first, then the newest id.
Before(r, s) == r.date > s.date \/ (r.date = s.date /\ r.id > s.id)
Rank(rows, r) == Cardinality({s \in rows : Before(s, r)})
Page(rows, page, size) ==
    {r \in rows : Rank(rows, r) \in ((page - 1) * size)..(page * size - 1)}

\* Math.round: half up.
Rounded(amount) == (amount + 5) \div 10
Fingerprint(amount, description) == <<Rounded(amount), Norm[description]>>
DaysApart(a, b) == IF a > b THEN a - b ELSE b - a
SamePurchase(a, b, days) ==
    /\ Fingerprint(a.amount, a.description) = Fingerprint(b.amount, b.description)
    /\ DaysApart(a.date, b.date) <= days

\* Mutant: a recategorised purchase is not found again.
MatchesInCategory(rows, input) ==
    {r \in rows : SamePurchase(r, input, 3) /\ r.category = input.category}

\* createChecked(): the soft warning of a manual entry.
Matches(rows, input) == {r \in rows : SamePurchase(r, input, 3)}

\* Mutant: no fallback for a description without a keyword.
KeywordCategory(description, amount) == Keyword[description]

SuggestCategory(description, amount) ==
    CASE Keyword[description] # "none" -> Keyword[description]
      [] Keyword[description] = "none" /\ amount > 0 -> "Salary"
      [] OTHER -> "Other"

\* An object literal: the fields of a, and those of b that a has not.
Spread(a, b) == [f \in DOMAIN a \union DOMAIN b |-> IF f \in DOMAIN a THEN a[f] ELSE b[f]]

\* create(): input has every field of a row but the id.
Created(rows, input, id) == rows \union {Spread(input, [id |-> id])}

\* update() of a row that exists; the caller tests Found and otherwise fails.
Found(rows, id) == \E r \in rows : r.id = id
Updated(rows, id, category) ==
    {IF r.id = id THEN [r EXCEPT !.category = category] ELSE r : r \in rows}

Removed(rows, id) == {r \in rows : r.id # id}

\* uploadCsv(): the rows of a file, one after the other, against the store and
\* the rows of the file saved before them; id is the first free one.
Imported(rows, file, id) ==
    LET keep[i \in DOMAIN file] ==
            /\ ~\E r \in rows : SamePurchase(r, file[i], 1)
            /\ ~\E j \in 1..(i - 1) : keep[j] /\ SamePurchase(file[j], file[i], 1)
        new(i) == Spread(file[i],
                         [id |-> id + Cardinality({j \in 1..(i - 1) : keep[j]}),
                          category |-> SuggestCategory(file[i].description, file[i].amount)])
        kept   == {i \in DOMAIN file : keep[i]}
    IN  [rows |-> rows \union {new(i) : i \in kept}, next |-> id + Cardinality(kept)]

Amount(r) == r.amount
Total(rows) == MapThenSumSet(Amount, rows)
Negated(n) == IF n < 0 THEN -n ELSE 0

\* getBudgets(): the status of one category's cap in a month.
BudgetStatus(rows, month, category, limit) ==
    LET spent == Negated(Total({r \in Scoped(rows, month) : r.category = category}))
    IN  [category |-> category, limit |-> limit, spent |-> spent,
         remaining |-> Max({limit - spent, 0}), exceeded |-> spent > limit]
=============================================================================
