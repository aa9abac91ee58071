------------------------------- MODULE Aggregate -------------------------------
\* The figures the client computes from the transactions it was given
\* (frontend/src/lib/aggregate.ts): the dashboard and the insights page show
\* them beside what the server computes, the status of the budgets.
EXTENDS MockStore

Expenses(rows) == {r \in rows : r.amount < 0}

\* buildSummary(): a category without a row is not in by_category, a day without
\* an expense not in daily.  The order of the drivers is layout.
BuildSummary(rows, month) ==
    LET scoped == Scoped(rows, month)
        of(c)  == {r \in scoped : r.category = c}
        on(d)  == {r \in Expenses(scoped) : r.date = d}
    IN  [total_spend |-> Total(scoped),
         by_category |-> [c \in {r.category : r \in scoped} |->
                            [total |-> Total(of(c)), count |-> Cardinality(of(c))]],
         daily       |-> [d \in {r.date : r \in Expenses(scoped)} |-> -Total(on(d))]]

\* Mutant: the figures of every month in one.
MonthStatsOfAll(rows, month) ==
    LET spent  == -Total(Expenses(rows))
        income == Total(rows \ Expenses(rows))
    IN  [spent |-> spent, income |-> income, net |-> income - spent]

MonthStats(rows, month) ==
    LET scoped == InMonth(rows, month)
        spent  == -Total(Expenses(scoped))
        income == Total(scoped \ Expenses(scoped))
    IN  [spent |-> spent, income |-> income, net |-> income - spent]

\* The bars of the last count months, oldest first.
LastNMonths(month, count) == [i \in 1..count |-> month - (count - i)]
MonthlyExpenseTotals(rows, months) ==
    [i \in DOMAIN months |-> MonthStats(rows, months[i]).spent]

\* topMerchants() before its limit, which the page leaves at six.
TopMerchants(rows, month) ==
    LET spent == Expenses(Scoped(rows, month))
    IN  [d \in {r.description : r \in spent} |->
            -Total({r \in spent : r.description = d})]

\* What the dashboard shows of the whole history, for the month that is picked.
Dashboard(all, month) ==
    [stats |-> MonthStats(all, month),
     prev  |-> MonthStats(all, month - 1),
     summary |-> BuildSummary(all, month),
     sixMonths |-> MonthlyExpenseTotals(all, LastNMonths(month, 6))]
=============================================================================
