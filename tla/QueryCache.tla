------------------------------ MODULE QueryCache ------------------------------
\* The cached views of the ledger and the mutations that change it
\* (frontend/src/hooks/useApi.ts), over the query cache they configure: reads in
\* pages that a write may overtake, failed reads, a view that is left while it
\* is read, and the optimistic update of a category with its rollback.
EXTENDS Aggregate

CONSTANTS
    Keys,         \* the queries
    Reads,        \* what each reads: "list", "full" or "budgets"
    Month,        \* the month of each, 0 for all
    Picked,       \* the month the header picks
    Pages,        \* the pages of the client
    Watched,      \* the keys each page shows
    PageSize,     \* page_size (500 in the code)
    MaxPages,     \* the bound of listAllTransactions (200 in the code)
    Capped,       \* the category that has a budget
    Limits,       \* the caps it may be given
    Ledger,       \* the rows at the start
    NewRows,      \* what may be added to them
    MaxMoves      \* bound: mutations and changes of the page

ASSUME QueryCacheAssumption ==
    /\ Reads \in [Keys -> {"list", "full", "budgets"}] /\ Month \in [Keys -> {0, Picked}] /\ Picked \in Nat \ {0}
    /\ Watched \in [Pages -> SUBSET Keys]
    /\ {PageSize, MaxPages} \subseteq Nat \ {0} /\ MaxMoves \in Nat
    /\ Limits \subseteq Nat \ {0}

\* What is sent to create a row, and the row.
Entered == [date : Int, description : DOMAIN Norm, amount : Int, category : Categories]
Stored  == [id : Nat, date : Int, description : DOMAIN Norm, amount : Int, category : Categories]

ASSUME LedgerAssumption ==
    /\ NewRows \subseteq Entered
    /\ Ledger \subseteq Stored /\ IsFiniteSet(Ledger)
    /\ \A r \in Ledger : r.id \in 1..Cardinality(Ledger)
    /\ \A r, s \in Ledger : r.id = s.id => r = s

VARIABLES
    page,     \* the page that is mounted
    cache,    \* the queries
    writes,   \* the mutations the client or the server still works on
    moves,    \* how many there were, and changes of the page
    \* the server
    ledger,   \* the rows of the user
    nextId,
    limit     \* the cap of Capped, 0 without one

cacheVars == <<page, cache, writes, moves, ledger, nextId, limit>>
server_vars == <<ledger, nextId, limit>>

Lists == {k \in Keys : Reads[k] # "budgets"}

\* A query: its data, once known; whether they are stale; the fetch that is
\* under way, with the rows it has got.
\* History: overtaken, the data may miss a write that no read will follow.
NoFetch == [on |-> FALSE, next |-> 1, got |-> {}, whole |-> FALSE]
Unknown == [known |-> FALSE, data |-> {}, stale |-> FALSE, fetch |-> NoFetch,
            overtaken |-> FALSE]

Fetch == [NoFetch EXCEPT !.on = TRUE]
Started(q) == [q EXCEPT !.fetch = Fetch, !.overtaken = FALSE]

\* invalidateQueries: a query that is shown is read again.  A fetch of it starts
\* afresh, unless it is the first and there is nothing to show yet; a fetch of a
\* query nobody shows goes on and makes it fresh.
Invalidated(k, q) ==
    LET stale == [q EXCEPT !.stale = q.known]
        goesOn == q.fetch.on /\ (k \notin Watched[page] \/ ~q.known)
    IN  IF goesOn THEN [stale EXCEPT !.overtaken = TRUE]
        ELSE IF k \in Watched[page] THEN Started(stale)
        ELSE stale

\* cancelQueries: the data are those before the fetch, known or not.
Cancelled(q) == [q EXCEPT !.fetch = NoFetch]

\* setQueryData.
Put(q, data) == [q EXCEPT !.known = TRUE, !.data = data, !.stale = FALSE]

Touched(kind) == IF kind = "budget" THEN Keys \ Lists ELSE Keys

\* invalidateAll, or the keys of a new budget.
Invalidate(kind, queries) ==
    [k \in Keys |-> IF k \in Touched(kind) THEN Invalidated(k, queries[k]) ELSE queries[k]]

CacheInit ==
    /\ page \in Pages
    /\ cache = [k \in Keys |-> IF k \in Watched[page] THEN Started(Unknown) ELSE Unknown]
    /\ writes = {} /\ moves = 0
    /\ ledger = Ledger /\ nextId = Cardinality(Ledger) + 1 /\ limit = 0

-----------------------------------------------------------------------------
(* Reads *)

\* A page mounts its queries: one that has no data, stale data or data of more
\* than thirty seconds is read, unless it is being read.
Visit(p) ==
    /\ page # p /\ page' = p
    /\ moves < MaxMoves /\ moves' = moves + 1
    /\ \E aged \in SUBSET {k \in Watched[p] : cache[k].known} :
         cache' = [k \in Keys |->
            IF /\ k \in Watched[p] /\ ~cache[k].fetch.on
               /\ ~cache[k].known \/ cache[k].stale \/ k \in aged
            THEN Started(cache[k]) ELSE cache[k]]
    /\ UNCHANGED <<writes, server_vars>>

\* A query nobody showed for five minutes is dropped.
Collect(k) ==
    /\ k \notin Watched[page] /\ cache[k].known /\ ~cache[k].fetch.on
    /\ cache' = [cache EXCEPT ![k] = Unknown]
    /\ UNCHANGED <<page, writes, moves, server_vars>>

\* GET /budgets: a category without a cap has no status.
Budgets(k) ==
    IF limit = 0 THEN {} ELSE {BudgetStatus(ledger, Month[k], Capped, limit)}

ListTransactions(k) == Page(Scoped(ledger, Month[k]), 1, PageSize)

\* The loop of listAllTransactions: it ends with a page that is not full.
ListAllTransactions(f, k) ==
    LET part == Page(Scoped(ledger, Month[k]), f.next, PageSize)
    IN  [f EXCEPT !.next = @ + 1, !.got = @ \union part,
                  !.whole = Cardinality(part) < PageSize \/ f.next = MaxPages]

ReadOf(f, k) ==
    CASE Reads[k] = "list" -> [f EXCEPT !.got = ListTransactions(k), !.whole = TRUE]
      [] Reads[k] = "full" -> ListAllTransactions(f, k)
      [] Reads[k] = "budgets" ->
            [f EXCEPT !.got = Budgets(k), !.whole = TRUE]

ServerRead(k) ==
    /\ cache[k].fetch.on /\ ~cache[k].fetch.whole
    /\ cache' = [cache EXCEPT ![k].fetch = ReadOf(@, k)]
    /\ UNCHANGED <<page, writes, moves, server_vars>>

AnswerRead(k) ==
    /\ cache[k].fetch.on /\ cache[k].fetch.whole
    /\ cache' = [cache EXCEPT ![k] = [Put(@, @.fetch.got) EXCEPT !.fetch = NoFetch]]
    /\ UNCHANGED <<page, writes, moves, server_vars>>

\* An error: one retry of the whole read (how many there were is not counted),
\* then the data that were, if any.
ReadFails(k) ==
    /\ cache[k].fetch.on
    /\ \/ cache' = [cache EXCEPT ![k].fetch = Fetch]
       \/ cache' = [cache EXCEPT ![k].fetch = NoFetch, ![k].stale = cache[k].known]
    /\ UNCHANGED <<page, writes, moves, server_vars>>

-----------------------------------------------------------------------------
(* Writes *)

NoRow == [none |-> TRUE]

\* kind is "category", "delete", "clear", "create" or "budget"; before holds the
\* snapshots of an optimistic update.
Mutate(w, before) ==
    /\ moves < MaxMoves
    /\ moves' = moves + 1
    /\ writes' = writes \union
          {Spread(w, [n |-> moves + 1, id |-> 0, category |-> "none", row |-> NoRow, limit |-> 0,
                      before |-> before, state |-> "sent", waited |-> TRUE])}
    /\ UNCHANGED <<page, server_vars>>

ShownRows == UNION {cache[k].data : k \in Lists \intersect Watched[page]}

\* onMutate: cancel the reads of the transactions, keep what they show, patch it.
UpdateCategory(id, category) ==
    LET queries == [k \in Keys |-> IF k \in Lists THEN Cancelled(cache[k]) ELSE cache[k]]
    IN  /\ cache' = [k \in Keys |->
              IF k \in Lists /\ queries[k].known
              THEN Put(queries[k], Updated(queries[k].data, id, category)) ELSE queries[k]]
        /\ Mutate([kind |-> "category", id |-> id, category |-> category],
                  [k \in {l \in Lists : queries[l].known} |-> queries[k].data])

DeleteTransaction(id) == Mutate([kind |-> "delete", id |-> id], <<>>) /\ UNCHANGED cache
ClearAll == Mutate([kind |-> "clear"], <<>>) /\ UNCHANGED cache
CreateTransaction(row) == Mutate([kind |-> "create", row |-> row], <<>>) /\ UNCHANGED cache
SetBudget(cap) == Mutate([kind |-> "budget", limit |-> cap], <<>>) /\ UNCHANGED cache

\* What the pages offer: the category badges and the detail drawer of the
\* transactions, the settings, the budget form of the insights, and Quick Add.
User ==
    \/ /\ page = "/transactions"
       /\ \E r \in ShownRows :
            \/ \E c \in Categories : c # r.category /\ UpdateCategory(r.id, c)
            \/ DeleteTransaction(r.id)
    \/ page = "/settings" /\ ClearAll
    \/ page = "/insights" /\ \E cap \in Limits : SetBudget(cap)
    \/ \E row \in NewRows : CreateTransaction(row)

Turn(w, state) == (writes \ {w}) \union {[w EXCEPT !.state = state]}

\* A write the client no longer waits for changes the ledger unannounced.
Overtake(kind) ==
    cache' = [k \in Keys |-> [cache[k] EXCEPT !.overtaken =
        @ \/ (k \in Touched(kind) /\ (cache[k].known \/ cache[k].fetch.on))]]

ServerApply(w) ==
    /\ w.state = "sent"
    /\ ledger' = CASE w.kind = "category" -> Updated(ledger, w.id, w.category)
                 [] w.kind = "delete" -> Removed(ledger, w.id)
                 [] w.kind = "clear" -> {}
                 [] w.kind = "create" -> Created(ledger, w.row, nextId)
                 [] OTHER -> ledger
    /\ nextId' = IF w.kind = "create" THEN nextId + 1 ELSE nextId
    /\ limit' = IF w.kind = "budget" THEN w.limit ELSE limit
    /\ IF w.waited
       THEN /\ writes' = Turn(w, IF w.kind = "category" /\ ~Found(ledger, w.id)
                                 THEN "refused" ELSE "done")
            /\ UNCHANGED cache
       ELSE writes' = writes \ {w} /\ Overtake(w.kind)
    /\ UNCHANGED <<page, moves>>

\* onSuccess, or onSettled.
AnswerWrite(w) ==
    /\ w.waited /\ w.state = "done"
    /\ cache' = Invalidate(w.kind, cache)
    /\ writes' = writes \ {w}
    /\ UNCHANGED <<page, moves, server_vars>>

\* onError: the snapshots, whatever was written since.
RolledBack(w) ==
    [k \in Keys |-> IF k \in DOMAIN w.before THEN Put(cache[k], w.before[k]) ELSE cache[k]]

\* Mutant: a failed update is rolled back and not read again.
WriteFailsInSilence(w) ==
    /\ w.waited
    /\ writes' = (writes \ {w}) \union
          (IF w.state = "sent" THEN {[w EXCEPT !.waited = FALSE, !.before = <<>>]} ELSE {})
    /\ IF w.kind = "category" THEN cache' = RolledBack(w)
       ELSE IF w.state = "done" THEN Overtake(w.kind)
       ELSE UNCHANGED cache
    /\ UNCHANGED <<page, moves, server_vars>>

\* An error answer, or a connection that breaks before or after the write.
WriteFails(w) ==
    /\ w.waited
    /\ writes' = (writes \ {w}) \union
          (IF w.state = "sent" THEN {[w EXCEPT !.waited = FALSE, !.before = <<>>]} ELSE {})
    /\ IF w.kind = "category" THEN cache' = Invalidate(w.kind, RolledBack(w))
       ELSE IF w.state = "done" THEN Overtake(w.kind)
       ELSE UNCHANGED cache
    /\ UNCHANGED <<page, moves, server_vars>>

\* A request that never reached the server.
Forget(w) ==
    /\ ~w.waited
    /\ writes' = writes \ {w}
    /\ UNCHANGED <<page, cache, moves, server_vars>>

CacheNext ==
    \/ User
    \/ \E p \in Pages : Visit(p)
    \/ \E k \in Keys : Collect(k) \/ ServerRead(k) \/ AnswerRead(k) \/ ReadFails(k)
    \/ \E w \in writes : ServerApply(w) \/ AnswerWrite(w) \/ WriteFails(w) \/ Forget(w)

CacheSpec == CacheInit /\ [][CacheNext]_cacheVars

-----------------------------------------------------------------------------
(* Properties *)

View(k) ==
    CASE Reads[k] = "list" -> ListTransactions(k)
      [] Reads[k] = "full" -> Scoped(ledger, Month[k])
      [] Reads[k] = "budgets" -> Budgets(k)

\* Nothing is going to change what k shows.
Quiet(k) ==
    /\ cache[k].known /\ ~cache[k].stale /\ ~cache[k].fetch.on
    /\ \A w \in writes : k \in Touched(w.kind) => w.state = "sent" /\ w.kind # "category"

\* A view that is at rest shows the ledger: no order of reads, writes, failures,
\* rollbacks and visits leaves it with what was never or is no longer there,
\* except one that a write overtook: its first read was under way, or it was
\* read for a page that had been left, or the write's own answer was lost.
QuietViewIsLedger ==
    \A k \in Keys :
        Quiet(k) /\ ~cache[k].overtaken => cache[k].data = View(k)

Sum(f) == MapThenSumSet(LAMBDA x : f[x], DOMAIN f)

\* The figures of the pages, computed in different places, agree: the cards, the
\* bars, the categories, the days and the merchants of any list of rows, and,
\* when the month fits in a page of the list, the dashboard, the insights and
\* the server's status of a budget of that month with one another.
FiguresAgree ==
    /\ \A k \in Lists :
         LET shown   == cache[k].data
             dash    == Dashboard(shown, Picked)
             summary == dash.summary
         IN  /\ dash.stats.net = summary.total_spend
             /\ summary.total_spend = Sum([c \in DOMAIN summary.by_category |->
                                               summary.by_category[c].total])
             /\ Sum(summary.daily) = dash.stats.spent
             /\ Sum(TopMerchants(shown, Picked)) = dash.stats.spent
             /\ dash.sixMonths[6] = dash.stats.spent /\ dash.sixMonths[5] = dash.prev.spent
    /\ \A f, k, b \in Keys :
         LET summary == BuildSummary(cache[k].data, Picked)
         IN  /\ Reads[f] = "full" /\ Reads[k] = "list" /\ Reads[b] = "budgets"
             /\ Month[k] = Picked /\ Month[b] = Picked
             /\ \A q \in {f, k, b} : Quiet(q) /\ ~cache[q].overtaken
             /\ Cardinality(InMonth(ledger, Picked)) <= PageSize
             => /\ summary = Dashboard(cache[f].data, Picked).summary
                /\ \A s \in cache[b].data :
                     s.spent = IF Capped \in DOMAIN summary.by_category
                               THEN Negated(summary.by_category[Capped].total) ELSE 0
=============================================================================
