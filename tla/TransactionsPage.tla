--------------------------- MODULE TransactionsPage ---------------------------
\* The transactions page (frontend/src/pages/Transactions.tsx) with the drawer of
\* one transaction: what is listed, ticked and recategorised in bulk while the
\* list changes under it, and the drawer's deletion and audit, whose answers may
\* find another transaction in it, or none.  The lists are what the query cache
\* holds; QueryCache says how they are read and when.
EXTENDS MockStore

CONSTANTS
    Ledger,
    Through,     \* what search, source and amounts may let through: sets of ids
    Picked,      \* the month of the header
    PAGE,
    MaxMoves     \* bound: what the user does

Ids == {r.id : r \in Ledger}
Row == [id : Ids, date : Nat, description : DOMAIN Norm, amount : Int, category : Categories]

ASSUME TransactionsPageAssumption ==
    /\ IsFiniteSet(Ledger) /\ Ledger \subseteq Row /\ Ids \subseteq Nat \ {0}
    /\ \A r, s \in Ledger : r.id = s.id => r = s
    /\ Ids \in Through /\ {PAGE, MaxMoves} \subseteq Nat

VARIABLES
    list,       \* allMonths, the filters, the order and how much is visible
    selected,   \* the ids that are ticked
    drawer,     \* the transaction in it, as it was when clicked; its buttons
    txns,       \* the cached rows of the month and of all months
    updates,    \* category updates under way
    deletion,   \* the deletion under way
    audits,     \* the ids whose audit was asked for and not answered
    rows,       \* the ledger
    moves,
    \* history
    lastPick,   \* the category the user gave a row last
    doubtful,   \* rows an update of which failed, or overlapped with another
    askedFor,   \* the row whose Delete button was clicked last
    stray       \* the audit on show came late, or outlived its drawer

vars == <<list, selected, drawer, txns, updates, deletion, audits, rows, moves,
          lastPick, doubtful, askedFor, stray>>

NoRow  == [id |-> 0]
Closed == [txn |-> NoRow, confirming |-> FALSE, audit |-> 0, auditing |-> FALSE]
NoDeletion == [id |-> 0, state |-> "none"]

NoFilter == [cats |-> {}, through |-> Ids]
DefaultList == [allMonths |-> FALSE, filter |-> NoFilter,
                sort |-> [key |-> "date", dir |-> "desc"], visible |-> PAGE]

KeyOf(allMonths) == IF allMonths THEN 0 ELSE Picked

Init ==
    /\ list = DefaultList /\ selected = {} /\ drawer = Closed
    /\ txns = [all \in BOOLEAN |-> {}]
    /\ updates = {} /\ deletion = NoDeletion /\ audits = {}
    /\ rows = Ledger /\ moves = 0
    /\ lastPick = [id \in Ids |-> "none"] /\ doubtful = {} /\ askedFor = 0 /\ stray = FALSE

-----------------------------------------------------------------------------
(* What is shown *)

Filtered ==
    {r \in txns[list.allMonths] :
        /\ list.filter.cats = {} \/ r.category \in list.filter.cats
        /\ r.id \in list.filter.through}

\* The stable sort of the filtered rows, which come newest first.
SortsBefore(r, s) ==
    LET a == IF list.sort.key = "amount" THEN r.amount ELSE r.date
        b == IF list.sort.key = "amount" THEN s.amount ELSE s.date
    IN  \/ IF list.sort.dir = "asc" THEN a < b ELSE a > b
        \/ a = b /\ Before(r, s)

Shown ==
    {r \in Filtered : Cardinality({s \in Filtered : SortsBefore(s, r)}) < list.visible}

AllShownSelected == Shown # {} /\ \A r \in Shown : r.id \in selected

-----------------------------------------------------------------------------
(* The list *)

Moves == moves < MaxMoves /\ moves' = moves + 1
drawer_vars == <<drawer, deletion, audits, askedFor, stray>>
ledger_vars == <<txns, updates, rows, lastPick, doubtful>>

\* The drawer covers the page.
OnList == drawer.txn = NoRow /\ Moves

SetList(new) ==
    /\ OnList /\ new # list
    /\ list' = new
    /\ UNCHANGED <<selected, drawer_vars, ledger_vars>>

ToggleMonths == SetList([list EXCEPT !.allMonths = ~@])

ToggleCat(c) ==
    SetList([list EXCEPT !.filter.cats = IF c \in @ THEN @ \ {c} ELSE @ \union {c}])

Narrow == \E ids \in Through : SetList([list EXCEPT !.filter.through = ids])

ClearFilters == SetList([list EXCEPT !.filter = NoFilter])

ToggleSort(key) ==
    SetList([list EXCEPT !.sort =
        [key |-> key, dir |-> IF @.key = key /\ @.dir = "desc" THEN "asc" ELSE "desc"]])

ViewAll ==
    /\ list.visible < Cardinality(Filtered)
    /\ SetList([list EXCEPT !.visible = @ + PAGE])

ToggleSelect(r) ==
    /\ OnList
    /\ selected' = IF r.id \in selected THEN selected \ {r.id} ELSE selected \union {r.id}
    /\ UNCHANGED <<list, drawer_vars, ledger_vars>>

ToggleSelectAll ==
    /\ OnList /\ Shown # {}
    /\ selected' = LET ids == {r.id : r \in Shown}
                   IN  IF AllShownSelected THEN selected \ ids ELSE selected \union ids
    /\ UNCHANGED <<list, drawer_vars, ledger_vars>>

\* Mutant: of the ticked rows, only those listed are sent.
UpdateListed(ids, category) ==
    LET patched(data) ==
          {IF r.id \in ids THEN [r EXCEPT !.category = category] ELSE r : r \in data}
    IN  /\ updates' = updates \union
              {[id |-> id, category |-> category, n |-> moves + 1, state |-> "sent"] :
               id \in ids \intersect {r.id : r \in Shown}}
        /\ txns' = [all \in BOOLEAN |-> patched(txns[all])]
        /\ lastPick' = [id \in Ids |-> IF id \in ids THEN category ELSE lastPick[id]]
        /\ doubtful' = doubtful \union {u.id : u \in {v \in updates : v.id \in ids}}
        /\ UNCHANGED rows

\* mutate() of each id, in turn: each keeps the lists it finds and patches them.
\* They are one change of the lists; the snapshots of all are those before.
Update(ids, category) ==
    LET patched(data) ==
          {IF r.id \in ids THEN [r EXCEPT !.category = category] ELSE r : r \in data}
    IN  /\ updates' = updates \union
              {[id |-> id, category |-> category, n |-> moves + 1, state |-> "sent"] : id \in ids}
        /\ txns' = [all \in BOOLEAN |-> patched(txns[all])]
        /\ lastPick' = [id \in Ids |-> IF id \in ids THEN category ELSE lastPick[id]]
        /\ doubtful' = doubtful \union {u.id : u \in {v \in updates : v.id \in ids}}
        /\ UNCHANGED rows

\* Whatever is ticked, listed or not.
BulkRecategorize(category) ==
    /\ OnList /\ selected # {}
    /\ Update(selected, category)
    /\ selected' = {}
    /\ UNCHANGED <<list, drawer_vars>>

\* The badge offers the other categories.
RecategorizeOne(r, category) ==
    /\ OnList /\ r.category # category
    /\ Update({r.id}, category)
    /\ UNCHANGED <<list, selected, drawer_vars>>

OpenDetail(r) ==
    /\ OnList
    /\ drawer' = [drawer EXCEPT !.txn = r]
    /\ UNCHANGED <<list, selected, deletion, audits, askedFor, stray, ledger_vars>>

-----------------------------------------------------------------------------
(* The drawer *)

InDrawer == drawer.txn # NoRow /\ Moves

\* Mutants: the confirmation, the audit is left for the next transaction.
CloseDetailConfirming ==
    /\ InDrawer
    /\ drawer' = [drawer EXCEPT !.txn = NoRow, !.audit = 0]
    /\ stray' = FALSE
    /\ UNCHANGED <<list, selected, deletion, audits, askedFor, ledger_vars>>

CloseDetailKeepsAudit ==
    /\ InDrawer
    /\ drawer' = [drawer EXCEPT !.txn = NoRow, !.confirming = FALSE]
    /\ stray' = FALSE
    /\ UNCHANGED <<list, selected, deletion, audits, askedFor, ledger_vars>>

\* The drawer stays mounted: auditing, and the deletion, are those of the last.
CloseDetail ==
    /\ InDrawer
    /\ drawer' = [drawer EXCEPT !.txn = NoRow, !.confirming = FALSE, !.audit = 0]
    /\ stray' = FALSE
    /\ UNCHANGED <<list, selected, deletion, audits, askedFor, ledger_vars>>

\* The badge goes on showing the category of the row when it was clicked.
RecategorizeDetail(category) ==
    /\ InDrawer /\ category # drawer.txn.category
    /\ Update({drawer.txn.id}, category)
    /\ UNCHANGED <<list, selected, drawer_vars>>

LoadAudit ==
    /\ InDrawer /\ drawer.audit = 0 /\ ~drawer.auditing
    /\ drawer' = [drawer EXCEPT !.auditing = TRUE]
    /\ audits' = audits \union {drawer.txn.id}
    /\ UNCHANGED <<list, selected, deletion, askedFor, stray, ledger_vars>>

Confirming ==
    /\ InDrawer /\ ~drawer.confirming
    /\ drawer' = [drawer EXCEPT !.confirming = TRUE]
    /\ askedFor' = drawer.txn.id
    /\ UNCHANGED <<list, selected, deletion, audits, stray, ledger_vars>>

CancelDelete ==
    /\ InDrawer /\ drawer.confirming
    /\ drawer' = [drawer EXCEPT !.confirming = FALSE]
    /\ UNCHANGED <<list, selected, deletion, audits, askedFor, stray, ledger_vars>>

OnDelete ==
    /\ InDrawer /\ drawer.confirming /\ deletion = NoDeletion
    /\ deletion' = [id |-> drawer.txn.id, state |-> "sent"]
    /\ UNCHANGED <<list, selected, drawer, audits, askedFor, stray, ledger_vars>>

-----------------------------------------------------------------------------
(* The server and its answers *)

\* A read of the cache ends.
Refresh(all) ==
    /\ txns' = [txns EXCEPT ![all] = Scoped(rows, KeyOf(all))]
    /\ UNCHANGED <<list, selected, drawer_vars, updates, rows, moves, lastPick, doubtful>>

ServerUpdate(u) ==
    /\ u.state = "sent"
    /\ rows' = Updated(rows, u.id, u.category)
    /\ updates' = (updates \ {u}) \union
          {[u EXCEPT !.state = IF Found(rows, u.id) THEN "done" ELSE "refused"]}
    /\ UNCHANGED <<list, selected, drawer_vars, txns, moves, lastPick, doubtful>>

AnswerUpdate(u) ==
    /\ u.state = "done"
    /\ updates' = updates \ {u}
    /\ UNCHANGED <<list, selected, drawer_vars, txns, rows, moves, lastPick, doubtful>>

\* What the rollback puts back is read again: a Refresh.
UpdateFails(u) ==
    /\ updates' = updates \ {u}
    /\ doubtful' = doubtful \union {u.id}
    /\ UNCHANGED <<list, selected, drawer_vars, txns, rows, moves, lastPick>>

ServerDelete ==
    /\ deletion.state = "sent"
    /\ rows' = Removed(rows, deletion.id)
    /\ deletion' = [deletion EXCEPT !.state = "done"]
    /\ UNCHANGED <<list, selected, drawer, audits, askedFor, stray, txns, updates,
                   moves, lastPick, doubtful>>

\* onSuccess: closes whatever the drawer shows by then, and keeps its audit.
AnswerDelete ==
    /\ deletion.state = "done"
    /\ deletion' = NoDeletion
    /\ drawer' = [drawer EXCEPT !.txn = NoRow, !.confirming = FALSE]
    /\ stray' = (drawer.audit # 0)
    /\ UNCHANGED <<list, selected, audits, askedFor, moves, ledger_vars>>

DeleteFails ==
    /\ deletion # NoDeletion
    /\ deletion' = NoDeletion
    /\ UNCHANGED <<list, selected, drawer, audits, askedFor, stray, moves, ledger_vars>>

\* The first entry, if the row has any; an error leaves the old one.
AnswerAudit(id) ==
    /\ audits' = audits \ {id}
    /\ \/ \E found \in {id, 0} :
            /\ drawer' = [drawer EXCEPT !.audit = found, !.auditing = FALSE]
            /\ stray' = (found # 0 /\ drawer.txn.id # id)
       \/ /\ drawer' = [drawer EXCEPT !.auditing = FALSE]
          /\ UNCHANGED stray
    /\ UNCHANGED <<list, selected, deletion, askedFor, moves, ledger_vars>>

OnRow(r) ==
    \/ ToggleSelect(r) \/ OpenDetail(r)
    \/ \E c \in Categories : RecategorizeOne(r, c)

User ==
    \/ ToggleMonths \/ Narrow \/ ClearFilters \/ ViewAll \/ ToggleSelectAll
    \/ \E c \in Categories : ToggleCat(c) \/ BulkRecategorize(c) \/ RecategorizeDetail(c)
    \/ \E key \in {"date", "amount"} : ToggleSort(key)
    \/ \E r \in Shown : OnRow(r)
    \/ CloseDetail \/ LoadAudit \/ Confirming \/ CancelDelete \/ OnDelete

Next ==
    \/ User
    \/ \E all \in BOOLEAN : Refresh(all)
    \/ \E u \in updates : ServerUpdate(u) \/ AnswerUpdate(u) \/ UpdateFails(u)
    \/ ServerDelete \/ AnswerDelete \/ DeleteFails
    \/ \E id \in audits : AnswerAudit(id)

Spec == Init /\ [][Next]_vars

-----------------------------------------------------------------------------
(* Properties *)

\* The variables keep their types.
TypeOK ==
    /\ list \in [allMonths : BOOLEAN, filter : [cats : SUBSET Categories, through : Through],
                 sort : [key : {"date", "amount"}, dir : {"asc", "desc"}], visible : Nat]
    /\ selected \subseteq Ids /\ audits \subseteq Ids /\ doubtful \subseteq Ids
    /\ drawer \in [txn : Row \union {NoRow}, confirming : BOOLEAN,
                   audit : Ids \union {0}, auditing : BOOLEAN]
    /\ deletion \in [id : Ids \union {0}, state : {"none", "sent", "done"}]
    /\ txns \in [BOOLEAN -> SUBSET Row] /\ rows \subseteq Row
    /\ updates \subseteq [id : Ids, category : Categories, n : 1..MaxMoves,
                         state : {"sent", "done", "refused"}]
    /\ lastPick \in [Ids -> Categories \union {"none"}]
    /\ askedFor \in Ids \union {0} /\ stray \in BOOLEAN /\ moves \in 0..MaxMoves

\* The row the Delete button was clicked for is the row the confirmation deletes,
\* whatever was opened, closed and answered in between: a confirmation never
\* passes to the next transaction in the drawer.
DeletesWhatWasConfirmed ==
    drawer.confirming => drawer.txn.id = askedFor

\* The drawer answers "why this category?" for the transaction it shows, unless
\* the answer came after the drawer had moved on, or was left by a deletion that
\* closed the drawer: neither clears it.
AuditIsOfItsRow ==
    drawer.txn # NoRow /\ drawer.audit # 0 =>
        drawer.audit = drawer.txn.id \/ stray

\* Every row ends up in the category it was given last, one by one, in bulk or in
\* the drawer, listed at the time or not, unless an update of it failed or two
\* overlapped: the server may take them in either order.
LastPickWins ==
    \A r \in rows :
        /\ lastPick[r.id] # "none" /\ r.id \notin doubtful
        /\ \A u \in updates : u.id # r.id
        => r.category = lastPick[r.id]
=============================================================================
