------------------------- MODULE TransactionsProofs --------------------------
(***************************************************************************)
(* Proofs about TransactionsPage for every ledger, every set of categories *)
(* and every bound: types first, then the drawer and the categories, which *)
(* have an inductive invariant each.                                       *)
(***************************************************************************)
EXTENDS TransactionsPage, TLAPS

UpdateRec == [id : Ids, category : Categories, n : 1..MaxMoves,
              state : {"sent", "done", "refused"}]

\* A drawer without a transaction asks for no confirmation, and an audit it still
\* holds is one that the next transaction does not have.
DrawerInv ==
    /\ DeletesWhatWasConfirmed /\ AuditIsOfItsRow
    /\ drawer.txn = NoRow => ~drawer.confirming
    /\ drawer.txn = NoRow /\ drawer.audit # 0 => stray

\* A row with one update under way gets the category picked last, or has it.
Settling(i) ==
    /\ \A u, v \in updates : u.id = i /\ v.id = i => u = v
    /\ \A u \in updates : u.id = i => u.category = lastPick[i]
    /\ \A r \in rows : r.id = i /\ lastPick[i] # "none" =>
         r.category = lastPick[i] \/ \E u \in updates : u.id = i /\ u.state = "sent"

PicksInv == \A i \in Ids \ doubtful : Settling(i)

USE TransactionsPageAssumption

-----------------------------------------------------------------------------
(* Types *)

\* The rows that the page shows are rows.
LEMMA ShownAreRows ==
    ASSUME TypeOK PROVE Shown \subseteq Row /\ {r.id : r \in Shown} \subseteq Ids
<1>1. Shown \subseteq Row
    BY DEF TypeOK, Shown, Filtered
<1> QED
    BY <1>1 DEF Row

\* A move keeps its bound.
LEMMA MovesCount ==
    ASSUME TypeOK, Moves PROVE moves' \in 0..MaxMoves /\ moves + 1 \in 1..MaxMoves
BY DEF TypeOK, Moves

LEMMA SetListTypes ==
    ASSUME TypeOK, NEW new, SetList(new),
           new \in [allMonths : BOOLEAN, filter : [cats : SUBSET Categories, through : Through],
                    sort : [key : {"date", "amount"}, dir : {"asc", "desc"}], visible : Nat]
    PROVE  TypeOK'
<1>1. Moves
    BY DEF SetList, OnList
<1> QED
    BY <1>1, MovesCount DEF TypeOK, SetList, drawer_vars, ledger_vars

\* What the user sets of the list.
LEMMA ListTypes ==
    ASSUME TypeOK, ToggleMonths \/ Narrow \/ ClearFilters \/ ViewAll
                   \/ (\E c \in Categories : ToggleCat(c))
                   \/ (\E key \in {"date", "amount"} : ToggleSort(key))
    PROVE  TypeOK'
<1> DEFINE List == [allMonths : BOOLEAN, filter : [cats : SUBSET Categories, through : Through],
                    sort : [key : {"date", "amount"}, dir : {"asc", "desc"}], visible : Nat]
<1>1. CASE ToggleMonths
    <2>1. [list EXCEPT !.allMonths = ~@] \in List
        BY DEF TypeOK
    <2> QED
        BY <1>1, <2>1, SetListTypes DEF ToggleMonths
<1>2. CASE Narrow
    <2>1. PICK ids \in Through : SetList([list EXCEPT !.filter.through = ids])
        BY <1>2 DEF Narrow
    <2>2. [list EXCEPT !.filter.through = ids] \in List
        BY DEF TypeOK
    <2> QED
        BY <2>1, <2>2, SetListTypes
<1>3. CASE ClearFilters
    <2>1. [list EXCEPT !.filter = NoFilter] \in List
        BY DEF TypeOK, NoFilter
    <2> QED
        BY <1>3, <2>1, SetListTypes DEF ClearFilters
<1>4. CASE ViewAll
    <2>1. [list EXCEPT !.visible = @ + PAGE] \in List
        BY DEF TypeOK
    <2> QED
        BY <1>4, <2>1, SetListTypes DEF ViewAll
<1>5. ASSUME NEW c \in Categories, ToggleCat(c) PROVE TypeOK'
    <2> DEFINE cats == IF c \in list.filter.cats THEN list.filter.cats \ {c}
                       ELSE list.filter.cats \union {c}
    <2>1. cats \in SUBSET Categories
        BY DEF TypeOK
    <2>2. [list EXCEPT !.filter.cats = IF c \in @ THEN @ \ {c} ELSE @ \union {c}]
          = [list EXCEPT !.filter.cats = cats]
        BY DEF TypeOK
    <2>3. [list EXCEPT !.filter.cats = cats] \in List
        <3> HIDE DEF cats
        <3> QED
            BY <2>1 DEF TypeOK
    <2> QED
        BY <1>5, <2>2, <2>3, SetListTypes DEF ToggleCat
<1>6. ASSUME NEW key \in {"date", "amount"}, ToggleSort(key) PROVE TypeOK'
    <2>1. [list EXCEPT !.sort =
            [key |-> key, dir |-> IF @.key = key /\ @.dir = "desc" THEN "asc" ELSE "desc"]] \in List
        BY DEF TypeOK
    <2> QED
        BY <1>6, <2>1, SetListTypes DEF ToggleSort
<1> QED
    BY <1>1, <1>2, <1>3, <1>4, <1>5, <1>6

LEMMA SelectionTypes ==
    ASSUME TypeOK, ToggleSelectAll \/ (\E r \in Shown : ToggleSelect(r))
    PROVE  TypeOK'
<1>1. Moves /\ UNCHANGED <<list, drawer_vars, ledger_vars>>
    BY DEF ToggleSelectAll, ToggleSelect, OnList
<1>2. selected' \subseteq Ids
    <2>1. CASE ToggleSelectAll
        <3> DEFINE shownIds == {r.id : r \in Shown}
        <3>1. selected' \in {selected \ shownIds, selected \union shownIds}
            BY <2>1 DEF ToggleSelectAll
        <3>2. shownIds \subseteq Ids /\ selected \subseteq Ids
            BY ShownAreRows DEF TypeOK
        <3> HIDE DEF shownIds
        <3> QED
            BY <3>1, <3>2
    <2>2. ASSUME NEW r \in Shown, ToggleSelect(r) PROVE selected' \subseteq Ids
        <3>1. r.id \in Ids /\ selected \subseteq Ids
            BY ShownAreRows DEF TypeOK
        <3> QED
            BY <2>2, <3>1 DEF ToggleSelect
    <2> QED
        BY <2>1, <2>2
<1> QED
    BY <1>1, <1>2, MovesCount DEF TypeOK, drawer_vars, ledger_vars

\* An update of rows of the ledger, from the list or the drawer.
LEMMA UpdateTypes ==
    ASSUME TypeOK, Moves, NEW ids \in SUBSET Ids, NEW category \in Categories,
           Update(ids, category), selected' \subseteq Ids, UNCHANGED <<list, drawer_vars>>
    PROVE  TypeOK'
<1>1. updates' \subseteq UpdateRec
    BY MovesCount DEF Update, TypeOK, UpdateRec
<1>2. txns' \in [BOOLEAN -> SUBSET Row]
    <2>1. \A all \in BOOLEAN : \A r \in txns[all] :
            /\ r \in Row /\ [r EXCEPT !.category = category] \in Row
        BY DEF TypeOK, Row
    <2> QED
        BY <2>1 DEF Update
<1>3. lastPick' \in [Ids -> Categories \union {"none"}]
    BY DEF Update, TypeOK
<1>4. doubtful' \subseteq Ids
    BY DEF Update, TypeOK
<1> QED
    BY <1>1, <1>2, <1>3, <1>4, MovesCount DEF Update, TypeOK, UpdateRec, drawer_vars

\* The three ways to update are updates of rows of the ledger.
LEMMA UpdatesAreUpdates ==
    ASSUME TypeOK, NEW c \in Categories,
           BulkRecategorize(c) \/ RecategorizeDetail(c)
             \/ (\E r \in Shown : RecategorizeOne(r, c))
    PROVE  /\ Moves /\ selected' \subseteq Ids /\ UNCHANGED <<list, drawer_vars>>
           /\ \E ids \in SUBSET Ids : Update(ids, c)
<1>1. CASE BulkRecategorize(c)
    BY <1>1 DEF BulkRecategorize, OnList, TypeOK
<1>2. CASE RecategorizeDetail(c)
    <2>1. drawer.txn \in Row
        BY <1>2 DEF RecategorizeDetail, InDrawer, TypeOK
    <2>2. {drawer.txn.id} \in SUBSET Ids
        BY <2>1 DEF Row
    <2> QED
        BY <1>2, <2>2 DEF RecategorizeDetail, InDrawer, TypeOK
<1>3. ASSUME NEW r \in Shown, RecategorizeOne(r, c)
      PROVE  /\ Moves /\ selected' \subseteq Ids /\ UNCHANGED <<list, drawer_vars>>
             /\ \E ids \in SUBSET Ids : Update(ids, c)
    <2>1. {r.id} \in SUBSET Ids
        BY ShownAreRows
    <2> QED
        BY <1>3, <2>1 DEF RecategorizeOne, OnList, TypeOK
<1> QED
    BY <1>1, <1>2, <1>3

\* What the user does in the drawer, and how it opens.
LEMMA DrawerTypes ==
    ASSUME TypeOK, CloseDetail \/ LoadAudit \/ Confirming \/ CancelDelete \/ OnDelete
                   \/ (\E r \in Shown : OpenDetail(r))
    PROVE  TypeOK'
<1>1. Moves /\ UNCHANGED <<list, selected, ledger_vars>>
    BY DEF CloseDetail, LoadAudit, Confirming, CancelDelete, OnDelete, OpenDetail, OnList, InDrawer
<1>2. /\ moves' \in 0..MaxMoves /\ list' = list /\ selected' = selected /\ txns' = txns
      /\ updates' = updates /\ rows' = rows /\ lastPick' = lastPick /\ doubtful' = doubtful
    BY <1>1, MovesCount DEF ledger_vars
<1>3. CASE CloseDetail
    BY <1>2, <1>3 DEF CloseDetail, TypeOK
<1>4. CASE \E r \in Shown : OpenDetail(r)
    BY <1>2, <1>4, ShownAreRows DEF OpenDetail, TypeOK
<1>5. ASSUME LoadAudit \/ Confirming \/ CancelDelete \/ OnDelete PROVE TypeOK'
    <2>1. drawer.txn.id \in Ids
        <3>1. drawer.txn \in Row
            BY <1>5 DEF LoadAudit, Confirming, CancelDelete, OnDelete, InDrawer, TypeOK, NoRow, Row
        <3> QED
            BY <3>1 DEF Row
    <2>2. CASE LoadAudit
        BY <1>2, <2>1, <2>2 DEF LoadAudit, TypeOK
    <2>3. CASE Confirming
        BY <1>2, <2>1, <2>3 DEF Confirming, TypeOK
    <2>4. CASE CancelDelete
        BY <1>2, <2>4 DEF CancelDelete, TypeOK
    <2>5. CASE OnDelete
        BY <1>2, <2>1, <2>5 DEF OnDelete, TypeOK
    <2> QED
        BY <1>5, <2>2, <2>3, <2>4, <2>5
<1> QED
    BY <1>3, <1>4, <1>5

\* The server and its answers.
LEMMA ServerTypes ==
    ASSUME TypeOK, \/ \E all \in BOOLEAN : Refresh(all)
                   \/ \E u \in updates : ServerUpdate(u) \/ AnswerUpdate(u) \/ UpdateFails(u)
                   \/ ServerDelete \/ AnswerDelete \/ DeleteFails
                   \/ \E id \in audits : AnswerAudit(id)
    PROVE  TypeOK'
<1>1. ASSUME NEW all \in BOOLEAN, Refresh(all) PROVE TypeOK'
    <2>1. Scoped(rows, KeyOf(all)) \subseteq Row
        BY DEF TypeOK, Scoped, InMonth
    <2>2. txns' \in [BOOLEAN -> SUBSET Row]
        BY <1>1, <2>1 DEF Refresh, TypeOK
    <2> QED
        BY <1>1, <2>2 DEF Refresh, TypeOK, drawer_vars
<1>2. ASSUME NEW u \in updates, ServerUpdate(u) PROVE TypeOK'
    <2>1. u \in UpdateRec /\ updates \subseteq UpdateRec
        BY DEF TypeOK, UpdateRec
    <2>2. /\ [u EXCEPT !.state = "done"] \in UpdateRec
          /\ [u EXCEPT !.state = "refused"] \in UpdateRec
        BY <2>1 DEF UpdateRec
    <2>3. updates' \subseteq UpdateRec
        BY <1>2, <2>1, <2>2 DEF ServerUpdate
    <2>4. rows' \subseteq Row
        <3>1. \A r \in rows : r \in Row /\ [r EXCEPT !.category = u.category] \in Row
            BY <2>1 DEF TypeOK, Row, UpdateRec
        <3> QED
            BY <1>2, <3>1 DEF ServerUpdate, Updated
    <2> QED
        BY <1>2, <2>3, <2>4 DEF ServerUpdate, TypeOK, drawer_vars, UpdateRec
<1>3. ASSUME NEW u \in updates, AnswerUpdate(u) PROVE TypeOK'
    BY <1>3 DEF AnswerUpdate, TypeOK, drawer_vars
<1>4. ASSUME NEW u \in updates, UpdateFails(u) PROVE TypeOK'
    <2>1. updates' \subseteq updates /\ updates \subseteq UpdateRec
        BY <1>4 DEF UpdateFails, TypeOK, UpdateRec
    <2>2. doubtful' \subseteq Ids
        <3>1. u.id \in Ids /\ doubtful \subseteq Ids
            BY <2>1 DEF TypeOK, UpdateRec
        <3> QED
            BY <1>4, <3>1 DEF UpdateFails
    <2>3. UNCHANGED <<list, selected, drawer, deletion, audits, askedFor, stray, txns, rows,
                      moves, lastPick>>
        BY <1>4 DEF UpdateFails, drawer_vars
    <2> QED
        BY <2>1, <2>2, <2>3 DEF TypeOK, UpdateRec
<1>5. CASE ServerDelete
    <2>1. rows' \subseteq Row
        BY <1>5 DEF ServerDelete, Removed, TypeOK
    <2> QED
        BY <1>5, <2>1 DEF ServerDelete, TypeOK
<1>6. CASE AnswerDelete
    BY <1>6 DEF AnswerDelete, TypeOK, NoDeletion, ledger_vars
<1>7. CASE DeleteFails
    BY <1>7 DEF DeleteFails, TypeOK, NoDeletion, ledger_vars
<1>8. ASSUME NEW id \in audits, AnswerAudit(id) PROVE TypeOK'
    <2>1. id \in Ids
        BY DEF TypeOK
    <2>2. drawer' \in [txn : Row \union {NoRow}, confirming : BOOLEAN,
                      audit : Ids \union {0}, auditing : BOOLEAN]
        <3>1. \/ \E found \in {id, 0} :
                    drawer' = [drawer EXCEPT !.audit = found, !.auditing = FALSE]
              \/ drawer' = [drawer EXCEPT !.auditing = FALSE]
            BY <1>8, Zenon DEF AnswerAudit
        <3> QED
            <4> DEFINE D == [txn : Row \union {NoRow}, confirming : BOOLEAN,
                             audit : Ids \union {0}, auditing : BOOLEAN]
            <4>1. drawer \in D
                BY DEF TypeOK
            <4>2. \A found \in {id, 0} : [drawer EXCEPT !.audit = found, !.auditing = FALSE] \in D
                BY <2>1, <4>1
            <4>3. [drawer EXCEPT !.auditing = FALSE] \in D
                BY <4>1
            <4> QED
                BY <3>1, <4>2, <4>3, Zenon
    <2>3. stray' \in BOOLEAN
        BY <1>8, Zenon DEF AnswerAudit, TypeOK
    <2> QED
        BY <1>8, <2>2, <2>3 DEF AnswerAudit, TypeOK, ledger_vars
<1> QED
    BY <1>1, <1>2, <1>3, <1>4, <1>5, <1>6, <1>7, <1>8

\* The ways a step changes the page, grouped as the lemmas are.
LEMMA StepCases ==
    ASSUME Next
    PROVE  \/ ToggleMonths \/ Narrow \/ ClearFilters \/ ViewAll
           \/ (\E c \in Categories : ToggleCat(c))
           \/ (\E key \in {"date", "amount"} : ToggleSort(key))
           \/ ToggleSelectAll \/ (\E r \in Shown : ToggleSelect(r))
           \/ (\E c \in Categories : BulkRecategorize(c) \/ RecategorizeDetail(c)
                                     \/ \E r \in Shown : RecategorizeOne(r, c))
           \/ CloseDetail \/ LoadAudit \/ Confirming \/ CancelDelete \/ OnDelete
           \/ (\E r \in Shown : OpenDetail(r))
           \/ (\E all \in BOOLEAN : Refresh(all))
           \/ (\E u \in updates : ServerUpdate(u) \/ AnswerUpdate(u) \/ UpdateFails(u))
           \/ ServerDelete \/ AnswerDelete \/ DeleteFails
           \/ (\E id \in audits : AnswerAudit(id))
BY Zenon DEF Next, User, OnRow

LEMMA StepTypes ==
    ASSUME TypeOK, Next PROVE TypeOK'
<1>1. ASSUME NEW c \in Categories, BulkRecategorize(c) \/ RecategorizeDetail(c)
                                     \/ \E r \in Shown : RecategorizeOne(r, c)
      PROVE  TypeOK'
    BY <1>1, UpdatesAreUpdates, UpdateTypes
<1> QED
    BY <1>1, StepCases, ListTypes, SelectionTypes, DrawerTypes, ServerTypes, Zenon

\* The variables keep their types: the page's lists, ticks, drawer and updates
\* are always of rows of the ledger (Transactions.tsx:79-105).
THEOREM TransactionsTypeCorrect == Spec => []TypeOK
<1>1. Init => TypeOK
    <2> SUFFICES ASSUME Init PROVE TypeOK
        OBVIOUS
    <2>1. DefaultList \in [allMonths : BOOLEAN, filter : [cats : SUBSET Categories, through : Through],
                          sort : [key : {"date", "amount"}, dir : {"asc", "desc"}], visible : Nat]
        BY DEF DefaultList, NoFilter
    <2>2. /\ Closed \in [txn : Row \union {NoRow}, confirming : BOOLEAN,
                         audit : Ids \union {0}, auditing : BOOLEAN]
          /\ NoDeletion \in [id : Ids \union {0}, state : {"none", "sent", "done"}]
        BY DEF Closed, NoDeletion
    <2>3. /\ [all \in BOOLEAN |-> {}] \in [BOOLEAN -> SUBSET Row]
          /\ [id \in Ids |-> "none"] \in [Ids -> Categories \union {"none"}]
        OBVIOUS
    <2>4. stray \in BOOLEAN
        BY Zenon DEF Init
    <2>5. /\ rows \subseteq Row /\ moves \in 0..MaxMoves /\ askedFor \in Ids \union {0}
          /\ selected \subseteq Ids /\ audits \subseteq Ids /\ doubtful \subseteq Ids
          /\ updates \subseteq UpdateRec
        BY DEF Init
    <2> QED
        BY <2>1, <2>2, <2>3, <2>4, <2>5, Zenon DEF Init, TypeOK, UpdateRec
<1>2. TypeOK /\ [Next]_vars => TypeOK'
    <2>1. CASE Next
        BY <2>1, StepTypes
    <2>2. CASE UNCHANGED vars
        BY <2>2 DEF TypeOK, vars
    <2> QED
        BY <2>1, <2>2
<1> QED
    BY <1>1, <1>2, PTL DEF Spec

-----------------------------------------------------------------------------
(* The drawer *)

\* Every step but those of the drawer leaves it alone; opening and closing it
\* drop the confirmation, and the answers of an audit say whose it is.
LEMMA StepKeepsDrawerInv ==
    ASSUME TypeOK, DrawerInv, Next PROVE DrawerInv'
<1> USE DEF DrawerInv, DeletesWhatWasConfirmed, AuditIsOfItsRow
<1>1. ASSUME UNCHANGED drawer_vars PROVE DrawerInv'
    BY <1>1 DEF drawer_vars
<1>2. CASE \E r \in Shown : OpenDetail(r)
    <2>1. PICK r \in Shown : OpenDetail(r)
        BY <1>2
    <2>2. drawer.txn = NoRow /\ drawer' = [drawer EXCEPT !.txn = r] /\ stray' = stray
        BY <2>1 DEF OpenDetail, OnList
    <2> QED
        BY <2>2 DEF TypeOK
<1>3. CASE CloseDetail
    BY <1>3 DEF CloseDetail, TypeOK
<1>4. CASE LoadAudit
    BY <1>4 DEF LoadAudit, TypeOK
<1>5. CASE Confirming
    BY <1>5 DEF Confirming, InDrawer, TypeOK
<1>6. CASE CancelDelete
    BY <1>6 DEF CancelDelete, TypeOK
<1>7. CASE OnDelete
    BY <1>7 DEF OnDelete
<1>8. CASE ServerDelete \/ DeleteFails
    BY <1>8 DEF ServerDelete, DeleteFails
<1>9. CASE AnswerDelete
    <2>1. /\ drawer'.confirming = FALSE /\ drawer'.audit = drawer.audit /\ drawer'.txn = NoRow
        BY <1>9 DEF AnswerDelete, TypeOK
    <2>2. drawer.audit # 0 => stray'
        BY <1>9, Zenon DEF AnswerDelete
    <2> QED
        BY <2>1, <2>2
<1>10. ASSUME NEW id \in audits, AnswerAudit(id) PROVE DrawerInv'
    <2>1. drawer'.txn = drawer.txn /\ drawer'.confirming = drawer.confirming /\ askedFor' = askedFor
        BY <1>10 DEF AnswerAudit, TypeOK
    <2>2. id # 0
        BY DEF TypeOK
    <2>3. CASE \E found \in {id, 0} :
                 /\ drawer' = [drawer EXCEPT !.audit = found, !.auditing = FALSE]
                 /\ stray' = (found # 0 /\ drawer.txn.id # id)
        <3>1. PICK found \in {id, 0} :
                 /\ drawer' = [drawer EXCEPT !.audit = found, !.auditing = FALSE]
                 /\ stray' = (found # 0 /\ drawer.txn.id # id)
            BY <2>3
        <3>2. drawer'.audit = found
            BY <3>1 DEF TypeOK
        <3>3. found # 0 /\ drawer.txn.id # id => stray'
            BY <3>1, Zenon
        <3>4. drawer.txn = NoRow => drawer.txn.id # id
            BY <2>2 DEF NoRow
        <3> QED
            BY <2>1, <2>2, <3>1, <3>2, <3>3, <3>4
    <2>4. CASE drawer' = [drawer EXCEPT !.auditing = FALSE] /\ stray' = stray
        BY <2>1, <2>4 DEF TypeOK
    <2> QED
        BY <1>10, <2>3, <2>4, Zenon DEF AnswerAudit
<1>11. CASE ToggleMonths \/ Narrow \/ ClearFilters \/ ViewAll
             \/ (\E c \in Categories : ToggleCat(c))
             \/ (\E key \in {"date", "amount"} : ToggleSort(key))
    BY <1>1, <1>11 DEF ToggleMonths, Narrow, ClearFilters, ViewAll, ToggleCat, ToggleSort, SetList
<1>12. CASE \/ ToggleSelectAll \/ (\E r \in Shown : ToggleSelect(r))
            \/ (\E all \in BOOLEAN : Refresh(all))
            \/ (\E u \in updates : ServerUpdate(u) \/ AnswerUpdate(u) \/ UpdateFails(u))
    BY <1>1, <1>12 DEF ToggleSelectAll, ToggleSelect, Refresh, ServerUpdate, AnswerUpdate, UpdateFails
<1>13. ASSUME NEW c \in Categories, BulkRecategorize(c) \/ RecategorizeDetail(c)
                                      \/ \E r \in Shown : RecategorizeOne(r, c)
       PROVE  DrawerInv'
    BY <1>1, <1>13, UpdatesAreUpdates
<1> QED
    BY <1>2, <1>3, <1>4, <1>5, <1>6, <1>7, <1>8, <1>9, <1>10, <1>11, <1>12, <1>13, StepCases, Zenon

-----------------------------------------------------------------------------
(* The categories *)

\* An update of rows of which others are under way makes them doubtful.
LEMMA UpdateKeepsPicks ==
    ASSUME TypeOK, PicksInv, Moves, NEW ids \in SUBSET Ids, NEW category \in Categories,
           Update(ids, category)
    PROVE  PicksInv'
<1> SUFFICES ASSUME NEW i \in Ids, i \notin doubtful' PROVE Settling(i)'
    BY DEF PicksInv
<1> DEFINE new(id) == [id |-> id, category |-> category, n |-> moves + 1, state |-> "sent"]
<1>1. /\ updates' = updates \union {new(id) : id \in ids} /\ rows' = rows
      /\ lastPick' = [id \in Ids |-> IF id \in ids THEN category ELSE lastPick[id]]
      /\ i \notin doubtful /\ (i \in ids => \A u \in updates : u.id # i)
    BY DEF Update
<1>2. Settling(i)
    BY <1>1 DEF PicksInv
<1>3. \A id \in ids : new(id).id = id /\ new(id).category = category /\ new(id).state = "sent"
    OBVIOUS
<1> HIDE DEF new
<1>4. CASE i \in ids
    <2>1. \A u \in updates' : u.id = i => u = new(i)
        BY <1>1, <1>3, <1>4
    <2>2. new(i) \in updates' /\ lastPick'[i] = category
        BY <1>1, <1>4
    <2> QED
        BY <2>1, <2>2, <1>3, <1>4 DEF Settling
<1>5. CASE i \notin ids
    <2>1. \A u \in updates' : u.id = i => u \in updates
        BY <1>1, <1>3, <1>5
    <2>2. updates \subseteq updates' /\ lastPick'[i] = lastPick[i]
        BY <1>1, <1>5
    <2> QED
        BY <1>1, <1>2, <2>1, <2>2 DEF Settling
<1> QED
    BY <1>4, <1>5

\* The server applies the one update of a row that is not doubtful.
LEMMA ServerUpdateKeepsPicks ==
    ASSUME TypeOK, PicksInv, NEW u \in updates, ServerUpdate(u)
    PROVE  PicksInv'
<1> SUFFICES ASSUME NEW i \in Ids, i \notin doubtful PROVE Settling(i)'
    BY DEF PicksInv, ServerUpdate
<1>1. Settling(i)
    BY DEF PicksInv
<1>2. PICK v : /\ updates' = (updates \ {u}) \union {v}
               /\ v = [u EXCEPT !.state = IF Found(rows, u.id) THEN "done" ELSE "refused"]
    BY DEF ServerUpdate
<1>3. v.id = u.id /\ v.category = u.category /\ lastPick' = lastPick /\ u.state = "sent"
    BY <1>2 DEF ServerUpdate, TypeOK
<1>4. \A r \in rows : /\ [r EXCEPT !.category = u.category].id = r.id
                      /\ [r EXCEPT !.category = u.category].category = u.category
    BY DEF TypeOK, Row
<1>5. \A s \in rows' : \E r \in rows :
          r.id = s.id /\ IF r.id = u.id THEN s.category = u.category ELSE s = r
    <2> SUFFICES ASSUME NEW r \in rows, NEW s,
                        s = IF r.id = u.id THEN [r EXCEPT !.category = u.category] ELSE r
                 PROVE  r.id = s.id /\ IF r.id = u.id THEN s.category = u.category ELSE s = r
        BY DEF ServerUpdate, Updated
    <2> QED
        BY <1>4
<1>6. CASE u.id = i
    <2>1. \A w \in updates' : w.id = i => w = v
        BY <1>1, <1>2, <1>6 DEF Settling
    <2>2. u.category = lastPick[i]
        BY <1>1, <1>6 DEF Settling
    <2>3. \A s \in rows' : s.id = i => s.category = u.category
        BY <1>5, <1>6
    <2> QED
        BY <1>3, <2>1, <2>2, <2>3 DEF Settling
<1>7. CASE u.id # i
    <2>1. \A w \in updates' : w.id = i => w \in updates
        BY <1>2, <1>3, <1>7
    <2>2. \A w \in updates : w.id = i => w \in updates'
        BY <1>2, <1>7
    <2>3. \A s \in rows' : s.id = i => s \in rows
        BY <1>5, <1>7
    <2> QED
        BY <1>1, <1>3, <2>1, <2>2, <2>3 DEF Settling
<1> QED
    BY <1>6, <1>7

\* Fewer rows, and fewer updates that are not to be applied, change no category.
LEMMA EndsKeepPicks ==
    ASSUME TypeOK, PicksInv,
           \/ \E u \in updates : AnswerUpdate(u) \/ UpdateFails(u)
           \/ ServerDelete
    PROVE  PicksInv'
<1>1. ASSUME NEW u \in updates, AnswerUpdate(u) PROVE PicksInv'
    BY <1>1 DEF AnswerUpdate, PicksInv, Settling
<1>2. ASSUME NEW u \in updates, UpdateFails(u) PROVE PicksInv'
    <2> SUFFICES ASSUME NEW i \in Ids, i \notin doubtful' PROVE Settling(i)'
        BY DEF PicksInv
    <2>1. i # u.id /\ Settling(i) /\ updates' = updates \ {u} /\ UNCHANGED <<rows, lastPick>>
        BY <1>2 DEF UpdateFails, PicksInv
    <2> QED
        BY <2>1 DEF Settling
<1>3. CASE ServerDelete
    BY <1>3 DEF ServerDelete, Removed, PicksInv, Settling
<1> QED
    BY <1>1, <1>2, <1>3

LEMMA StepKeepsPicks ==
    ASSUME TypeOK, PicksInv, Next PROVE PicksInv'
<1>1. ASSUME UNCHANGED <<updates, rows, lastPick, doubtful>> PROVE PicksInv'
    BY <1>1 DEF PicksInv, Settling
<1>2. ASSUME NEW c \in Categories, BulkRecategorize(c) \/ RecategorizeDetail(c)
                                     \/ \E r \in Shown : RecategorizeOne(r, c)
      PROVE  PicksInv'
    BY <1>2, UpdatesAreUpdates, UpdateKeepsPicks
<1>3. CASE ToggleMonths \/ Narrow \/ ClearFilters \/ ViewAll
             \/ (\E c \in Categories : ToggleCat(c))
             \/ (\E key \in {"date", "amount"} : ToggleSort(key))
    BY <1>1, <1>3 DEF ToggleMonths, Narrow, ClearFilters, ViewAll, ToggleCat, ToggleSort,
                      SetList, ledger_vars
<1>4. CASE ToggleSelectAll \/ (\E r \in Shown : ToggleSelect(r))
    BY <1>1, <1>4 DEF ToggleSelectAll, ToggleSelect, ledger_vars
<1>5. CASE \/ CloseDetail \/ LoadAudit \/ Confirming \/ CancelDelete \/ OnDelete
           \/ (\E r \in Shown : OpenDetail(r))
    BY <1>1, <1>5 DEF CloseDetail, LoadAudit, Confirming, CancelDelete, OnDelete, OpenDetail,
                      ledger_vars
<1>6. CASE \/ (\E all \in BOOLEAN : Refresh(all)) \/ AnswerDelete \/ DeleteFails
           \/ (\E id \in audits : AnswerAudit(id))
    BY <1>1, <1>6 DEF Refresh, AnswerDelete, DeleteFails, AnswerAudit, ledger_vars
<1> QED
    BY <1>2, <1>3, <1>4, <1>5, <1>6, StepCases, ServerUpdateKeepsPicks, EndsKeepPicks, Zenon

-----------------------------------------------------------------------------
(* Theorems *)

\* The inductive invariant of the drawer and the categories holds in every
\* reachable state.
THEOREM TransactionsInvariance == Spec => [](DrawerInv /\ PicksInv)
<1>1. Init => DrawerInv /\ PicksInv
    BY DEF Init, DrawerInv, DeletesWhatWasConfirmed, AuditIsOfItsRow, Closed, NoRow, PicksInv, Settling
<1>2. TypeOK /\ DrawerInv /\ PicksInv /\ [Next]_vars => DrawerInv' /\ PicksInv'
    <2> SUFFICES ASSUME TypeOK, DrawerInv, PicksInv, [Next]_vars PROVE DrawerInv' /\ PicksInv'
        OBVIOUS
    <2>1. CASE Next
        BY <2>1, StepKeepsDrawerInv, StepKeepsPicks
    <2>2. CASE UNCHANGED vars
        BY <2>2 DEF vars, DrawerInv, DeletesWhatWasConfirmed, AuditIsOfItsRow, PicksInv, Settling
    <2> QED
        BY <2>1, <2>2
<1> QED
    BY <1>1, <1>2, TransactionsTypeCorrect, PTL DEF Spec

\* The confirmation of a deletion is about the row its button was clicked for
\* (TransactionDetail.tsx:65-86, 161-187), however often the drawer is closed,
\* opened, or closed by the answer of an earlier deletion.
THEOREM ConfirmedIsDeleted == Spec => []DeletesWhatWasConfirmed
<1>1. DrawerInv => DeletesWhatWasConfirmed
    BY DEF DrawerInv
<1> QED
    BY <1>1, TransactionsInvariance, PTL

\* An audit on show is that of the transaction on show, unless its answer came
\* late or a deletion closed its drawer (TransactionDetail.tsx:52-86).
THEOREM AuditIsOwn == Spec => []AuditIsOfItsRow
<1>1. DrawerInv => AuditIsOfItsRow
    BY DEF DrawerInv
<1> QED
    BY <1>1, TransactionsInvariance, PTL

\* A row none of whose updates failed or overlapped ends up in the category picked
\* last, for any number of ticked rows (Transactions.tsx:170-184).
THEOREM LastPickIsKept == Spec => []LastPickWins
<1>1. TypeOK /\ PicksInv => LastPickWins
    <2> SUFFICES ASSUME TypeOK, PicksInv, NEW r \in rows, lastPick[r.id] # "none",
                        r.id \notin doubtful, \A u \in updates : u.id # r.id
                 PROVE  r.category = lastPick[r.id]
        BY DEF LastPickWins
    <2>1. r.id \in Ids
        BY DEF TypeOK, Row
    <2>2. Settling(r.id)
        BY <2>1 DEF PicksInv
    <2> QED
        BY <2>2 DEF Settling
<1> QED
    BY <1>1, TransactionsTypeCorrect, TransactionsInvariance, PTL
=============================================================================
