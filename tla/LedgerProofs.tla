----------------------------- MODULE LedgerProofs -----------------------------
(***************************************************************************)
(* How the client adds a row to the ledger and what it then shows of it:   *)
(* the Quick Add drawer for any ledger, any number of saves and any order  *)
(* of answers, and the cached views and their figures for any ledger,      *)
(* pages, keys, writes and failures.  The two modules have no variable in  *)
(* common.                                                                 *)
(***************************************************************************)
EXTENDS QuickAdd, QueryCache, FiniteSetTheorems, TLAPS

-----------------------------------------------------------------------------
(* The Quick Add drawer *)



\* OneCallAtATime without the equality of two truth values.
Waits ==
    /\ saving => \E c \in calls : c.waited
    /\ (\E c \in calls : c.waited) => saving
    /\ \A c, d \in calls : c.waited /\ d.waited => c = d

\* The calls: numbered as they were made, one waited for at a time, the others
\* given up; only a check is found clear or warned about.
CallsInv ==
    /\ Waits
    /\ \A c \in calls : c.id <= asked /\ (~c.waited => c.id \in broken)
    /\ \A c, d \in calls : c.id = d.id => c = d
    /\ \A c \in calls : c.state \in {"clear", "warned"} => c.verb = "check"

\* The warning is about the pending input, which is what the form holds, but for
\* its date and category, unless the form moved before the warning came; an
\* unmoved form is the one the check under way was asked for.
WarningInv ==
    /\ warning # Nothing => pendingInput = warning
    /\ warning # Nothing /\ ~late =>
          /\ warning.description = form.description
          /\ warning.amount = Input(form).amount
    /\ \A c \in calls : c.verb = "check" /\ c.waited /\ ~c.moved =>
          /\ c.input.description = form.description
          /\ c.input.amount = Input(form).amount
    /\ SavesWhatIsShown

\* The ledger: ids up to the number of rows, a call stores its row when it is
\* done, and what a clear call would double was stored by a call given up, or
\* the clear one was given up itself.
RowsInv ==
    /\ IsFiniteSet(rows)
    /\ \A r \in rows : r.id \in 1..Cardinality(rows) /\ r.call <= asked
    /\ \A c \in calls, r \in rows : c.id = r.call => c.state = "saved"
    /\ \A c \in calls, r \in rows :
          c.state = "clear" /\ SamePurchase(r, c.input, 3) => {r.call, c.id} \intersect broken # {}
    /\ DoubledOnlyWhenConfirmed
    /\ TheViewsAreTold

QInv == TypeOK /\ CallsInv /\ WarningInv /\ RowsInv

-----------------------------------------------------------------------------
(* Types *)

InputFields == [date : Dates, description : Descriptions, category : Categories, amount : Int]

\* 0 stands for an amount not typed yet.
LEMMA MagnitudeType == Magnitudes \union {0} \subseteq Nat
<1> SUFFICES ASSUME NEW m \in Magnitudes \union {0} PROVE m \in Nat
    OBVIOUS
<1>1. CASE m \in Magnitudes
    BY <1>1, QuickAddAssumption
<1>2. CASE m = 0
    BY <1>2
<1> QED
    BY <1>1, <1>2

\* What is sent to the server has the fields of a transaction.
LEMMA InputType ==
    /\ Inputs \subseteq InputFields
    /\ \A v \in Form : Valid(v) => Input(v) \in Inputs
<1>1. ASSUME NEW v \in Form, Valid(v) PROVE Input(v) \in InputFields
    <2>1. 10 * (IF v.kind = "income" THEN v.magnitude ELSE -v.magnitude) \in Int
        <3>1. v.magnitude \in Nat
            BY MagnitudeType DEF Form
        <3> QED
            BY <3>1
    <2>2. v.description \in Descriptions
        BY <1>1 DEF Form, Valid
    <2> QED
        BY <2>1, <2>2 DEF Form, Input, InputFields
<1> QED
    BY <1>1 DEF Inputs

\* The stored row: the fields of the input, the call, and the id.
LEMMA NewRow ==
    ASSUME NEW i \in InputFields, NEW n \in 0..MaxCalls, NEW b \in BOOLEAN, NEW k \in Nat,
           NEW r, 
           r = Spread(Spread(i, [call |-> n, confirmed |-> b]), [id |-> k])
    PROVE  /\ r \in Row
           /\ r.id = k /\ r.call = n /\ r.confirmed = b
           /\ r.date = i.date /\ r.description = i.description /\ r.amount = i.amount
<1>1. /\ DOMAIN i = {"date", "description", "category", "amount"}
      /\ i["date"] \in Dates /\ i["description"] \in Descriptions
      /\ i["category"] \in Categories /\ i["amount"] \in Int
    BY DEF InputFields
<1> DEFINE s == Spread(i, [call |-> n, confirmed |-> b])
<1>2. s = [x \in {"date", "description", "category", "amount", "call", "confirmed"} |->
             IF x \in DOMAIN i THEN i[x] ELSE [call |-> n, confirmed |-> b][x]]
    BY <1>1 DEF Spread
<1> HIDE DEF s
<1>3. r = [x \in {"date", "description", "category", "amount", "call", "confirmed", "id"} |->
             IF x \in DOMAIN s THEN s[x] ELSE [id |-> k][x]]
    BY <1>2 DEF Spread, s
<1>4. /\ DOMAIN s = {"date", "description", "category", "amount", "call", "confirmed"}
      /\ s["date"] = i["date"] /\ s["description"] = i["description"]
      /\ s["category"] = i["category"] /\ s["amount"] = i["amount"]
      /\ s["call"] = n /\ s["confirmed"] = b
    BY <1>1, <1>2
<1>5. r = [id |-> k, date |-> i.date, description |-> i.description, category |-> i.category,
           amount |-> i.amount, call |-> n, confirmed |-> b]
    BY <1>3, <1>4
<1> QED
    BY <1>1, <1>5 DEF Row

\* A field is set to one of its values.
LEMMA FormType ==
    /\ Blank \in Form
    /\ \A v \in Form : /\ \A k \in Kinds : [v EXCEPT !.kind = k] \in Form
                       /\ \A m \in Magnitudes \union {0} : [v EXCEPT !.magnitude = m] \in Form
                       /\ \A d \in Descriptions \union {NoText} : [v EXCEPT !.description = d] \in Form
                       /\ \A d \in Dates : [v EXCEPT !.date = d] \in Form
                       /\ \A c \in Categories : [v EXCEPT !.category = c] \in Form
<1>1. Blank \in Form
    BY QuickAddAssumption DEF Blank, Form, Kinds
<1> QED
    BY <1>1 DEF Form

\* A suggestion changes the category only.
LEMMA SuggestedType ==
    ASSUME NEW v \in Form
    PROVE  /\ Suggested(v) \in Form
           /\ Suggested(v).description = v.description
           /\ Input(Suggested(v)).amount = Input(v).amount
<1> DEFINE s == SuggestCategory(v.description, IF v.kind = "income" THEN 1 ELSE -1)
<1>1. CASE Suggested(v) = v
    BY <1>1
<1>2. CASE Suggested(v) = [v EXCEPT !.category = s] /\ v.description # NoText
    <2>1. v.description \in Descriptions
        BY <1>2 DEF Form
    <2>2. s \in Categories
        BY <2>1, QuickAddAssumption DEF SuggestCategory
    <2> HIDE DEF s
    <2>3. Suggested(v) \in Form
        BY <1>2, <2>2, FormType
    <2>4. /\ Suggested(v).description = v.description
          /\ Suggested(v).magnitude = v.magnitude /\ Suggested(v).kind = v.kind
        BY <1>2 DEF Form
    <2> QED
        BY <2>3, <2>4 DEF Input
<1> QED
    BY <1>1, <1>2 DEF Suggested

\* What a call keeps whatever becomes of it.
Alike(c, d) ==
    /\ c.id = d.id /\ c.verb = d.verb /\ c.input = d.input
    /\ c.shown = d.shown /\ c.late = d.late

\* A movement of the form leaves each call but what it says of it.
LEMMA MovedType ==
    ASSUME calls \subseteq Call
    PROVE  /\ \A x \in Moved : x \in Call
           /\ \A x \in Moved : \E c \in calls :
                 /\ Alike(x, c) /\ x.state = c.state /\ x.waited = c.waited
                 /\ c.waited => x.moved
           /\ \A c \in calls : \E x \in Moved :
                 Alike(x, c) /\ x.state = c.state /\ x.waited = c.waited
           /\ (\A c, d \in calls : c.id = d.id => c = d)
                => \A x, y \in Moved : x.id = y.id => x = y
<1> DEFINE m(c) == [c EXCEPT !.moved = c.moved \/ c.waited]
<1>1. Moved = {m(c) : c \in calls}
    BY DEF Moved
<1>2. ASSUME NEW c \in calls
      PROVE  /\ m(c) \in Call /\ Alike(m(c), c) /\ m(c).state = c.state /\ m(c).waited = c.waited
             /\ c.waited => m(c).moved
    <2>1. c.moved \in BOOLEAN /\ c.waited \in BOOLEAN
        BY DEF Call
    <2>2. (c.moved \/ c.waited) \in BOOLEAN
        BY Zenon
    <2>3. PICK b \in BOOLEAN : b = (c.moved \/ c.waited)
        BY <2>2, Zenon
    <2>4. m(c) = [c EXCEPT !.moved = b] /\ (c.waited => b = TRUE)
        BY <2>1, <2>3, Zenon
    <2> HIDE DEF m
    <2> QED
        BY <2>4 DEF Call, Alike
<1> HIDE DEF m
<1>3. ASSUME \A c, d \in calls : c.id = d.id => c = d,
             NEW x \in Moved, NEW y \in Moved, x.id = y.id
      PROVE  x = y
    <2>1. PICK c \in calls : x = m(c)
        BY <1>1, Zenon
    <2>2. PICK d \in calls : y = m(d)
        BY <1>1, Zenon
    <2>3. c.id = d.id
        BY <1>2, <1>3, <2>1, <2>2 DEF Alike
    <2> QED
        BY <1>3, <2>1, <2>2, <2>3
<1>4. /\ \A x \in Moved : x \in Call
      /\ \A x \in Moved : \E c \in calls :
            /\ Alike(x, c) /\ x.state = c.state /\ x.waited = c.waited
            /\ c.waited => x.moved
      /\ \A c \in calls : \E x \in Moved :
            Alike(x, c) /\ x.state = c.state /\ x.waited = c.waited
    BY <1>1, <1>2, Zenon
<1> QED
    BY <1>3, <1>4, Zenon

\* What the form is edited to is a form, and every edit leads here.
LEMMA EditCase ==
    ASSUME form \in Form, EditField \/ PickCategory
    PROVE  \E v \in Form : Edit(v) /\ categoryTouched' \in {categoryTouched, TRUE}
<1>1. CASE EditField
    BY <1>1, FormType DEF EditField
<1>2. CASE PickCategory
    BY <1>2, FormType DEF PickCategory
<1> QED
    BY <1>1, <1>2


\* The server moves one call on, or forgets one that nobody waits for.
LEMMA ProgressType ==
    ASSUME calls \subseteq Call, NEW c \in calls,
           NEW state \in {"clear", "warned", "saved"}, Progress(c, state)
    PROVE  \E d \in Call :
              /\ Alike(d, c) /\ d.state = state /\ d.waited = c.waited /\ d.moved = c.moved
              /\ \/ calls' = (calls \ {c}) \union {d}
                 \/ calls' = calls \ {c} /\ ~c.waited
<1> DEFINE d == [c EXCEPT !.state = state]
<1>1. d \in Call /\ Alike(d, c) /\ d.state = state /\ d.waited = c.waited /\ d.moved = c.moved
    BY DEF Call, Alike
<1>2. \/ calls' = (calls \ {c}) \union {d}
      \/ calls' = calls \ {c} /\ ~c.waited
    BY DEF Progress
<1> HIDE DEF d
<1> QED
    BY <1>1, <1>2, Zenon

\* A call given up is forgotten once the server is done.
LEMMA LostType ==
    ASSUME calls \subseteq Call, NEW c \in calls, AnswerLost(c)
    PROVE  \E d \in Call :
              /\ Alike(d, c) /\ d.state = c.state /\ ~d.waited /\ d.moved = c.moved
              /\ calls' \in {calls \ {c}, (calls \ {c}) \union {d}}
<1> DEFINE d == [c EXCEPT !.waited = FALSE]
<1>1. d \in Call /\ Alike(d, c) /\ d.state = c.state /\ ~d.waited /\ d.moved = c.moved
    BY DEF Call, Alike
<1>2. calls' \in {calls \ {c}, (calls \ {c}) \union {d}}
    BY DEF AnswerLost
<1> HIDE DEF d
<1> QED
    BY <1>1, <1>2, Zenon

\* A new call.
LEMMA AskType ==
    ASSUME TypeOK, NEW verb \in {"check", "save"}, NEW input \in Inputs, Ask(verb, input)
    PROVE  \E d \in Call :
              /\ d.id = asked + 1 /\ d.verb = verb /\ d.input = input /\ d.state = "sent"
              /\ d.waited /\ ~d.moved /\ d.shown = form /\ d.late = late
              /\ calls' = calls \union {d}
              /\ asked' = asked + 1 /\ asked' \in 1..MaxCalls
<1> DEFINE d == [id |-> asked + 1, verb |-> verb, input |-> input, state |-> "sent",
                 waited |-> TRUE, moved |-> FALSE, shown |-> form, late |-> late]
<1>1. asked + 1 \in 1..MaxCalls /\ asked' = asked + 1
    BY QuickAddAssumption DEF TypeOK, Ask
<1>2. d \in Call
    BY <1>1 DEF TypeOK, Call
<1>3. calls' = calls \union {d}
    BY DEF Ask
<1>4. /\ d.id = asked + 1 /\ d.verb = verb /\ d.input = input /\ d.state = "sent"
      /\ d.waited /\ ~d.moved /\ d.shown = form /\ d.late = late
    OBVIOUS
<1> HIDE DEF d
<1> QED
    BY <1>1, <1>2, <1>3, <1>4, Zenon

\* The row a call stores.
LEMMA SaveType ==
    ASSUME TypeOK, IsFiniteSet(rows), NEW c \in calls, ServerSave(c)
    PROVE  \E r \in Row :
              /\ rows' = rows \union {r}
              /\ r.id = Cardinality(rows) + 1 /\ r.call = c.id
              /\ r.confirmed = (c.verb = "save")
              /\ \A s \in Row, days \in Nat :
                    /\ SamePurchase(s, r, days) <=> SamePurchase(s, c.input, days)
<1> DEFINE k == Cardinality(rows) + 1
           r == Spread(Spread(c.input, [call |-> c.id, confirmed |-> c.verb = "save"]),
                       [id |-> k])
<1>1. k \in Nat
    BY FS_CardinalityType
<1>2. c.input \in InputFields /\ c.id \in 0..MaxCalls
    BY InputType, QuickAddAssumption DEF TypeOK, Call
<1> HIDE DEF k
<1>3. PICK b \in BOOLEAN : b = (c.verb = "save")
    BY Zenon
<1>4. /\ rows' = rows \union {r}
      /\ r = Spread(Spread(c.input, [call |-> c.id, confirmed |-> b]), [id |-> k])
    BY <1>3, Zenon DEF ServerSave, Created, k
<1> HIDE DEF r
<1>5. /\ r \in Row
      /\ r.id = k /\ r.call = c.id /\ r.confirmed = b
      /\ r.date = c.input.date /\ r.description = c.input.description
      /\ r.amount = c.input.amount
    BY <1>1, <1>2, <1>4, NewRow
<1>6. \A s \in Row, days \in Nat : SamePurchase(s, r, days) <=> SamePurchase(s, c.input, days)
    BY <1>5 DEF SamePurchase
<1>7. k = Cardinality(rows) + 1
    BY DEF k
<1> QED
    BY <1>3, <1>4, <1>5, <1>6, <1>7, Zenon

\* Every step keeps the types, and the ledger finite.
LEMMA NextType ==
    ASSUME TypeOK, IsFiniteSet(rows), Next
    PROVE  TypeOK' /\ IsFiniteSet(rows)'
<1>1. CASE Open
    <2>1. calls' \subseteq Call
        BY <1>1, MovedType DEF Open, TypeOK
    <2> QED
        BY <1>1, <2>1, FormType DEF Open, TypeOK
<1>2. CASE Close \/ CancelWarning
    BY <1>2 DEF Close, CancelWarning, TypeOK
<1>3. CASE EditField \/ PickCategory
    <2>1. PICK v \in Form : Edit(v) /\ categoryTouched' \in {categoryTouched, TRUE}
        BY <1>3, EditCase DEF TypeOK
    <2>2. form' \in Form /\ calls' \subseteq Call
        BY <2>1, SuggestedType, MovedType DEF Edit, TypeOK
    <2>3. categoryTouched' \in BOOLEAN /\ warning' \in Inputs \union {Nothing}
        BY <2>1 DEF Edit, TypeOK
    <2> QED
        BY <2>1, <2>2, <2>3 DEF Edit, TypeOK
<1>4. ASSUME NEW verb \in {"check", "save"}, NEW input \in Inputs, Ask(verb, input)
      PROVE  TypeOK' /\ IsFiniteSet(rows)'
    <2>1. calls' \subseteq Call /\ asked' \in 0..MaxCalls
        BY <1>4, AskType, QuickAddAssumption DEF TypeOK
    <2> QED
        BY <1>4, <2>1 DEF Ask, TypeOK
<1>5. CASE Submit \/ SaveAnyway
    <2>1. CASE Submit
        BY <1>4, <2>1, InputType DEF Submit, TypeOK
    <2>2. CASE SaveAnyway
        BY <1>4, <2>2 DEF SaveAnyway, TypeOK
    <2> QED
        BY <1>5, <2>1, <2>2
<1>6. ASSUME NEW c \in calls, ServerCheck(c) PROVE TypeOK' /\ IsFiniteSet(rows)'
    <2>1. calls' \subseteq Call
        BY <1>6, ProgressType DEF ServerCheck, TypeOK
    <2> QED
        BY <1>6, <2>1 DEF ServerCheck, Drawer, TypeOK
<1>7. ASSUME NEW c \in calls, ServerSave(c) PROVE TypeOK' /\ IsFiniteSet(rows)'
    <2>1. calls' \subseteq Call
        BY <1>7, ProgressType DEF ServerSave, TypeOK
    <2>2. rows' \subseteq Row /\ rows \subseteq rows' /\ IsFiniteSet(rows')
        BY <1>7, SaveType, FS_AddElement DEF TypeOK
    <2> QED
        BY <1>7, <2>1, <2>2 DEF ServerSave, Drawer, TypeOK
<1>8. ASSUME NEW c \in calls, AnswerSaved(c) \/ AnswerWarned(c) PROVE TypeOK' /\ IsFiniteSet(rows)'
    <2>1. calls' \subseteq Call
        BY <1>8 DEF AnswerSaved, AnswerWarned, Heard, TypeOK
    <2>2. c.input \in Inputs /\ c.moved \in BOOLEAN
        BY DEF TypeOK, Call
    <2> QED
        BY <1>8, <2>1, <2>2 DEF AnswerSaved, AnswerWarned, TypeOK
<1>9. ASSUME NEW c \in calls, AnswerLost(c) PROVE TypeOK' /\ IsFiniteSet(rows)'
    <2>1. calls' \subseteq Call
        BY <1>9, LostType DEF TypeOK
    <2>2. broken' \subseteq 1..MaxCalls
        BY <1>9 DEF AnswerLost, TypeOK, Call
    <2> QED
        BY <1>9, <2>1, <2>2 DEF AnswerLost, TypeOK
<1> QED
    BY <1>1, <1>2, <1>3, <1>5, <1>6, <1>7, <1>8, <1>9, Zenon DEF Next

-----------------------------------------------------------------------------
(* The calls *)

\* A call waited for is Boolean, a number is an integer.
LEMMA CallFields ==
    ASSUME NEW c \in Call
    PROVE  /\ c.id \in Int /\ c.id \in 1..MaxCalls /\ c.waited \in BOOLEAN /\ c.moved \in BOOLEAN
           /\ c.verb \in {"check", "save"} /\ c.state \in {"sent", "clear", "warned", "saved"}
           /\ c.input \in Inputs /\ c.shown \in Form
BY QuickAddAssumption DEF Call

\* An equality of truth values, once these are known to be such.
LEMMA WaitsIsOneCall ==
    ASSUME TypeOK PROVE OneCallAtATime <=> Waits
<1>1. saving \in BOOLEAN
    BY DEF TypeOK
<1>2. (\E c \in calls : c.waited) \in BOOLEAN
    BY Zenon
<1>3. saving = (\E c \in calls : c.waited)
        <=> (saving => \E c \in calls : c.waited) /\ ((\E c \in calls : c.waited) => saving)
    BY <1>1, <1>2, Zenon
<1> QED
    BY <1>3, Zenon DEF OneCallAtATime, Waits

\* A call is made when none is waited for, and is waited for until its answer.
LEMMA NextCalls ==
    ASSUME TypeOK, IsFiniteSet(rows), CallsInv, Next
    PROVE  CallsInv'
<1> USE CallFields DEF CallsInv, Waits, Alike
<1>0. \A c \in calls : c \in Call
    BY DEF TypeOK
<1>1. CASE calls' = Moved /\ UNCHANGED <<saving, asked, broken>>
    <2>1. /\ \A x \in calls' : \E c \in calls : Alike(x, c) /\ x.state = c.state /\ x.waited = c.waited
          /\ \A c \in calls : \E x \in calls' : Alike(x, c) /\ x.state = c.state /\ x.waited = c.waited
          /\ \A x, y \in calls' : x.id = y.id => x = y
        BY <1>1, MovedType DEF TypeOK
    <2> QED
        BY <1>0, <1>1, <2>1
<1>2. CASE UNCHANGED <<calls, saving, asked, broken>>
    BY <1>2
<1>3. ASSUME NEW verb \in {"check", "save"}, NEW input \in Inputs, ~saving, Ask(verb, input)
      PROVE  CallsInv'
    <2>1. PICK d \in Call :
              /\ d.id = asked + 1 /\ d.state = "sent" /\ d.waited
              /\ calls' = calls \union {d} /\ asked' = asked + 1
        BY <1>3, AskType
    <2>2. asked \in Int /\ saving' /\ broken' = broken
        BY <1>3 DEF Ask, TypeOK
    <2> QED
        BY <1>0, <1>3, <2>1, <2>2
<1>4. ASSUME NEW c \in calls, NEW state \in {"clear", "warned", "saved"}, Progress(c, state),
             state # "saved" => c.verb = "check",
             UNCHANGED <<saving, asked, broken>>
      PROVE  CallsInv'
    <2>1. PICK d \in Call :
              /\ Alike(d, c) /\ d.state = state /\ d.waited = c.waited
              /\ \/ calls' = (calls \ {c}) \union {d}
                 \/ calls' = calls \ {c} /\ ~c.waited
        BY <1>4, ProgressType DEF TypeOK
    <2> QED
        BY <1>0, <1>4, <2>1
<1>5. ASSUME NEW c \in calls, AnswerSaved(c) \/ AnswerWarned(c) PROVE CallsInv'
    BY <1>0, <1>5 DEF AnswerSaved, AnswerWarned, Heard
<1>6. ASSUME NEW c \in calls, AnswerLost(c) PROVE CallsInv'
    <2>1. PICK d \in Call :
              /\ Alike(d, c) /\ d.state = c.state /\ ~d.waited
              /\ calls' \in {calls \ {c}, (calls \ {c}) \union {d}}
        BY <1>6, LostType DEF TypeOK
    <2>2. c.waited /\ ~saving' /\ asked' = asked /\ broken' = broken \union {c.id}
        BY <1>6, Zenon DEF AnswerLost
    <2> QED
        BY <1>0, <2>1, <2>2
<1>7. CASE Open \/ Close \/ CancelWarning
    BY <1>1, <1>2, <1>7 DEF Open, Close, CancelWarning
<1>8. CASE EditField \/ PickCategory
    BY <1>1, <1>8, EditCase DEF Edit, TypeOK
<1>9. CASE Submit \/ SaveAnyway
    BY <1>3, <1>9, InputType DEF Submit, SaveAnyway, TypeOK
<1>10. ASSUME NEW c \in calls, ServerCheck(c) \/ ServerSave(c) PROVE CallsInv'
    BY <1>4, <1>10 DEF ServerCheck, ServerSave, Drawer
<1> QED
    BY <1>5, <1>6, <1>7, <1>8, <1>9, <1>10, Zenon DEF Next

-----------------------------------------------------------------------------
(* The warning and the form *)

\* The pending input follows the form, or the history says that it does not.
LEMMA NextWarning ==
    ASSUME TypeOK, IsFiniteSet(rows), CallsInv, WarningInv, Next
    PROVE  WarningInv'
<1> USE CallFields DEF WarningInv, SavesWhatIsShown, Alike
<1>0. \A c \in calls : c \in Call
    BY DEF TypeOK
<1>1. CASE Open
    <2>1. calls' = Moved /\ warning' = Nothing
        BY <1>1 DEF Open
    <2> QED
        BY <1>0, <2>1, MovedType DEF TypeOK
<1>2. CASE Close \/ CancelWarning
    BY <1>2 DEF Close, CancelWarning
<1>3. ASSUME NEW v \in Form, Edit(v) PROVE WarningInv'
    <2>1. /\ calls' = Moved /\ form' = Suggested(v)
          /\ warning' = IF Dismisses(v) THEN Nothing ELSE warning
          /\ UNCHANGED <<pendingInput, late>>
        BY <1>3 DEF Edit
    <2>2. ~Dismisses(v) => /\ form'.description = form.description
                           /\ Input(form').amount = Input(form).amount
        BY <2>1, SuggestedType DEF Dismisses, Input
    <2> QED
        BY <1>0, <2>1, <2>2, MovedType DEF TypeOK
<1>4. CASE EditField \/ PickCategory
    BY <1>3, <1>4, EditCase DEF TypeOK
<1>5. CASE Submit
    <2>1. Valid(form) /\ Input(form) \in Inputs /\ Ask("check", Input(form)) /\ warning = Nothing
        BY <1>5, InputType DEF Submit, TypeOK
    <2>2. PICK d \in Call :
              /\ d.verb = "check" /\ d.input = Input(form) /\ calls' = calls \union {d}
        BY <2>1, AskType
    <2>3. Input(form).description = form.description
        BY DEF Input
    <2> QED
        BY <1>0, <2>1, <2>2, <2>3 DEF Ask
<1>6. CASE SaveAnyway
    <2>1. /\ Ask("save", pendingInput) /\ pendingInput \in Inputs
          /\ warning # Nothing
        BY <1>6 DEF SaveAnyway, TypeOK
    <2>2. PICK d \in Call :
              /\ d.verb = "save" /\ d.input = pendingInput /\ calls' = calls \union {d}
              /\ d.shown = form /\ d.late = late
        BY <2>1, AskType
    <2> QED
        BY <1>0, <2>1, <2>2 DEF Ask
<1>7. ASSUME NEW c \in calls, ServerCheck(c) \/ ServerSave(c) PROVE WarningInv'
    <2>1. PICK d \in Call :
              /\ Alike(d, c) /\ d.waited = c.waited /\ d.moved = c.moved
              /\ \/ calls' = (calls \ {c}) \union {d}
                 \/ calls' = calls \ {c}
        BY <1>7, ProgressType DEF ServerCheck, ServerSave, TypeOK
    <2> QED
        BY <1>0, <1>7, <2>1 DEF ServerCheck, ServerSave, Drawer
<1>8. ASSUME NEW c \in calls, AnswerSaved(c) PROVE WarningInv'
    BY <1>0, <1>8 DEF AnswerSaved, Heard
<1>9. ASSUME NEW c \in calls, AnswerWarned(c) PROVE WarningInv'
    <2>1. c.verb = "check" /\ c.waited
        BY <1>9 DEF AnswerWarned, CallsInv
    <2> QED
        BY <1>0, <1>9, <2>1 DEF AnswerWarned, Heard
<1>10. ASSUME NEW c \in calls, AnswerLost(c) PROVE WarningInv'
    <2>1. PICK d \in Call :
              /\ Alike(d, c) /\ ~d.waited
              /\ calls' \in {calls \ {c}, (calls \ {c}) \union {d}}
        BY <1>10, LostType DEF TypeOK
    <2> QED
        BY <1>0, <1>10, <2>1 DEF AnswerLost
<1> QED
    BY <1>1, <1>2, <1>4, <1>5, <1>6, <1>7, <1>8, <1>9, <1>10, Zenon DEF Next

-----------------------------------------------------------------------------
(* The ledger *)

\* A step that stores nothing and finds nothing clear keeps what is said of the
\* rows, if it loses no call that is waited for by somebody.
LEMMA SameRows ==
    ASSUME TypeOK, calls' \subseteq Call, CallsInv, RowsInv,
           UNCHANGED rows, asked' \in Int, asked <= asked', broken \subseteq broken',
           refreshed \subseteq refreshed',
           \A x \in calls' :
              \/ \E c \in calls : /\ Alike(x, c)
                                  /\ c.state = "saved" => x.state = "saved"
                                  /\ x.state = "clear" =>
                                        c.state = "clear" \/ Matches(rows, c.input) = {}
              \/ x.id > asked /\ x.state = "sent",
           \A r \in rows \ refreshed' : \A c \in calls : c.id = r.call /\ c.waited =>
              \/ c.id \in broken'
              \/ \E x \in calls' : x.id = c.id /\ x.waited /\ saving'
    PROVE  RowsInv'
<1>0. /\ \A r \in rows : r \in Row /\ r.call \in Int
      /\ asked \in Int
    BY QuickAddAssumption DEF TypeOK, Row
<1>1. \A r \in rows : r.call <= asked'
    BY <1>0 DEF RowsInv
<1>2. \A x \in calls', r \in rows : x.id = r.call => x.state = "saved"
    BY <1>0 DEF RowsInv, Alike
<1>3. \A x \in calls', r \in rows :
          x.state = "clear" /\ SamePurchase(r, x.input, 3) => {r.call, x.id} \intersect broken' # {}
    <2> SUFFICES ASSUME NEW x \in calls', NEW r \in rows,
                        x.state = "clear", SamePurchase(r, x.input, 3)
                 PROVE  {r.call, x.id} \intersect broken' # {}
        OBVIOUS
    <2>1. PICK c \in calls : Alike(x, c) /\ (c.state = "clear" \/ Matches(rows, c.input) = {})
        OBVIOUS
    <2>2. c.input = x.input /\ c.id = x.id
        BY <2>1 DEF Alike
    <2>3. c.state = "clear"
        BY <2>1, <2>2 DEF Matches
    <2> QED
        BY <2>2, <2>3 DEF RowsInv
<1>4. DoubledOnlyWhenConfirmed'
    BY DEF RowsInv, DoubledOnlyWhenConfirmed
<1>5. TheViewsAreTold'
    BY DEF RowsInv, TheViewsAreTold
<1> QED
    BY <1>1, <1>2, <1>3, <1>4, <1>5 DEF RowsInv

\* A save: its row comes after all others, and a purchase of theirs only when it
\* was confirmed or one of the two calls was given up.
LEMMA SaveKeepsRows ==
    ASSUME TypeOK, TypeOK', CallsInv, RowsInv, NEW c \in calls, ServerSave(c)
    PROVE  RowsInv'
<1>0. /\ \A s \in rows : s \in Row /\ s.call \in Int /\ s.id \in Int
      /\ \A d \in calls : d \in Call /\ d.id \in Int
      /\ asked \in Int /\ IsFiniteSet(rows)
    BY QuickAddAssumption DEF TypeOK, Row, Call, RowsInv
<1>1. PICK r \in Row :
          /\ rows' = rows \union {r}
          /\ r.id = Cardinality(rows) + 1 /\ r.call = c.id
          /\ r.confirmed = (c.verb = "save")
          /\ \A s \in Row, days \in Nat :
                SamePurchase(s, r, days) <=> SamePurchase(s, c.input, days)
    BY <1>0, SaveType
<1>2. PICK d \in Call :
          /\ Alike(d, c) /\ d.state = "saved" /\ d.waited = c.waited
          /\ \/ calls' = (calls \ {c}) \union {d}
             \/ calls' = calls \ {c} /\ ~c.waited
    BY ProgressType DEF ServerSave, TypeOK
<1>3. UNCHANGED <<asked, broken, refreshed, saving>>
    BY DEF ServerSave, Drawer
<1>4. /\ c.state \in {"clear", "sent"}
      /\ c.state = "sent" => c.verb = "save"
      /\ c.verb = "check" => c.state = "clear"
    BY DEF ServerSave
<1>5. /\ \A x, y \in calls : x.id = y.id => x = y
      /\ \A x \in calls : x.id <= asked /\ (~x.waited => x.id \in broken)
      /\ \A x, y \in calls : x.waited /\ y.waited => x = y
      /\ c.waited => saving
    BY DEF CallsInv, Waits
<1>6. r \notin rows /\ IsFiniteSet(rows') /\ Cardinality(rows') = Cardinality(rows) + 1
      /\ Cardinality(rows) \in Nat
    <2>1. Cardinality(rows) \in Nat
        BY <1>0, FS_CardinalityType
    <2>2. r \notin rows
        BY <1>1, <2>1 DEF RowsInv
    <2> QED
        BY <1>0, <1>1, <2>1, <2>2, FS_AddElement
<1>7. \A s \in rows' : s.id \in 1..Cardinality(rows') /\ s.call <= asked'
    BY <1>0, <1>1, <1>3, <1>5, <1>6 DEF RowsInv
<1>8. \A x \in calls', s \in rows' : x.id = s.call => x.state = "saved"
    <2> SUFFICES ASSUME NEW x \in calls', NEW s \in rows', x.id = s.call PROVE x.state = "saved"
        OBVIOUS
    <2>1. CASE x = d
        BY <1>2, <2>1
    <2>2. CASE x \in calls /\ x # c
        <3>1. s \in rows
            BY <1>1, <1>5, <2>2
        <3> QED
            BY <2>2, <3>1 DEF RowsInv
    <2> QED
        BY <1>2, <2>1, <2>2
<1>9. \A x \in calls', s \in rows' :
          x.state = "clear" /\ SamePurchase(s, x.input, 3) => {s.call, x.id} \intersect broken' # {}
    <2> SUFFICES ASSUME NEW x \in calls', NEW s \in rows', x.state = "clear", SamePurchase(s, x.input, 3)
                 PROVE  {s.call, x.id} \intersect broken # {}
        BY <1>3
    <2>1. x \in calls /\ x # c
        BY <1>2
    <2>2. CASE s \in rows
        BY <2>1, <2>2 DEF RowsInv
    <2>3. CASE s = r
        <3>1. ~x.waited \/ ~c.waited
            BY <1>5, <2>1
        <3> QED
            BY <1>1, <1>5, <2>1, <2>3, <3>1
    <2> QED
        BY <1>1, <2>2, <2>3
<1>10. DoubledOnlyWhenConfirmed'
    <2> SUFFICES ASSUME NEW s \in rows', NEW t \in rows', s.id < t.id, t.call # 0,
                        SamePurchase(s, t, 3), ~t.confirmed
                 PROVE  {s.call, t.call} \intersect broken # {}
        BY <1>3 DEF DoubledOnlyWhenConfirmed
    <2>1. s \in rows
        BY <1>0, <1>1, <1>6 DEF RowsInv
    <2>2. CASE t \in rows
        BY <2>1, <2>2 DEF RowsInv, DoubledOnlyWhenConfirmed
    <2>3. CASE t = r
        <3>1. c.verb # "save"
            <4>1. ~r.confirmed
                BY <2>3
            <4> QED
                BY <1>1, <4>1, Zenon
        <3>2. c.state = "clear"
            BY <1>0, <1>4, <3>1, CallFields
        <3>3. SamePurchase(s, c.input, 3)
            BY <1>0, <1>1, <2>1, <2>3
        <3> QED
            BY <1>1, <2>1, <2>3, <3>2, <3>3 DEF RowsInv
    <2> QED
        BY <1>1, <2>2, <2>3
<1>11. TheViewsAreTold'
    <2> SUFFICES ASSUME NEW s \in rows', s \notin refreshed, s.call \notin broken
                 PROVE  \E x \in calls' : x.id = s.call /\ x.waited /\ saving
        BY <1>3 DEF TheViewsAreTold
    <2>1. \E x \in calls : x.id = s.call /\ x.waited /\ saving
        BY <1>1, <1>5 DEF RowsInv, TheViewsAreTold
    <2> QED
        BY <1>2, <2>1 DEF Alike
<1> QED
    BY <1>6, <1>7, <1>8, <1>9, <1>10, <1>11 DEF RowsInv

\* What a call that ends leaves unsaid is saved by nobody or given up.
LEMMA NextRows ==
    ASSUME TypeOK, TypeOK', CallsInv, RowsInv, Next
    PROVE  RowsInv'
<1>0. /\ calls \subseteq Call /\ calls' \subseteq Call
      /\ asked \in Int /\ asked' \in Int
      /\ \A c \in calls : c.id \in Int /\ c.id <= asked
    BY QuickAddAssumption DEF TypeOK, Call, CallsInv
<1>1. \A r \in rows \ refreshed : \A c \in calls :
          c.id = r.call /\ c.waited => c.state = "saved" /\ saving
    BY DEF RowsInv, CallsInv, Waits
<1>2. CASE UNCHANGED <<rows, asked, broken, refreshed, saving>> /\ calls' = Moved
    BY <1>0, <1>1, <1>2, MovedType, SameRows DEF Alike
<1>3. CASE UNCHANGED <<rows, asked, broken, refreshed, saving, calls>>
    BY <1>0, <1>1, <1>3, SameRows DEF Alike
<1>4. ASSUME NEW verb \in {"check", "save"}, NEW input \in Inputs, Ask(verb, input) PROVE RowsInv'
    <2>1. PICK d \in Call :
              /\ d.id = asked + 1 /\ d.state = "sent"
              /\ calls' = calls \union {d} /\ asked' = asked + 1
        BY <1>4, AskType
    <2>2. saving' /\ UNCHANGED <<rows, broken, refreshed>>
        BY <1>4 DEF Ask
    <2> QED
        BY <1>0, <2>1, <2>2, SameRows DEF Alike
<1>5. ASSUME NEW c \in calls, ServerCheck(c) PROVE RowsInv'
    <2> DEFINE state == IF Matches(rows, c.input) # {} THEN "warned" ELSE "clear"
    <2>1. /\ Progress(c, state) /\ c.state = "sent"
          /\ UNCHANGED <<rows, asked, broken, refreshed, saving>>
        BY <1>5 DEF ServerCheck, Drawer
    <2>2. PICK d \in Call :
              /\ Alike(d, c) /\ d.state = state /\ d.waited = c.waited
              /\ \/ calls' = (calls \ {c}) \union {d}
                 \/ calls' = calls \ {c} /\ ~c.waited
        BY <1>0, <2>1, ProgressType
    <2> QED
        BY <1>0, <1>1, <2>1, <2>2, SameRows DEF Alike
<1>6. ASSUME NEW c \in calls, AnswerSaved(c) PROVE RowsInv'
    <2>1. /\ calls' = calls \ {c} /\ refreshed' = rows /\ refreshed \subseteq rows
          /\ UNCHANGED <<rows, asked, broken>>
        BY <1>6 DEF AnswerSaved, Heard, TypeOK
    <2> QED
        BY <1>0, <2>1, SameRows DEF Alike
<1>7. ASSUME NEW c \in calls, AnswerWarned(c) PROVE RowsInv'
    <2>1. /\ calls' = calls \ {c} /\ c.waited /\ c.state = "warned"
          /\ UNCHANGED <<rows, asked, broken, refreshed>>
        BY <1>7 DEF AnswerWarned, Heard
    <2>2. \A r \in rows \ refreshed : \A x \in calls : ~(x.id = r.call /\ x.waited)
        BY <1>1, <2>1 DEF CallsInv, Waits
    <2> QED
        BY <1>0, <2>1, <2>2, SameRows DEF Alike
<1>8. ASSUME NEW c \in calls, AnswerLost(c) PROVE RowsInv'
    <2>1. PICK d \in Call :
              /\ Alike(d, c) /\ d.state = c.state
              /\ calls' \in {calls \ {c}, (calls \ {c}) \union {d}}
        BY <1>0, <1>8, LostType
    <2>2. /\ c.waited /\ broken' = broken \union {c.id}
          /\ UNCHANGED <<rows, asked, refreshed>>
        BY <1>8 DEF AnswerLost
    <2>3. \A x \in calls : x.waited => x.id \in broken'
        BY <2>2 DEF CallsInv, Waits
    <2> QED
        BY <1>0, <2>1, <2>2, <2>3, SameRows DEF Alike
<1>9. CASE Open \/ Close \/ CancelWarning
    BY <1>2, <1>3, <1>9 DEF Open, Close, CancelWarning
<1>10. CASE EditField \/ PickCategory
    BY <1>2, <1>10, EditCase DEF Edit, TypeOK
<1>11. CASE Submit \/ SaveAnyway
    BY <1>4, <1>11, InputType DEF Submit, SaveAnyway, TypeOK
<1> QED
    BY <1>5, <1>6, <1>7, <1>8, <1>9, <1>10, <1>11, SaveKeepsRows, Zenon DEF Next

-----------------------------------------------------------------------------
(* Theorems *)

\* The inductive invariant of the drawer, its calls and the ledger holds in every
\* reachable state (QuickAddDrawer.tsx:54-170).
THEOREM QuickAddInvariance == Spec => []QInv
<1>1. Init => QInv
    <2> SUFFICES ASSUME Init PROVE QInv
        OBVIOUS
    <2>1. /\ rows \subseteq Row /\ IsFiniteSet(rows)
          /\ \A r \in rows : r.call = 0 /\ r.id \in 1..Cardinality(rows)
        BY LedgersAssumption DEF Init
    <2>2. TypeOK
        <3>1. form \in Form /\ 0 \in 0..MaxCalls /\ refreshed \subseteq rows
            BY FormType, QuickAddAssumption DEF Init
        <3>2. /\ open = FALSE /\ categoryTouched = FALSE /\ saving = FALSE /\ late = FALSE
              /\ warning = Nothing /\ pendingInput = Nothing
              /\ calls = {} /\ asked = 0 /\ broken = {}
            BY DEF Init
        <3> QED
            BY <2>1, <3>1, <3>2 DEF TypeOK
    <2>3. CallsInv /\ WarningInv
        BY DEF Init, CallsInv, Waits, WarningInv, SavesWhatIsShown
    <2>4. RowsInv
        BY <2>1 DEF Init, RowsInv, DoubledOnlyWhenConfirmed, TheViewsAreTold
    <2> QED
        BY <2>2, <2>3, <2>4 DEF QInv
<1>2. QInv /\ [Next]_vars => QInv'
    <2>1. ASSUME QInv, Next PROVE QInv'
        <3>1. TypeOK' /\ CallsInv' /\ WarningInv'
            BY <2>1, NextType, NextCalls, NextWarning DEF QInv, RowsInv
        <3> QED
            BY <2>1, <3>1, NextRows DEF QInv
    <2>2. ASSUME QInv, UNCHANGED vars PROVE QInv'
        BY <2>2 DEF vars, QInv, TypeOK, CallsInv, Waits, WarningInv, SavesWhatIsShown,
                    RowsInv, DoubledOnlyWhenConfirmed, TheViewsAreTold
    <2> QED
        BY <2>1, <2>2
<1> QED
    BY <1>1, <1>2, PTL DEF Spec

\* The form, the warning, the calls and the rows keep their types, for any texts,
\* amounts, dates and ledger.
THEOREM QuickAddTypeCorrect == Spec => []TypeOK
<1>1. QInv => TypeOK
    BY DEF QInv
<1> QED
    BY <1>1, QuickAddInvariance, PTL

\* One save is waited for at a time, through every closing and opening of the
\* drawer (QuickAddDrawer.tsx:123-154: saving, the disabled buttons).
THEOREM OneCallHolds == Spec => []OneCallAtATime
<1>1. QInv => OneCallAtATime
    BY WaitsIsOneCall DEF QInv, CallsInv
<1> QED
    BY <1>1, QuickAddInvariance, PTL

\* An entry doubles an earlier one only when it was confirmed by Save anyway or
\* the answer of one of the two never came, for any number of saves.
THEOREM DoublesAreConfirmed == Spec => []DoubledOnlyWhenConfirmed
<1>1. QInv => DoubledOnlyWhenConfirmed
    BY DEF QInv, RowsInv
<1> QED
    BY <1>1, QuickAddInvariance, PTL

\* Save anyway saves the purchase on show, unless the form had moved before the
\* warning came (QuickAddDrawer.tsx:109-121, 156-170).
THEOREM ShownIsSaved == Spec => []SavesWhatIsShown
<1>1. QInv => SavesWhatIsShown
    BY DEF QInv, WarningInv
<1> QED
    BY <1>1, QuickAddInvariance, PTL

\* Every saved entry gets to the views, unless its answer never came.
THEOREM SavedIsTold == Spec => []TheViewsAreTold
<1>1. QInv => TheViewsAreTold
    BY DEF QInv, RowsInv
<1> QED
    BY <1>1, QuickAddInvariance, PTL

-----------------------------------------------------------------------------
(* The cached views *)

\* What the proof assumes of the bounds: the loop of listAllTransactions never
\* meets its own.
LedgerFits == Cardinality(Ledger) + MaxMoves <= PageSize * MaxPages

IsFetch(f) ==
    /\ DOMAIN f = {"on", "next", "got", "whole"}
    /\ f.on \in BOOLEAN /\ f.whole \in BOOLEAN

IsQuery(q) ==
    /\ DOMAIN q = {"known", "data", "stale", "fetch", "overtaken"}
    /\ q.known \in BOOLEAN /\ q.stale \in BOOLEAN /\ q.overtaken \in BOOLEAN
    /\ IsFetch(q.fetch)

IsWrite(w) ==
    /\ DOMAIN w = {"n", "kind", "id", "category", "row", "limit", "before", "state", "waited"}
    /\ w.kind \in {"category", "delete", "clear", "create", "budget"}
    /\ w.state \in {"sent", "done", "refused"} /\ w.waited \in BOOLEAN
    /\ w.kind = "category" => w.category \in Categories
    /\ w.kind = "create" => w.row \in NewRows
    /\ w.state = "refused" => w.kind = "category"
    /\ ~w.waited => w.state = "sent"

\* Rows have ids of their own, below the next one to be given.
LedgerOK(all, next) ==
    /\ all \subseteq Stored /\ next \in Nat \ {0}
    /\ \A r \in all : r.id \in 1..(next - 1)
    /\ \A r, s \in all : r.id = s.id => r = s

CacheTyped ==
    /\ DOMAIN cache = Keys
    /\ \A k \in Keys : IsQuery(cache[k])
    /\ \A w \in writes : IsWrite(w)
    /\ moves \in 0..MaxMoves
    /\ LedgerOK(ledger, nextId)

\* The creations that have not reached the ledger.
Pending == {w \in writes : w.kind = "create" /\ w.state = "sent"}

\* No more ids are given out than there are all and moves.
IdsBounded ==
    /\ IsFiniteSet(Pending)
    /\ nextId + Cardinality(Pending) <= Cardinality(Ledger) + 1 + moves

\* The first n all of the list.
Below(all, n) == {r \in all : Rank(all, r) < n}

\* A fetch has got what the ledger now holds, as far as it went.
FetchGood(k) ==
    IF cache[k].fetch.whole THEN cache[k].fetch.got = View(k)
    ELSE Reads[k] = "full" =>
            /\ cache[k].fetch.next \in Nat \ {0}
            /\ cache[k].fetch.got = Below(View(k), (cache[k].fetch.next - 1) * PageSize)

\* No write is under way whose end will make k be read again.
Settled(k) ==
    \A w \in writes :
        k \in Touched(w.kind) /\ w.waited => w.state = "sent" /\ w.kind # "category"
NoneDone(k) ==
    \A w \in writes : k \in Touched(w.kind) /\ w.waited => w.state = "sent"

KeyOK(k) ==
    ~cache[k].overtaken =>
        /\ cache[k].known /\ ~cache[k].stale /\ ~cache[k].fetch.on /\ Settled(k)
              => cache[k].data = View(k)
        /\ cache[k].fetch.on /\ NoneDone(k) => FetchGood(k)

CacheInv == CacheTyped /\ IdsBounded /\ \A k \in Keys : KeyOK(k)

-----------------------------------------------------------------------------
(* The pages of a list *)

\* There are fewer rows than ids given out.
LEMMA LedgerSize ==
    ASSUME NEW all, NEW next, LedgerOK(all, next)
    PROVE  /\ IsFiniteSet(all) /\ Cardinality(all) \in Nat
           /\ Cardinality(all) <= next - 1
  <1> DEFINE id == [r \in all |-> r.id]
  <1>1. next - 1 \in Nat
    BY DEF LedgerOK
  <1>2. IsFiniteSet(1..(next - 1)) /\ Cardinality(1..(next - 1)) = next - 1
    BY <1>1, FS_Interval
  <1>3. id \in Injection(all, 1..(next - 1))
    BY DEF LedgerOK, Injection, IsInjective
  <1>4. IsFiniteSet(all) /\ Cardinality(all) <= next - 1
    BY <1>2, <1>3, FS_Injection
  <1> QED
    BY <1>4, FS_CardinalityType

\* The list is in a strict total order.
LEMMA BeforeOrders ==
    ASSUME NEW all \in SUBSET Stored, \A r, s \in all : r.id = s.id => r = s
    PROVE  /\ \A r \in all : ~Before(r, r)
           /\ \A r, s, q \in all : Before(r, s) /\ Before(s, q) => Before(r, q)
           /\ \A r, s \in all : r # s => Before(r, s) \/ Before(s, r)
  <1>1. \A r \in all : r.date \in Int /\ r.id \in Int
    BY DEF Stored
  <1> QED
    BY <1>1 DEF Before

\* The ranks are the numbers below the number of rows.
LEMMA RanksCount ==
    ASSUME NEW all \in SUBSET Stored, \A r, s \in all : r.id = s.id => r = s,
           IsFiniteSet(all), Cardinality(all) \in Nat
    PROVE  [r \in all |-> Rank(all, r)] \in Bijection(all, 0..(Cardinality(all) - 1))
  <1> DEFINE n == Cardinality(all)
             ahead(r) == {s \in all : Before(s, r)}
             rank == [r \in all |-> Rank(all, r)]
  <1>1. \A r \in all : IsFiniteSet(ahead(r)) /\ Cardinality(ahead(r)) \in Nat
    BY FS_Subset, FS_CardinalityType
  <1>2. ASSUME NEW r \in all
        PROVE  Rank(all, r) \in 0..(n - 1)
    <2>1. ahead(r) \in SUBSET all /\ r \notin ahead(r)
      BY BeforeOrders
    <2> HIDE DEF ahead
    <2>2. Cardinality(ahead(r)) <= n /\ Cardinality(ahead(r)) # n
      BY <2>1, FS_Subset
    <2>3. Rank(all, r) = Cardinality(ahead(r))
      BY DEF Rank, ahead
    <2> QED
      BY <1>1, <2>2, <2>3
  <1>3. ASSUME NEW r \in all, NEW s \in all, Before(r, s)
        PROVE  Rank(all, r) # Rank(all, s)
    <2>1. ahead(r) \in SUBSET ahead(s) /\ r \in ahead(s) /\ r \notin ahead(r)
      BY <1>3, BeforeOrders
    <2>2. Rank(all, r) = Cardinality(ahead(r)) /\ Rank(all, s) = Cardinality(ahead(s))
      BY DEF Rank
    <2> HIDE DEF ahead
    <2> QED
      BY <1>1, <2>1, <2>2, FS_Subset
  <1>4. \A r, s \in all : rank[r] = rank[s] => r = s
    BY <1>3, BeforeOrders
  <1>5. rank \in [all -> 0..(n - 1)]
    BY <1>2
  <1>6. rank \in Injection(all, 0..(n - 1))
    <2> HIDE DEF rank
    <2> QED
      BY <1>4, <1>5 DEF Injection, IsInjective
  <1>7. IsFiniteSet(0..(n - 1)) /\ Cardinality(0..(n - 1)) = n
    BY FS_Interval
  <1> HIDE DEF rank
  <1>8. rank \in Surjection(all, 0..(n - 1))
    BY <1>6, <1>7, FS_Injection
  <1> QED
    BY <1>6, <1>8 DEF Bijection, rank

\* A page adds its all to those before it, a page that is not full is the last,
\* and so is any that reaches beyond the number of rows.
LEMMA PagesAdd ==
    ASSUME NEW all \in SUBSET Stored, \A r, s \in all : r.id = s.id => r = s,
           IsFiniteSet(all), Cardinality(all) \in Nat,
           NEW p \in Nat \ {0}, NEW size \in Nat \ {0}
    PROVE  /\ Below(all, 0) = {}
           /\ Below(all, (p - 1) * size) \union Page(all, p, size) = Below(all, p * size)
           /\ Cardinality(Page(all, p, size)) < size => Below(all, p * size) = all
           /\ Cardinality(all) <= p * size => Below(all, p * size) = all
  <1> DEFINE n == Cardinality(all)
             rank == [r \in all |-> Rank(all, r)]
             a == (p - 1) * size
             b == p * size
  <1>1. rank \in [all -> 0..(n - 1)] /\ rank \in Surjection(all, 0..(n - 1))
    <2>1. rank \in Bijection(all, 0..(n - 1))
      BY RanksCount
    <2> HIDE DEF rank, n
    <2> QED
      BY <2>1 DEF Bijection, Surjection
  <1>2. \A r \in all : Rank(all, r) = rank[r] /\ rank[r] \in 0..(n - 1)
    BY <1>1
  <1>3. a \in Nat /\ b \in Nat /\ b = a + size
    <2>1. p - 1 \in Nat /\ p = (p - 1) + 1
      OBVIOUS
    <2>2. \A m \in Nat : m * size \in Nat /\ (m + 1) * size = m * size + size
      OBVIOUS
    <2> QED
      BY <2>1, <2>2
  <1> HIDE DEF a, b, rank
  <1>4. Below(all, 0) = {}
    BY <1>2 DEF Below
  <1>5. Below(all, a) \union Page(all, p, size) = Below(all, b)
    <2>1. Page(all, p, size) = {r \in all : Rank(all, r) \in a..(b - 1)}
      BY DEF Page, a, b
    <2>2. \A r \in all : Rank(all, r) < b <=> Rank(all, r) < a \/ Rank(all, r) \in a..(b - 1)
      BY <1>2, <1>3
    <2> QED
      BY <2>1, <2>2 DEF Below
  <1>6. ASSUME Cardinality(Page(all, p, size)) < size
        PROVE  Below(all, b) = all
    <2> DEFINE page_ == Page(all, p, size)
               f == [r \in page_ |-> rank[r]]
    <2> SUFFICES ASSUME NEW q \in all, ~(Rank(all, q) < b)
                 PROVE  FALSE
      BY DEF Below
    <2>1. page_ = {r \in all : rank[r] \in a..(b - 1)}
      BY <1>2 DEF Page, a, b
    <2>2. \A i \in a..(b - 1) : i \in 0..(n - 1)
      BY <1>2, <1>3
    <2>3. \A i \in a..(b - 1) : \E r \in page_ : rank[r] = i
      BY <1>1, <2>1, <2>2 DEF Surjection
    <2> HIDE DEF page_
    <2>4. f \in Surjection(page_, a..(b - 1))
      BY <2>1, <2>3 DEF Surjection
    <2>5. IsFiniteSet(page_)
      BY <2>1, FS_Subset
    <2>6. Cardinality(a..(b - 1)) <= Cardinality(page_)
      BY <2>4, <2>5, FS_Surjection
    <2>7. Cardinality(a..(b - 1)) = size
      BY <1>3, FS_Interval
    <2>8. Cardinality(page_) \in Nat /\ Cardinality(page_) < size
      BY <1>6, <2>5, FS_CardinalityType DEF page_
    <2> QED
      BY <2>6, <2>7, <2>8
  <1>7. ASSUME n <= b
        PROVE  Below(all, b) = all
    BY <1>2, <1>3, <1>7 DEF Below
  <1> QED
    BY <1>4, <1>5, <1>6, <1>7 DEF a, b

-----------------------------------------------------------------------------
(* Queries *)

\* A query that need not be looked at: a write overtook it, it starts to be
\* read, or it shows nothing that passes for fresh.
Reset(q) ==
    \/ q.overtaken
    \/ q.fetch = Fetch
    \/ ~q.fetch.on /\ ~(q.known /\ ~q.stale)

\* What each operation of the cache makes of a query.
LEMMA StartedQuery ==
    ASSUME NEW q, IsQuery(q)
    PROVE  IsQuery(Started(q)) /\ Reset(Started(q))
  BY DEF IsQuery, IsFetch, Started, Fetch, NoFetch, Reset

LEMMA UnknownQuery == IsQuery(Unknown) /\ Reset(Unknown)
  BY DEF IsQuery, IsFetch, Unknown, Fetch, NoFetch, Reset

LEMMA CancelledQuery ==
    ASSUME NEW q, IsQuery(q)
    PROVE  /\ IsQuery(Cancelled(q)) /\ ~Cancelled(q).fetch.on
           /\ Cancelled(q).known = q.known /\ Cancelled(q).data = q.data
           /\ Cancelled(q).stale = q.stale /\ Cancelled(q).overtaken = q.overtaken
  BY DEF IsQuery, IsFetch, Cancelled, NoFetch

LEMMA PutQuery ==
    ASSUME NEW q, IsQuery(q), NEW data
    PROVE  /\ IsQuery(Put(q, data)) /\ Put(q, data).data = data
           /\ Put(q, data).fetch = q.fetch /\ Put(q, data).overtaken = q.overtaken
  BY DEF IsQuery, IsFetch, Put

\* A view that is invalidated is read again, not shown as fresh, or counted as
\* overtaken.
LEMMA InvalidatedQuery ==
    ASSUME NEW k, NEW q, IsQuery(q)
    PROVE  IsQuery(Invalidated(k, q)) /\ Reset(Invalidated(k, q))
  <1> DEFINE stale == [q EXCEPT !.stale = q.known]
  <1>1. IsQuery(stale) /\ stale.fetch = q.fetch /\ stale.known = q.known /\ stale.stale = q.known
    BY DEF IsQuery, IsFetch
  <1>2. CASE q.fetch.on /\ (k \notin Watched[page] \/ ~q.known)
    <2>1. Invalidated(k, q) = [stale EXCEPT !.overtaken = TRUE]
      BY <1>2 DEF Invalidated
    <2> QED
      BY <1>1, <2>1 DEF IsQuery, IsFetch, Reset
  <1>3. CASE ~(q.fetch.on /\ (k \notin Watched[page] \/ ~q.known)) /\ k \in Watched[page]
    <2>1. Invalidated(k, q) = Started(stale)
      BY <1>3 DEF Invalidated
    <2> QED
      BY <1>1, <2>1, StartedQuery
  <1>4. CASE ~(q.fetch.on /\ (k \notin Watched[page] \/ ~q.known)) /\ k \notin Watched[page]
    <2>1. Invalidated(k, q) = stale
      BY <1>4 DEF Invalidated
    <2> QED
      BY <1>1, <1>4, <2>1 DEF Reset
  <1> QED
    BY <1>2, <1>3, <1>4

\* The all a view may show are all with ids of their own.
LEMMA ScopedRows ==
    ASSUME NEW all, NEW next, LedgerOK(all, next), NEW month
    PROVE  /\ Scoped(all, month) \in SUBSET Stored
           /\ \A r, s \in Scoped(all, month) : r.id = s.id => r = s
           /\ IsFiniteSet(Scoped(all, month)) /\ Cardinality(Scoped(all, month)) \in Nat
           /\ Cardinality(Scoped(all, month)) <= next - 1
  <1>1. Scoped(all, month) \in SUBSET all
    BY DEF Scoped, InMonth
  <1>2. /\ IsFiniteSet(all) /\ Cardinality(all) \in Nat
        /\ Cardinality(all) <= next - 1
    BY LedgerSize
  <1>3. /\ IsFiniteSet(Scoped(all, month)) /\ Cardinality(Scoped(all, month)) \in Nat
        /\ Cardinality(Scoped(all, month)) <= Cardinality(all)
    BY <1>1, <1>2, FS_Subset, FS_CardinalityType
  <1>4. next - 1 \in Nat
    BY DEF LedgerOK
  <1> QED
    BY <1>1, <1>2, <1>3, <1>4 DEF LedgerOK

\* A fetch that starts has got the empty part of any view.
LEMMA FreshFetch ==
    ASSUME NEW all, NEW next, LedgerOK(all, next), NEW month
    PROVE  Below(Scoped(all, month), (Fetch.next - 1) * PageSize) = {}
  <1>1. PageSize \in Nat \ {0} /\ 1 \in Nat \ {0}
    BY QueryCacheAssumption
  <1>2. (Fetch.next - 1) * PageSize = 0
    BY <1>1 DEF Fetch, NoFetch
  <1>3. Below(Scoped(all, month), 0) = {}
    BY <1>1, ScopedRows, PagesAdd
  <1> QED
    BY <1>2, <1>3

\* Nothing is asked of a query that is reset.
LEMMA ResetIsOK ==
    ASSUME NEW k \in Keys, CacheTyped', Reset(cache[k])'
    PROVE  KeyOK(k)'
  <1>1. CASE cache'[k].overtaken
    BY <1>1 DEF KeyOK
  <1>2. CASE cache'[k].fetch = Fetch
    <2>1. Fetch.on /\ ~Fetch.whole /\ Fetch.next = 1 /\ Fetch.got = {}
      BY DEF Fetch, NoFetch
    <2>2. Reads[k] = "full" => View(k)' = Scoped(ledger', Month[k])
      BY DEF View
    <2>3. Below(Scoped(ledger', Month[k]), (Fetch.next - 1) * PageSize) = {}
      BY FreshFetch DEF CacheTyped
    <2>4. FetchGood(k)'
      BY <1>2, <2>1, <2>2, <2>3 DEF FetchGood
    <2> QED
      BY <1>2, <2>1, <2>4 DEF KeyOK
  <1>3. CASE ~cache'[k].fetch.on /\ ~(cache'[k].known /\ ~cache'[k].stale)
    BY <1>3 DEF KeyOK
  <1> QED
    BY <1>1, <1>2, <1>3 DEF Reset

\* Nothing that matters to k has changed.
Kept(k) ==
    /\ cache'[k].known = cache[k].known /\ cache'[k].data = cache[k].data
    /\ cache'[k].stale = cache[k].stale /\ cache'[k].fetch = cache[k].fetch
    /\ cache'[k].overtaken = cache[k].overtaken

LEMMA KeptIsOK ==
    ASSUME NEW k \in Keys, KeyOK(k), Kept(k), View(k)' = View(k),
           Settled(k)' => Settled(k), NoneDone(k)' => NoneDone(k)
    PROVE  KeyOK(k)'
  <1>1. FetchGood(k) => FetchGood(k)'
    BY DEF FetchGood, Kept
  <1> QED
    BY <1>1 DEF KeyOK, Kept

-----------------------------------------------------------------------------
(* The ledger and the writes *)

\* Every write of the server keeps the ids the rows have.
LEMMA UpdatedKept ==
    ASSUME NEW all, NEW next, LedgerOK(all, next), NEW id, NEW category \in Categories
    PROVE  LedgerOK(Updated(all, id, category), next)
  <1> DEFINE new(r) == IF r.id = id THEN [r EXCEPT !.category = category] ELSE r
  <1>1. ASSUME NEW r \in all
        PROVE  new(r) \in Stored /\ new(r).id = r.id
    BY DEF LedgerOK, Stored
  <1>2. Updated(all, id, category) = {new(r) : r \in all}
    BY DEF Updated
  <1> HIDE DEF new
  <1> QED
    BY <1>1, <1>2 DEF LedgerOK

LEMMA RemovedKept ==
    ASSUME NEW all, NEW next, LedgerOK(all, next), NEW id
    PROVE  LedgerOK(Removed(all, id), next) /\ LedgerOK({}, next)
  BY DEF LedgerOK, Removed

LEMMA CreatedKept ==
    ASSUME NEW all, NEW next, LedgerOK(all, next), NEW row \in NewRows
    PROVE  LedgerOK(Created(all, row, next), next + 1)
  <1> DEFINE s == Spread(row, [id |-> next])
  <1>1. row \in Entered
    BY LedgerAssumption
  <1>2. DOMAIN row = {"date", "description", "amount", "category"}
    BY <1>1 DEF Entered
  <1>3. next \in Nat \ {0}
    BY DEF LedgerOK
  <1>4. s \in Stored /\ s.id = next
    BY <1>1, <1>2, <1>3 DEF Spread, Stored, Entered
  <1>5. Created(all, row, next) = all \union {s}
    BY DEF Created
  <1> HIDE DEF s
  <1>6. all \union {s} \subseteq Stored /\ next + 1 \in Nat \ {0}
    BY <1>3, <1>4 DEF LedgerOK
  <1>7. \A r \in all : r.id \in 1..(next - 1)
    BY DEF LedgerOK
  <1>8. \A r \in all \union {s} : r.id \in 1..((next + 1) - 1)
    BY <1>3, <1>4, <1>7
  <1>9. \A r, q \in all \union {s} : r.id = q.id => r = q
    BY <1>3, <1>4, <1>7 DEF LedgerOK
  <1> QED
    BY <1>5, <1>6, <1>8, <1>9 DEF LedgerOK

\* The row that is sent, under the name the write has.
LEMMA SentWrite ==
    ASSUME NEW w, NEW before, Mutate(w, before),
           DOMAIN w \subseteq {"kind", "id", "category", "row", "limit"}, "kind" \in DOMAIN w,
           w.kind \in {"category", "delete", "clear", "create", "budget"},
           w.kind = "category" => "category" \in DOMAIN w /\ w.category \in Categories,
           w.kind = "create" => "row" \in DOMAIN w /\ w.row \in NewRows
    PROVE  \E s : /\ IsWrite(s) /\ s.kind = w.kind /\ s.state = "sent" /\ s.waited
                  /\ writes' = writes \union {s}
  <1> DEFINE rest == [n |-> moves + 1, id |-> 0, category |-> "none", row |-> NoRow, limit |-> 0,
                      before |-> before, state |-> "sent", waited |-> TRUE]
             s == Spread(w, rest)
  <1>1. writes' = writes \union {s}
    BY DEF Mutate
  <1>2. DOMAIN s = DOMAIN w \union DOMAIN rest
    BY DEF Spread
  <1>3. \A f \in DOMAIN w : s[f] = w[f]
    BY DEF Spread
  <1>4. \A f \in DOMAIN rest : f \notin DOMAIN w => s[f] = rest[f]
    BY DEF Spread
  <1>5. DOMAIN rest = {"n", "id", "category", "row", "limit", "before", "state", "waited"}
        /\ rest.state = "sent" /\ rest.waited = TRUE
    OBVIOUS
  <1> HIDE DEF s, rest
  <1>6. DOMAIN s = {"n", "kind", "id", "category", "row", "limit", "before", "state", "waited"}
    BY <1>2, <1>5
  <1>7. s.kind = w.kind /\ s.state = "sent" /\ s.waited = TRUE
    BY <1>3, <1>4, <1>5
  <1>8. /\ s.kind = "category" => s.category \in Categories
        /\ s.kind = "create" => s.row \in NewRows
    BY <1>3, <1>7
  <1>9. IsWrite(s)
    BY <1>6, <1>7, <1>8 DEF IsWrite
  <1> QED
    BY <1>1, <1>7, <1>9

\* Sets that are no larger than another, but for one element.
LEMMA OneMoreOrLess ==
    ASSUME NEW S, IsFiniteSet(S), NEW T, NEW v, NEW w
    PROVE  /\ T \subseteq S => IsFiniteSet(T) /\ Cardinality(T) <= Cardinality(S)
           /\ T \subseteq S \union {v} => IsFiniteSet(T) /\ Cardinality(T) <= Cardinality(S) + 1
           /\ w \in S /\ T \subseteq S \ {w} =>
                  IsFiniteSet(T) /\ Cardinality(T) + 1 <= Cardinality(S)
           /\ w \in S /\ T \subseteq (S \ {w}) \union {v} =>
                  IsFiniteSet(T) /\ Cardinality(T) <= Cardinality(S)
  <1>1. Cardinality(S) \in Nat
    BY FS_CardinalityType
  <1>2. \A A : IsFiniteSet(A) => \A B : B \subseteq A =>
            IsFiniteSet(B) /\ Cardinality(B) \in Nat /\ Cardinality(B) <= Cardinality(A)
    BY FS_Subset, FS_CardinalityType
  <1>3. \A A : IsFiniteSet(A) => /\ IsFiniteSet(A \union {v})
                                 /\ Cardinality(A) \in Nat /\ Cardinality(A \union {v}) \in Nat
                                 /\ Cardinality(A \union {v}) <= Cardinality(A) + 1
    <2> SUFFICES ASSUME NEW A, IsFiniteSet(A)
                 PROVE  /\ IsFiniteSet(A \union {v})
                        /\ Cardinality(A) \in Nat /\ Cardinality(A \union {v}) \in Nat
                        /\ Cardinality(A \union {v}) <= Cardinality(A) + 1
      OBVIOUS
    <2>1. IsFiniteSet(A \union {v}) /\ Cardinality(A) \in Nat
          /\ Cardinality(A \union {v}) \in {Cardinality(A), Cardinality(A) + 1}
      BY FS_AddElement, FS_CardinalityType
    <2> QED
      BY <2>1
  <1>4. w \in S => IsFiniteSet(S \ {w}) /\ Cardinality(S \ {w}) = Cardinality(S) - 1
    BY FS_RemoveElement
  <1>5. T \subseteq S => IsFiniteSet(T) /\ Cardinality(T) <= Cardinality(S)
    BY <1>2
  <1>6. T \subseteq S \union {v} => IsFiniteSet(T) /\ Cardinality(T) <= Cardinality(S) + 1
    <2>1. IsFiniteSet(S \union {v}) /\ Cardinality(S \union {v}) \in Nat
          /\ Cardinality(S \union {v}) <= Cardinality(S) + 1
      BY <1>3
    <2>2. T \subseteq S \union {v} => IsFiniteSet(T) /\ Cardinality(T) \in Nat
                                      /\ Cardinality(T) <= Cardinality(S \union {v})
      BY <1>2, <2>1
    <2> QED
      BY <1>1, <2>1, <2>2
  <1>7. w \in S /\ T \subseteq S \ {w} => IsFiniteSet(T) /\ Cardinality(T) + 1 <= Cardinality(S)
    <2> SUFFICES ASSUME w \in S, T \subseteq S \ {w}
                 PROVE  IsFiniteSet(T) /\ Cardinality(T) + 1 <= Cardinality(S)
      OBVIOUS
    <2>1. IsFiniteSet(T) /\ Cardinality(T) \in Nat /\ Cardinality(T) <= Cardinality(S \ {w})
      BY <1>2, <1>4
    <2> QED
      BY <1>1, <1>4, <2>1
  <1>8. w \in S /\ T \subseteq (S \ {w}) \union {v} =>
            IsFiniteSet(T) /\ Cardinality(T) <= Cardinality(S)
    <2> SUFFICES ASSUME w \in S, T \subseteq (S \ {w}) \union {v}
                 PROVE  IsFiniteSet(T) /\ Cardinality(T) <= Cardinality(S)
      OBVIOUS
    <2>1. /\ IsFiniteSet((S \ {w}) \union {v})
          /\ Cardinality((S \ {w}) \union {v}) \in Nat
          /\ Cardinality((S \ {w}) \union {v}) <= Cardinality(S \ {w}) + 1
      BY <1>3, <1>4
    <2>2. IsFiniteSet(T) /\ Cardinality(T) \in Nat
          /\ Cardinality(T) <= Cardinality((S \ {w}) \union {v})
      BY <1>2, <2>1
    <2> QED
      BY <1>1, <1>4, <2>1, <2>2
  <1> QED
    BY <1>5, <1>6, <1>7, <1>8

\* A step that adds no write leaves ids enough.
LEMMA FewerPending ==
    ASSUME CacheInv, writes' \subseteq writes, moves' = moves, nextId' = nextId
    PROVE  IdsBounded'
  <1>1. Pending' \subseteq Pending
    BY DEF Pending
  <1>2. /\ IsFiniteSet(Pending)
        /\ nextId + Cardinality(Pending) <= Cardinality(Ledger) + 1 + moves
    BY DEF CacheInv, IdsBounded
  <1>3. /\ IsFiniteSet(Pending') /\ Cardinality(Pending') <= Cardinality(Pending)
    BY <1>1, <1>2, OneMoreOrLess
  <1>4. /\ Cardinality(Pending') \in Nat /\ Cardinality(Pending) \in Nat
        /\ Cardinality(Ledger) \in Nat /\ nextId \in Nat /\ moves \in Nat
    BY <1>2, <1>3, FS_CardinalityType, LedgerAssumption, QueryCacheAssumption
       DEF CacheInv, CacheTyped, LedgerOK
  <1>5. nextId' + Cardinality(Pending') <= Cardinality(Ledger) + 1 + moves'
    BY <1>2, <1>3, <1>4
  <1> QED
    BY <1>3, <1>5 DEF IdsBounded

\* The views depend on the ledger and the budget alone.
LEMMA ViewKept ==
    ASSUME NEW k \in Keys, ledger' = ledger, limit' = limit
    PROVE  View(k)' = View(k)
  BY DEF View, ListTransactions, Budgets

\* What is left to show of a step: the types, the ids, and the views it changes.
LEMMA StepIsOK ==
    ASSUME CacheInv, CacheTyped', IdsBounded',
           \A k \in Keys :
              \/ Reset(cache[k])'
              \/ KeyOK(k)'
              \/ /\ Kept(k) /\ View(k)' = View(k)
                 /\ Settled(k)' => Settled(k)
                 /\ NoneDone(k)' => NoneDone(k)
    PROVE  CacheInv'
  <1>1. ASSUME NEW k \in Keys
        PROVE  KeyOK(k)'
    BY ResetIsOK, KeptIsOK DEF CacheInv
  <1> QED
    BY <1>1 DEF CacheInv

\* A step of a read.
LEMMA ReadIsOK ==
    ASSUME CacheInv, UNCHANGED <<writes, moves, ledger, nextId, limit>>,
           DOMAIN cache' = Keys,
           \A k \in Keys : /\ IsQuery(cache'[k])
                           /\ \/ Reset(cache[k])'
                              \/ KeyOK(k)'
                              \/ cache'[k] = cache[k]
    PROVE  CacheInv'
  <1>1. CacheTyped'
    BY DEF CacheInv, CacheTyped
  <1>2. IdsBounded'
    BY DEF CacheInv, IdsBounded, Pending
  <1>3. ASSUME NEW k \in Keys
        PROVE  /\ cache'[k] = cache[k] => Kept(k)
               /\ View(k)' = View(k)
               /\ Settled(k)' => Settled(k)
               /\ NoneDone(k)' => NoneDone(k)
    BY ViewKept DEF Kept, Settled, NoneDone
  <1> QED
    BY <1>1, <1>2, <1>3, StepIsOK

-----------------------------------------------------------------------------
(* The reads *)

LEMMA InitOK == CacheInit => CacheInv
  <1> SUFFICES ASSUME CacheInit
               PROVE  CacheInv
    OBVIOUS
  <1>1. \A k \in Keys : cache[k] = Started(Unknown) \/ cache[k] = Unknown
    BY DEF CacheInit
  <1>2. \A k \in Keys : IsQuery(cache[k]) /\ Reset(cache[k])
    BY <1>1, StartedQuery, UnknownQuery
  <1>3. IsFiniteSet(Ledger) /\ Cardinality(Ledger) \in Nat
    BY LedgerAssumption, FS_CardinalityType
  <1>4. LedgerOK(ledger, nextId)
    BY <1>3, LedgerAssumption DEF CacheInit, LedgerOK
  <1>5. CacheTyped
    BY <1>2, <1>4, QueryCacheAssumption DEF CacheInit, CacheTyped
  <1>6. Pending = {} /\ nextId = Cardinality(Ledger) + 1 /\ moves = 0
    BY DEF CacheInit, Pending
  <1>7. IdsBounded
    BY <1>3, <1>6, FS_EmptySet DEF IdsBounded
  <1>8. ASSUME NEW k \in Keys
        PROVE  KeyOK(k)
    <2>1. Fetch.on /\ ~Fetch.whole /\ Fetch.next = 1 /\ Fetch.got = {}
      BY DEF Fetch, NoFetch
    <2>2. Reads[k] = "full" => View(k) = Scoped(ledger, Month[k])
      BY DEF View
    <2>3. Below(Scoped(ledger, Month[k]), (Fetch.next - 1) * PageSize) = {}
      BY <1>4, FreshFetch
    <2>4. ASSUME cache[k].fetch = Fetch
          PROVE  FetchGood(k)
      <3>1. cache[k].fetch.next = 1 /\ cache[k].fetch.got = {} /\ ~cache[k].fetch.whole
        BY <2>1, <2>4
      <3>2. Below(Scoped(ledger, Month[k]), (cache[k].fetch.next - 1) * PageSize) = {}
        BY <2>3, <2>4
      <3> QED
        BY <2>2, <3>1, <3>2 DEF FetchGood
    <2>5. CASE cache[k].fetch = Fetch
      BY <2>1, <2>4, <2>5 DEF KeyOK
    <2>6. CASE cache[k].overtaken
      BY <2>6 DEF KeyOK
    <2>7. CASE ~cache[k].fetch.on /\ ~(cache[k].known /\ ~cache[k].stale)
      BY <2>7 DEF KeyOK
    <2>8. Reset(cache[k])
      BY <1>2
    <2> QED
      BY <2>5, <2>6, <2>7, <2>8 DEF Reset
  <1> QED
    BY <1>5, <1>7, <1>8 DEF CacheInv

\* A page that is mounted reads afresh, or leaves its views as they are.
LEMMA VisitOK ==
    ASSUME CacheInv, NEW p, Visit(p)
    PROVE  CacheInv'
  <1>1. /\ DOMAIN cache' = Keys
        /\ \A k \in Keys : cache'[k] = Started(cache[k]) \/ cache'[k] = cache[k]
    BY DEF Visit
  <1>2. \A k \in Keys : IsQuery(cache[k])
    BY DEF CacheInv, CacheTyped
  <1>3. \A k \in Keys : /\ IsQuery(cache'[k])
                        /\ Reset(cache'[k]) \/ cache'[k] = cache[k]
    BY <1>1, <1>2, StartedQuery
  <1>4. CacheTyped'
    BY <1>1, <1>3, QueryCacheAssumption DEF Visit, server_vars, CacheInv, CacheTyped
  <1>5. IdsBounded'
    <2>1. moves' = moves + 1 /\ Pending' = Pending /\ nextId' = nextId /\ moves \in Nat
      BY QueryCacheAssumption DEF Visit, server_vars, Pending, CacheInv, CacheTyped
    <2>2. Cardinality(Ledger) \in Nat /\ nextId \in Nat /\ Cardinality(Pending) \in Nat
      BY LedgerAssumption, FS_CardinalityType
         DEF CacheInv, CacheTyped, LedgerOK, IdsBounded
    <2> QED
      BY <2>1, <2>2 DEF CacheInv, IdsBounded
  <1>6. ASSUME NEW k \in Keys
        PROVE  /\ cache'[k] = cache[k] => Kept(k)
               /\ View(k)' = View(k)
               /\ Settled(k)' => Settled(k)
               /\ NoneDone(k)' => NoneDone(k)
    BY ViewKept DEF Visit, server_vars, Kept, Settled, NoneDone
  <1>7. \A k \in Keys : Reset(cache[k])' \/ Kept(k)
    BY <1>3, <1>6 DEF Reset
  <1> QED
    BY <1>4, <1>5, <1>6, <1>7, StepIsOK

LEMMA CollectOK ==
    ASSUME CacheInv, NEW k \in Keys, Collect(k)
    PROVE  CacheInv'
  <1>1. DOMAIN cache = Keys /\ \A j \in Keys : IsQuery(cache[j])
    BY DEF CacheInv, CacheTyped
  <1>2. DOMAIN cache' = Keys /\ cache'[k] = Unknown
        /\ \A j \in Keys : j # k => cache'[j] = cache[j]
    BY <1>1 DEF Collect
  <1>3. \A j \in Keys : IsQuery(cache'[j]) /\ (Reset(cache[j])' \/ cache'[j] = cache[j])
    BY <1>1, <1>2, UnknownQuery DEF Reset
  <1>4. UNCHANGED <<writes, moves, ledger, nextId, limit>>
    BY DEF Collect, server_vars
  <1> QED
    BY <1>2, <1>3, <1>4, ReadIsOK

LEMMA ReadFailsOK ==
    ASSUME CacheInv, NEW k \in Keys, ReadFails(k)
    PROVE  CacheInv'
  <1>1. DOMAIN cache = Keys /\ \A j \in Keys : IsQuery(cache[j])
    BY DEF CacheInv, CacheTyped
  <1>2. DOMAIN cache' = Keys /\ \A j \in Keys : j # k => cache'[j] = cache[j]
    BY <1>1 DEF ReadFails
  <1>3. \/ cache'[k] = [cache[k] EXCEPT !.fetch = Fetch]
        \/ cache'[k] = [cache[k] EXCEPT !.fetch = NoFetch, !.stale = cache[k].known]
    BY <1>1 DEF ReadFails
  <1>4. IsQuery(cache[k]) /\ IsFetch(Fetch) /\ IsFetch(NoFetch) /\ ~NoFetch.on
    BY <1>1 DEF IsFetch, Fetch, NoFetch
  <1>5. IsQuery(cache'[k]) /\ Reset(cache'[k])
    <2>1. CASE cache'[k] = [cache[k] EXCEPT !.fetch = Fetch]
      BY <1>4, <2>1 DEF IsQuery, Reset
    <2>2. CASE cache'[k] = [cache[k] EXCEPT !.fetch = NoFetch, !.stale = cache[k].known]
      BY <1>4, <2>2 DEF IsQuery, Reset
    <2> QED
      BY <1>3, <2>1, <2>2
  <1>6. \A j \in Keys : IsQuery(cache'[j]) /\ (Reset(cache[j])' \/ cache'[j] = cache[j])
    BY <1>1, <1>2, <1>5 DEF Reset
  <1>7. UNCHANGED <<writes, moves, ledger, nextId, limit>>
    BY DEF ReadFails, server_vars
  <1> QED
    BY <1>2, <1>6, <1>7, ReadIsOK

\* A page of a list is added to those before it; the last one makes it whole.
LEMMA ServerReadOK ==
    ASSUME CacheInv, LedgerFits, NEW k \in Keys, ServerRead(k)
    PROVE  CacheInv'
  <1> DEFINE f == cache[k].fetch
             g == ReadOf(f, k)
             all == Scoped(ledger, Month[k])
             part == Page(all, f.next, PageSize)
  <1>1. DOMAIN cache = Keys /\ \A j \in Keys : IsQuery(cache[j])
    BY DEF CacheInv, CacheTyped
  <1>2. /\ DOMAIN cache' = Keys /\ \A j \in Keys : j # k => cache'[j] = cache[j]
        /\ cache'[k] = [cache[k] EXCEPT !.fetch = g]
    BY <1>1 DEF ServerRead
  <1>3. UNCHANGED <<writes, moves, ledger, nextId, limit>>
    BY DEF ServerRead, server_vars
  <1>4. IsFetch(f) /\ f.on /\ ~f.whole
    BY <1>1 DEF IsQuery, ServerRead
  <1>5. \/ Reads[k] = "list" /\ g = [f EXCEPT !.got = ListTransactions(k), !.whole = TRUE]
        \/ Reads[k] = "budgets" /\ g = [f EXCEPT !.got = Budgets(k), !.whole = TRUE]
        \/ Reads[k] = "full" /\ g = ListAllTransactions(f, k)
    BY QueryCacheAssumption DEF ReadOf
  <1>6. /\ IsFetch(g) /\ g.on
        /\ Reads[k] \in {"list", "budgets"} => g.whole /\ g.got = View(k)
        /\ Reads[k] = "full" =>
             /\ g.next = f.next + 1 /\ g.got = f.got \union part
             /\ g.whole <=> (Cardinality(part) < PageSize \/ f.next = MaxPages)
    <2>1. CASE Reads[k] = "list" /\ g = [f EXCEPT !.got = ListTransactions(k), !.whole = TRUE]
      BY <1>4, <2>1 DEF IsFetch, View
    <2>2. CASE Reads[k] = "budgets" /\ g = [f EXCEPT !.got = Budgets(k), !.whole = TRUE]
      BY <1>4, <2>2 DEF IsFetch, View
    <2>3. CASE Reads[k] = "full" /\ g = ListAllTransactions(f, k)
      <3> DEFINE last == Cardinality(part) < PageSize \/ f.next = MaxPages
      <3>1. g = [f EXCEPT !.next = @ + 1, !.got = @ \union part, !.whole = last]
        BY <2>3 DEF ListAllTransactions
      <3>2. last \in BOOLEAN
        OBVIOUS
      <3> HIDE DEF last, g, part
      <3>3. IsFetch(g) /\ g.on /\ g.next = f.next + 1 /\ g.got = f.got \union part
            /\ (g.whole <=> last)
        BY <1>4, <3>1, <3>2 DEF IsFetch
      <3> QED
        BY <2>3, <3>3 DEF last
    <2> QED
      BY <1>5, <2>1, <2>2, <2>3
  <1> HIDE DEF f, g
  <1>7. /\ IsQuery(cache'[k]) /\ cache'[k].fetch = g /\ cache'[k].known = cache[k].known
        /\ cache'[k].overtaken = cache[k].overtaken
    BY <1>1, <1>2, <1>6 DEF IsQuery
  <1>8. View(k)' = View(k) /\ NoneDone(k)' = NoneDone(k)
    BY <1>3, ViewKept DEF NoneDone
  <1>9. ASSUME FetchGood(k)
        PROVE  FetchGood(k)'
    <2>1. CASE Reads[k] \in {"list", "budgets"}
      BY <1>6, <1>7, <1>8, <2>1 DEF FetchGood
    <2>2. CASE Reads[k] = "full"
      <3>1. View(k) = all
        BY <2>2 DEF View
      <3>2. f.next \in Nat \ {0} /\ f.got = Below(all, (f.next - 1) * PageSize)
        BY <1>4, <1>9, <2>2, <3>1 DEF FetchGood, f
      <3>3. PageSize \in Nat \ {0} /\ MaxPages \in Nat \ {0} /\ MaxMoves \in Nat
        BY QueryCacheAssumption
      <3>4. /\ all \in SUBSET Stored /\ \A r, s \in all : r.id = s.id => r = s
            /\ IsFiniteSet(all) /\ Cardinality(all) \in Nat
            /\ Cardinality(all) <= nextId - 1
        BY ScopedRows DEF CacheInv, CacheTyped
      <3> HIDE DEF all
      <3>5. /\ Below(all, (f.next - 1) * PageSize) \union part = Below(all, f.next * PageSize)
            /\ Cardinality(part) < PageSize => Below(all, f.next * PageSize) = all
            /\ Cardinality(all) <= f.next * PageSize => Below(all, f.next * PageSize) = all
        <4> DEFINE p == f.next
        <4>1. p \in Nat \ {0}
          BY <3>2
        <4> HIDE DEF p
        <4>2. /\ Below(all, (p - 1) * PageSize) \union Page(all, p, PageSize)
                 = Below(all, p * PageSize)
              /\ Cardinality(Page(all, p, PageSize)) < PageSize => Below(all, p * PageSize) = all
              /\ Cardinality(all) <= p * PageSize => Below(all, p * PageSize) = all
          BY <3>3, <3>4, <4>1, PagesAdd, Zenon
        <4> QED
          BY <4>2 DEF p
      <3>6. Cardinality(all) <= PageSize * MaxPages
        <4>1. /\ nextId \in Nat /\ Cardinality(Pending) \in Nat /\ Cardinality(Ledger) \in Nat
              /\ moves \in 0..MaxMoves
          BY LedgerAssumption, FS_CardinalityType
             DEF CacheInv, CacheTyped, LedgerOK, IdsBounded
        <4>2. nextId + Cardinality(Pending) <= Cardinality(Ledger) + 1 + moves
          BY DEF CacheInv, IdsBounded
        <4>3. PageSize * MaxPages \in Nat
          BY <3>3
        <4> DEFINE bound == PageSize * MaxPages
        <4>4. Cardinality(Ledger) + MaxMoves <= bound
          BY DEF LedgerFits
        <4> HIDE DEF bound
        <4> QED
          BY <3>3, <3>4, <4>1, <4>2, <4>3, <4>4 DEF bound
      <3>7. MaxPages * PageSize = PageSize * MaxPages
        BY <3>3
      <3>8. g.whole => g.got = all
        BY <1>6, <2>2, <3>2, <3>5, <3>6, <3>7
      <3>9. g.next \in Nat \ {0} /\ g.next - 1 = f.next
        BY <1>6, <2>2, <3>2
      <3>10. ~g.whole => g.got = Below(all, (g.next - 1) * PageSize)
        BY <1>6, <2>2, <3>2, <3>5, <3>9
      <3> QED
        BY <1>7, <1>8, <3>1, <3>8, <3>9, <3>10 DEF FetchGood
    <2> QED
      BY <2>1, <2>2, QueryCacheAssumption
  <1>10. KeyOK(k)'
    <2>1. KeyOK(k) /\ f.on
      BY <1>4 DEF CacheInv
    <2>2. g.on
      BY <1>6
    <2> QED
      BY <1>7, <1>8, <1>9, <2>1, <2>2 DEF KeyOK, f
  <1>11. \A j \in Keys : IsQuery(cache'[j]) /\ (KeyOK(j)' \/ cache'[j] = cache[j])
    BY <1>1, <1>2, <1>7, <1>10
  <1> QED
    BY <1>2, <1>3, <1>11, ReadIsOK

\* The answer of a whole read is the view, unless a write has been done since.
LEMMA AnswerReadOK ==
    ASSUME CacheInv, NEW k \in Keys, AnswerRead(k)
    PROVE  CacheInv'
  <1> DEFINE q == cache[k]
             p == Put(q, q.fetch.got)
  <1>1. DOMAIN cache = Keys /\ \A j \in Keys : IsQuery(cache[j])
    BY DEF CacheInv, CacheTyped
  <1>2. /\ DOMAIN cache' = Keys /\ \A j \in Keys : j # k => cache'[j] = cache[j]
        /\ cache'[k] = [p EXCEPT !.fetch = NoFetch]
    BY <1>1 DEF AnswerRead
  <1>3. UNCHANGED <<writes, moves, ledger, nextId, limit>>
    BY DEF AnswerRead, server_vars
  <1>4. /\ IsQuery(p) /\ p.data = q.fetch.got /\ p.overtaken = q.overtaken
    BY <1>1, PutQuery
  <1>5. IsFetch(NoFetch) /\ ~NoFetch.on
    BY DEF IsFetch, NoFetch
  <1> HIDE DEF p
  <1>6. /\ IsQuery(cache'[k]) /\ cache'[k].data = q.fetch.got
        /\ cache'[k].overtaken = q.overtaken /\ ~cache'[k].fetch.on
    BY <1>2, <1>4, <1>5 DEF IsQuery
  <1>7. View(k)' = View(k) /\ (Settled(k)' => NoneDone(k))
    BY <1>3, ViewKept DEF NoneDone, Settled
  <1>8. ~q.overtaken /\ NoneDone(k) => q.fetch.got = View(k)
    BY DEF AnswerRead, CacheInv, KeyOK, FetchGood
  <1>9. KeyOK(k)'
    BY <1>6, <1>7, <1>8 DEF KeyOK
  <1>10. \A j \in Keys : IsQuery(cache'[j]) /\ (KeyOK(j)' \/ cache'[j] = cache[j])
    BY <1>1, <1>2, <1>6, <1>9
  <1> QED
    BY <1>2, <1>3, <1>10, ReadIsOK

-----------------------------------------------------------------------------
(* The writes *)

LEMMA TouchedKeys ==
    /\ \A kind : kind # "budget" => Touched(kind) = Keys
    /\ \A k \in Keys : k \notin Touched("budget") => Reads[k] # "budgets"
  BY DEF Touched, Lists

\* One more write that the server has not seen.
LEMMA SentIsOK ==
    ASSUME CacheInv, NEW s, IsWrite(s), s.state = "sent", s.waited,
           writes' = writes \union {s}, moves < MaxMoves, moves' = moves + 1,
           UNCHANGED server_vars
    PROVE  /\ \A w \in writes' : IsWrite(w)
           /\ moves' \in 0..MaxMoves /\ LedgerOK(ledger, nextId)' /\ IdsBounded'
           /\ \A k \in Keys : /\ View(k)' = View(k)
                              /\ Settled(k)' => Settled(k)
                              /\ NoneDone(k)' => NoneDone(k)
                              /\ s.kind = "category" => ~Settled(k)'
  <1>1. /\ \A w \in writes : IsWrite(w)
        /\ moves \in 0..MaxMoves /\ LedgerOK(ledger, nextId)
        /\ IdsBounded
    BY DEF CacheInv, CacheTyped
  <1>2. (\A w \in writes' : IsWrite(w)) /\ LedgerOK(ledger, nextId)'
    BY <1>1 DEF server_vars
  <1>3. moves' \in 0..MaxMoves
    BY <1>1, QueryCacheAssumption
  <1>4. IdsBounded'
    <2>1. Pending' \subseteq Pending \union {s} /\ nextId' = nextId
      BY DEF Pending, server_vars
    <2>2. IsFiniteSet(Pending') /\ Cardinality(Pending') <= Cardinality(Pending) + 1
      BY <1>1, <2>1, OneMoreOrLess DEF IdsBounded
    <2>3. /\ Cardinality(Pending) \in Nat /\ Cardinality(Pending') \in Nat
          /\ Cardinality(Ledger) \in Nat /\ nextId \in Nat /\ moves \in Nat
      BY <1>1, <2>2, FS_CardinalityType, LedgerAssumption, QueryCacheAssumption
         DEF IdsBounded, LedgerOK
    <2>4. nextId + Cardinality(Pending) <= Cardinality(Ledger) + 1 + moves
      BY <1>1 DEF IdsBounded
    <2> DEFINE P == Pending
               Q == Pending'
    <2> HIDE DEF P, Q
    <2>5. nextId' + Cardinality(Pending') <= Cardinality(Ledger) + 1 + moves'
      BY <2>1, <2>2, <2>3, <2>4
    <2> QED
      BY <2>2, <2>5 DEF IdsBounded
  <1>5. ASSUME NEW k \in Keys
        PROVE  /\ View(k)' = View(k)
               /\ Settled(k)' => Settled(k)
               /\ NoneDone(k)' => NoneDone(k)
               /\ s.kind = "category" => ~Settled(k)'
    <2>1. View(k)' = View(k)
      BY ViewKept DEF server_vars
    <2>2. (Settled(k)' => Settled(k)) /\ (NoneDone(k)' => NoneDone(k))
      BY DEF Settled, NoneDone
    <2>3. s.kind = "category" => ~Settled(k)'
      BY TouchedKeys DEF Settled
    <2> QED
      BY <2>1, <2>2, <2>3
  <1> QED
    BY <1>2, <1>3, <1>4, <1>5

\* A write the cache does not know of yet.
LEMMA PlainWriteOK ==
    ASSUME CacheInv, NEW w, Mutate(w, <<>>), UNCHANGED cache,
           DOMAIN w \subseteq {"kind", "id", "category", "row", "limit"}, "kind" \in DOMAIN w,
           w.kind \in {"delete", "clear", "create", "budget"},
           w.kind = "create" => "row" \in DOMAIN w /\ w.row \in NewRows
    PROVE  CacheInv'
  <1>1. PICK s : /\ IsWrite(s) /\ s.kind = w.kind /\ s.state = "sent" /\ s.waited
                 /\ writes' = writes \union {s}
    BY SentWrite
  <1>2. /\ \A v \in writes' : IsWrite(v)
        /\ moves' \in 0..MaxMoves /\ LedgerOK(ledger, nextId)' /\ IdsBounded'
        /\ \A k \in Keys : /\ View(k)' = View(k)
                           /\ Settled(k)' => Settled(k)
                           /\ NoneDone(k)' => NoneDone(k)
    BY <1>1, SentIsOK DEF Mutate
  <1>3. CacheTyped'
    BY <1>2 DEF CacheInv, CacheTyped
  <1>4. \A k \in Keys : Kept(k)
    BY DEF Kept
  <1> QED
    BY <1>2, <1>3, <1>4, StepIsOK

\* The optimistic update: no list is settled before its answer.
LEMMA UpdateCategoryOK ==
    ASSUME CacheInv, NEW id, NEW category \in Categories, UpdateCategory(id, category)
    PROVE  CacheInv'
  <1> DEFINE w == [kind |-> "category", id |-> id, category |-> category]
             q == [k \in Keys |-> IF k \in Lists THEN Cancelled(cache[k]) ELSE cache[k]]
             before == [k \in {l \in Lists : q[l].known} |-> q[k].data]
  <1>1. DOMAIN cache = Keys /\ \A k \in Keys : IsQuery(cache[k])
    BY DEF CacheInv, CacheTyped
  <1>2. Mutate(w, before)
    BY DEF UpdateCategory
  <1>3. PICK s : /\ IsWrite(s) /\ s.kind = w.kind /\ s.state = "sent" /\ s.waited
                 /\ writes' = writes \union {s}
    <2> HIDE DEF before
    <2> QED
      BY <1>2, SentWrite
  <1>4. /\ \A v \in writes' : IsWrite(v)
        /\ moves' \in 0..MaxMoves /\ LedgerOK(ledger, nextId)' /\ IdsBounded'
        /\ \A k \in Keys : /\ View(k)' = View(k)
                           /\ NoneDone(k)' => NoneDone(k)
                           /\ ~Settled(k)'
    BY <1>2, <1>3, SentIsOK DEF Mutate
  <1>5. DOMAIN cache' = Keys
    BY DEF UpdateCategory
  <1>6. ASSUME NEW k \in Keys
        PROVE  IsQuery(cache'[k]) /\ KeyOK(k)'
    <2>1. CASE k \in Lists
      <3> DEFINE c == Cancelled(cache[k])
      <3>1. q[k] = c /\ IsQuery(c) /\ ~c.fetch.on
        BY <1>1, <2>1, CancelledQuery
      <3>2. cache'[k] = IF c.known THEN Put(c, Updated(c.data, id, category)) ELSE c
        BY <2>1, <3>1 DEF UpdateCategory
      <3> HIDE DEF c
      <3>3. IsQuery(cache'[k]) /\ ~cache'[k].fetch.on
        BY <3>1, <3>2, PutQuery
      <3> QED
        BY <1>4, <3>3 DEF KeyOK
    <2>2. CASE k \notin Lists
      <3>1. cache'[k] = cache[k]
        BY <2>2 DEF UpdateCategory
      <3>2. FetchGood(k) => FetchGood(k)'
        BY <1>4, <3>1 DEF FetchGood
      <3>3. KeyOK(k)
        BY DEF CacheInv
      <3> QED
        BY <1>1, <1>4, <3>1, <3>2, <3>3 DEF KeyOK
    <2> QED
      BY <2>1, <2>2
  <1>7. CacheTyped'
    BY <1>4, <1>5, <1>6 DEF CacheTyped
  <1> QED
    BY <1>4, <1>6, <1>7, StepIsOK

LEMMA UserOK ==
    ASSUME CacheInv, User
    PROVE  CacheInv'
  <1>1. ASSUME NEW r \in ShownRows, NEW c \in Categories, UpdateCategory(r.id, c)
        PROVE  CacheInv'
    BY <1>1, UpdateCategoryOK
  <1>2. ASSUME NEW r \in ShownRows, DeleteTransaction(r.id)
        PROVE  CacheInv'
    <2> DEFINE w == [kind |-> "delete", id |-> r.id]
    <2>1. Mutate(w, <<>>) /\ UNCHANGED cache
      BY <1>2 DEF DeleteTransaction
    <2>2. DOMAIN w = {"kind", "id"} /\ w.kind = "delete"
      OBVIOUS
    <2> HIDE DEF w
    <2> QED
      BY <2>1, <2>2, PlainWriteOK
  <1>3. ASSUME ClearAll
        PROVE  CacheInv'
    <2> DEFINE w == [kind |-> "clear"]
    <2>1. Mutate(w, <<>>) /\ UNCHANGED cache
      BY <1>3 DEF ClearAll
    <2>2. DOMAIN w = {"kind"} /\ w.kind = "clear"
      OBVIOUS
    <2> HIDE DEF w
    <2> QED
      BY <2>1, <2>2, PlainWriteOK
  <1>4. ASSUME NEW cap \in Limits, SetBudget(cap)
        PROVE  CacheInv'
    <2> DEFINE w == [kind |-> "budget", limit |-> cap]
    <2>1. Mutate(w, <<>>) /\ UNCHANGED cache
      BY <1>4 DEF SetBudget
    <2>2. DOMAIN w = {"kind", "limit"} /\ w.kind = "budget"
      OBVIOUS
    <2> HIDE DEF w
    <2> QED
      BY <2>1, <2>2, PlainWriteOK
  <1>5. ASSUME NEW row \in NewRows, CreateTransaction(row)
        PROVE  CacheInv'
    <2> DEFINE w == [kind |-> "create", row |-> row]
    <2>1. Mutate(w, <<>>) /\ UNCHANGED cache
      BY <1>5 DEF CreateTransaction
    <2>2. DOMAIN w = {"kind", "row"} /\ w.kind = "create" /\ w.row = row
      OBVIOUS
    <2> HIDE DEF w
    <2> QED
      BY <2>1, <2>2, PlainWriteOK
  <1> QED
    BY <1>1, <1>2, <1>3, <1>4, <1>5 DEF User

\* The ledger after a write, and the ids that are left.
LEMMA AppliedLedger ==
    ASSUME CacheInv, NEW w \in writes, ServerApply(w)
    PROVE  LedgerOK(ledger, nextId)' /\ IdsBounded'
  <1>1. /\ IsWrite(w) /\ LedgerOK(ledger, nextId) /\ IdsBounded /\ w.state = "sent"
    BY DEF CacheInv, CacheTyped, ServerApply
  <1>2. LedgerOK(ledger, nextId)'
    <2>1. CASE w.kind = "category"
      <3>1. ledger' = Updated(ledger, w.id, w.category) /\ nextId' = nextId
        BY <2>1 DEF ServerApply
      <3>2. w.category \in Categories
        BY <1>1, <2>1 DEF IsWrite
      <3>3. LedgerOK(Updated(ledger, w.id, w.category), nextId)
        BY <1>1, <3>2, UpdatedKept
      <3> QED
        BY <3>1, <3>3
    <2>2. CASE w.kind = "delete"
      <3>1. ledger' = Removed(ledger, w.id) /\ nextId' = nextId
        BY <2>2 DEF ServerApply
      <3> QED
        BY <1>1, <3>1, RemovedKept
    <2>3. CASE w.kind = "clear"
      <3>1. ledger' = {} /\ nextId' = nextId
        BY <2>3 DEF ServerApply
      <3> QED
        BY <1>1, <3>1, RemovedKept
    <2>4. CASE w.kind = "create"
      <3>1. ledger' = Created(ledger, w.row, nextId) /\ nextId' = nextId + 1
        BY <2>4 DEF ServerApply
      <3>2. w.row \in NewRows
        BY <1>1, <2>4 DEF IsWrite
      <3> QED
        BY <1>1, <3>1, <3>2, CreatedKept
    <2>5. CASE w.kind = "budget"
      <3>1. ledger' = ledger /\ nextId' = nextId
        BY <2>5 DEF ServerApply
      <3> QED
        BY <1>1, <3>1
    <2> QED
      BY <1>1, <2>1, <2>2, <2>3, <2>4, <2>5 DEF IsWrite
  <1>3. IdsBounded'
    <2>1. ASSUME NEW v \in writes'
          PROVE  v \in writes \ {w} \/ v.state # "sent"
      <3> DEFINE state == IF w.kind = "category" /\ ~Found(ledger, w.id)
                          THEN "refused" ELSE "done"
      <3>1. CASE w.waited
        <4>1. writes' = (writes \ {w}) \union {[w EXCEPT !.state = state]}
          BY <3>1 DEF ServerApply, Turn
        <4>2. state # "sent"
          OBVIOUS
        <4> HIDE DEF state
        <4>3. [w EXCEPT !.state = state].state = state
          BY <1>1 DEF IsWrite
        <4> QED
          BY <4>1, <4>2, <4>3
      <3>2. CASE ~w.waited
        BY <3>2 DEF ServerApply
      <3> QED
        BY <3>1, <3>2
    <2>2. Pending' \subseteq Pending \ {w}
      BY <2>1 DEF Pending
    <2>3. moves' = moves
      BY DEF ServerApply
    <2>4. nextId \in Nat /\ Cardinality(Ledger) \in Nat /\ moves \in Nat
      BY <1>1, LedgerAssumption, FS_CardinalityType, QueryCacheAssumption
         DEF LedgerOK, CacheInv, CacheTyped
    <2>5. IsFiniteSet(Pending') /\ Cardinality(Pending) \in Nat /\ Cardinality(Pending') \in Nat
          /\ Cardinality(Pending') <= Cardinality(Pending)
      BY <1>1, <2>2, OneMoreOrLess, FS_CardinalityType DEF IdsBounded
    <2>6. w.kind = "create" => Cardinality(Pending') + 1 <= Cardinality(Pending)
      <3>1. w.kind = "create" => w \in Pending
        BY <1>1 DEF Pending
      <3> QED
        BY <1>1, <2>2, <3>1, OneMoreOrLess DEF IdsBounded
    <2>7. nextId' = IF w.kind = "create" THEN nextId + 1 ELSE nextId
      BY DEF ServerApply
    <2>8. nextId + Cardinality(Pending) <= Cardinality(Ledger) + 1 + moves
      BY <1>1 DEF IdsBounded
    <2>9. nextId' + Cardinality(Pending') <= Cardinality(Ledger) + 1 + moves'
      BY <2>3, <2>4, <2>5, <2>6, <2>7, <2>8
    <2> QED
      BY <2>5, <2>9 DEF IdsBounded
  <1> QED
    BY <1>2, <1>3

\* A write of a budget leaves the lists alone.
LEMMA UntouchedView ==
    ASSUME CacheInv, NEW w \in writes, ServerApply(w), NEW k \in Keys, k \notin Touched(w.kind)
    PROVE  View(k)' = View(k)
  <1>1. w.kind = "budget" /\ Reads[k] # "budgets"
    BY TouchedKeys
  <1>2. ledger' = ledger
    BY <1>1 DEF ServerApply
  <1> QED
    BY <1>1, <1>2, QueryCacheAssumption DEF View, ListTransactions

\* A write that is overtaken: what it touches is marked, unless it is not shown.
LEMMA OvertakenQueries ==
    ASSUME \A k \in Keys : IsQuery(cache[k]), NEW kind, Overtake(kind)
    PROVE  /\ DOMAIN cache' = Keys
           /\ \A k \in Keys : /\ IsQuery(cache'[k])
                              /\ k \in Touched(kind) => Reset(cache'[k])
                              /\ k \notin Touched(kind) => Kept(k)
  <1>1. DOMAIN cache' = Keys
    BY DEF Overtake
  <1>2. ASSUME NEW k \in Keys
        PROVE  /\ IsQuery(cache'[k])
               /\ k \in Touched(kind) => Reset(cache'[k])
               /\ k \notin Touched(kind) => Kept(k)
    <2> DEFINE q == cache[k]
               b == q.overtaken \/ (k \in Touched(kind) /\ (q.known \/ q.fetch.on))
    <2>1. cache'[k] = [q EXCEPT !.overtaken = b]
      BY DEF Overtake
    <2>2. b \in BOOLEAN
      OBVIOUS
    <2>3. IsQuery(q)
      OBVIOUS
    <2>4. k \notin Touched(kind) => b = q.overtaken
      BY <2>3 DEF IsQuery
    <2>5. k \in Touched(kind) => b \/ (~q.known /\ ~q.fetch.on)
      OBVIOUS
    <2> HIDE DEF b, q
    <2>6. /\ IsQuery(cache'[k]) /\ cache'[k].overtaken = b /\ cache'[k].known = q.known
          /\ cache'[k].data = q.data /\ cache'[k].stale = q.stale /\ cache'[k].fetch = q.fetch
      BY <2>1, <2>2, <2>3 DEF IsQuery
    <2>7. k \in Touched(kind) => Reset(cache'[k])
      BY <2>2, <2>5, <2>6 DEF Reset
    <2>8. k \notin Touched(kind) => Kept(k)
      BY <2>4, <2>6 DEF Kept, q
    <2> QED
      BY <2>6, <2>7, <2>8
  <1> QED
    BY <1>1, <1>2

\* The write is done: what it touches is read again when its answer comes.
LEMMA ServerApplyOK ==
    ASSUME CacheInv, NEW w \in writes, ServerApply(w)
    PROVE  CacheInv'
  <1>1. /\ DOMAIN cache = Keys /\ \A k \in Keys : IsQuery(cache[k])
        /\ \A v \in writes : IsWrite(v)
        /\ moves' \in 0..MaxMoves /\ IsWrite(w) /\ w.state = "sent"
    BY DEF CacheInv, CacheTyped, ServerApply
  <1>2. LedgerOK(ledger, nextId)' /\ IdsBounded'
    BY AppliedLedger
  <1>3. CASE w.waited
    <2>1. PICK state \in {"refused", "done"} :
              /\ state = "refused" => w.kind = "category"
              /\ writes' = (writes \ {w}) \union {[w EXCEPT !.state = state]}
      BY <1>3 DEF ServerApply, Turn
    <2> DEFINE v == [w EXCEPT !.state = state]
    <2>2. IsWrite(v) /\ v.kind = w.kind /\ v.state = state /\ v.waited
      BY <1>1, <1>3, <2>1 DEF IsWrite
    <2>3. writes' = (writes \ {w}) \union {v}
      BY <2>1
    <2> HIDE DEF v
    <2>4. cache' = cache
      BY <1>3 DEF ServerApply
    <2>5. CacheTyped'
      BY <1>1, <1>2, <2>2, <2>3, <2>4 DEF CacheTyped
    <2>6. ASSUME NEW k \in Keys
          PROVE  \/ KeyOK(k)'
                 \/ /\ Kept(k) /\ View(k)' = View(k)
                    /\ Settled(k)' => Settled(k)
                    /\ NoneDone(k)' => NoneDone(k)
      <3>1. CASE k \in Touched(w.kind)
        <4>1. ~Settled(k)' /\ ~NoneDone(k)'
          BY <2>1, <2>2, <2>3, <3>1 DEF Settled, NoneDone
        <4> QED
          BY <4>1 DEF KeyOK
      <3>2. CASE k \notin Touched(w.kind)
        <4>1. View(k)' = View(k)
          BY <3>2, UntouchedView
        <4>2. (Settled(k)' => Settled(k)) /\ (NoneDone(k)' => NoneDone(k))
          BY <2>3, <3>2 DEF Settled, NoneDone
        <4> QED
          BY <2>4, <4>1, <4>2 DEF Kept
      <3> QED
        BY <3>1, <3>2
    <2> QED
      BY <1>2, <2>5, <2>6, StepIsOK
  <1>4. CASE ~w.waited
    <2>1. writes' = writes \ {w} /\ Overtake(w.kind)
      BY <1>4 DEF ServerApply
    <2>2. /\ DOMAIN cache' = Keys
          /\ \A k \in Keys : /\ IsQuery(cache'[k])
                             /\ k \in Touched(w.kind) => Reset(cache'[k])
                             /\ k \notin Touched(w.kind) => Kept(k)
      BY <1>1, <2>1, OvertakenQueries
    <2>3. CacheTyped'
      BY <1>1, <1>2, <2>1, <2>2 DEF CacheTyped
    <2>4. ASSUME NEW k \in Keys
          PROVE  /\ Settled(k)' => Settled(k)
                 /\ NoneDone(k)' => NoneDone(k)
      BY <1>4, <2>1 DEF Settled, NoneDone
    <2>5. ASSUME NEW k \in Keys
          PROVE  \/ Reset(cache[k])'
                 \/ Kept(k) /\ View(k)' = View(k)
      <3>1. Reset(cache'[k]) => Reset(cache[k])'
        BY DEF Reset
      <3> QED
        BY <2>2, <3>1, UntouchedView
    <2> QED
      BY <1>2, <2>3, <2>4, <2>5, StepIsOK
  <1> QED
    BY <1>3, <1>4

\* A request nobody waits for any more.
LEMMA ForgetOK ==
    ASSUME CacheInv, NEW w \in writes, Forget(w)
    PROVE  CacheInv'
  <1>1. writes' = writes \ {w} /\ ~w.waited /\ UNCHANGED <<cache, moves, ledger, nextId, limit>>
    BY DEF Forget, server_vars
  <1>2. CacheTyped'
    BY <1>1 DEF CacheInv, CacheTyped
  <1>3. IdsBounded'
    BY <1>1, FewerPending
  <1>4. ASSUME NEW k \in Keys
        PROVE  /\ Kept(k) /\ View(k)' = View(k)
               /\ Settled(k)' => Settled(k)
               /\ NoneDone(k)' => NoneDone(k)
    BY <1>1, ViewKept DEF Kept, Settled, NoneDone
  <1> QED
    BY <1>2, <1>3, <1>4, StepIsOK

\* The answer of a write: what it touched is read again.
LEMMA AnswerWriteOK ==
    ASSUME CacheInv, NEW w \in writes, AnswerWrite(w)
    PROVE  CacheInv'
  <1>1. /\ writes' = writes \ {w} /\ cache' = Invalidate(w.kind, cache)
        /\ UNCHANGED <<moves, ledger, nextId, limit>>
    BY DEF AnswerWrite, server_vars
  <1>2. \A k \in Keys : IsQuery(cache[k])
    BY DEF CacheInv, CacheTyped
  <1>3. /\ DOMAIN cache' = Keys
        /\ \A k \in Keys : cache'[k] = IF k \in Touched(w.kind) THEN Invalidated(k, cache[k])
                                       ELSE cache[k]
    BY <1>1 DEF Invalidate
  <1>4. \A k \in Keys : /\ IsQuery(cache'[k])
                        /\ k \in Touched(w.kind) => Reset(cache'[k])
                        /\ k \notin Touched(w.kind) => cache'[k] = cache[k]
    BY <1>2, <1>3, InvalidatedQuery
  <1>5. CacheTyped'
    BY <1>1, <1>3, <1>4 DEF CacheInv, CacheTyped
  <1>6. IdsBounded'
    BY <1>1, FewerPending
  <1>7. ASSUME NEW k \in Keys
        PROVE  \/ Reset(cache[k])'
               \/ /\ Kept(k) /\ View(k)' = View(k)
                  /\ Settled(k)' => Settled(k)
                  /\ NoneDone(k)' => NoneDone(k)
    <2>1. CASE k \in Touched(w.kind)
      BY <1>4, <2>1 DEF Reset
    <2>2. CASE k \notin Touched(w.kind)
      BY <1>1, <1>4, <2>2, ViewKept DEF Kept, Settled, NoneDone
    <2> QED
      BY <2>1, <2>2
  <1> QED
    BY <1>5, <1>6, <1>7, StepIsOK

\* A failed write: rolled back and read again, or overtaken, or still to come.
LEMMA WriteFailsOK ==
    ASSUME CacheInv, NEW w \in writes, WriteFails(w)
    PROVE  CacheInv'
  <1> DEFINE v == [w EXCEPT !.waited = FALSE, !.before = <<>>]
  <1>1. /\ DOMAIN cache = Keys /\ \A k \in Keys : IsQuery(cache[k])
        /\ \A u \in writes : IsWrite(u)
        /\ moves \in 0..MaxMoves /\ LedgerOK(ledger, nextId) /\ IdsBounded
        /\ IsWrite(w) /\ w.waited
    BY DEF CacheInv, CacheTyped, WriteFails
  <1>2. UNCHANGED <<moves, ledger, nextId, limit>>
    BY DEF WriteFails, server_vars
  <1>3. /\ w.state = "sent" => writes' = (writes \ {w}) \union {v}
        /\ w.state # "sent" => writes' = writes \ {w}
    BY DEF WriteFails
  <1>4. w.state = "sent" => IsWrite(v) /\ v.kind = w.kind /\ v.state = "sent" /\ ~v.waited
    BY <1>1 DEF IsWrite
  <1> HIDE DEF v
  <1>5. \A u \in writes' : IsWrite(u)
    BY <1>1, <1>3, <1>4
  <1>6. IdsBounded'
    <2>1. CASE w.state # "sent"
      BY <1>2, <1>3, <2>1, FewerPending
    <2>2. CASE w.state = "sent"
      <3>1. IsFiniteSet(Pending) /\ IsFiniteSet(Pending')
            /\ Cardinality(Pending') <= Cardinality(Pending)
        <4>1. CASE w.kind = "create"
          <5>1. w \in Pending /\ Pending' \subseteq (Pending \ {w}) \union {v}
            BY <1>3, <2>2, <4>1 DEF Pending
          <5> QED
            BY <1>1, <5>1, OneMoreOrLess DEF IdsBounded
        <4>2. CASE w.kind # "create"
          <5>1. Pending' \subseteq Pending
            BY <1>3, <1>4, <2>2, <4>2 DEF Pending
          <5> QED
            BY <1>1, <5>1, OneMoreOrLess DEF IdsBounded
        <4> QED
          BY <4>1, <4>2
      <3>2. nextId + Cardinality(Pending) <= Cardinality(Ledger) + 1 + moves
        BY <1>1 DEF IdsBounded
      <3>3. /\ Cardinality(Pending') \in Nat /\ Cardinality(Pending) \in Nat
            /\ Cardinality(Ledger) \in Nat /\ nextId \in Nat /\ moves \in Nat
        BY <1>1, <3>1, FS_CardinalityType, LedgerAssumption, QueryCacheAssumption
           DEF LedgerOK
      <3>4. nextId' + Cardinality(Pending') <= Cardinality(Ledger) + 1 + moves'
        BY <1>2, <3>1, <3>2, <3>3
      <3> QED
        BY <3>1, <3>4 DEF IdsBounded
    <2> QED
      BY <2>1, <2>2
  <1>7. \A k \in Keys : View(k)' = View(k)
    BY <1>2, ViewKept
  <1>8. CASE w.kind = "category"
    <2> DEFINE back == RolledBack(w)
    <2>1. \A k \in Keys : IsQuery(back[k])
      BY <1>1, PutQuery DEF RolledBack
    <2>2. cache' = Invalidate(w.kind, back)
      BY <1>8 DEF WriteFails
    <2> HIDE DEF back
    <2>3. DOMAIN cache' = Keys /\ \A k \in Keys : cache'[k] = Invalidated(k, back[k])
      BY <1>8, <2>2, TouchedKeys DEF Invalidate
    <2>4. \A k \in Keys : IsQuery(cache'[k]) /\ Reset(cache'[k])
      BY <2>1, <2>3, InvalidatedQuery
    <2>5. CacheTyped'
      BY <1>1, <1>2, <1>5, <2>3, <2>4 DEF CacheTyped
    <2>6. \A k \in Keys : Reset(cache[k])'
      BY <2>4 DEF Reset
    <2> QED
      BY <1>6, <2>5, <2>6, StepIsOK
  <1>9. CASE w.kind # "category" /\ w.state = "done"
    <2>1. Overtake(w.kind)
      BY <1>9 DEF WriteFails
    <2>2. /\ DOMAIN cache' = Keys
          /\ \A k \in Keys : /\ IsQuery(cache'[k])
                             /\ k \in Touched(w.kind) => Reset(cache'[k])
                             /\ k \notin Touched(w.kind) => Kept(k)
      BY <1>1, <2>1, OvertakenQueries
    <2>3. CacheTyped'
      BY <1>1, <1>2, <1>5, <2>2 DEF CacheTyped
    <2>4. ASSUME NEW k \in Keys
          PROVE  \/ Reset(cache[k])'
                 \/ /\ Kept(k)
                    /\ Settled(k)' => Settled(k)
                    /\ NoneDone(k)' => NoneDone(k)
      <3>1. CASE k \in Touched(w.kind)
        BY <2>2, <3>1 DEF Reset
      <3>2. CASE k \notin Touched(w.kind)
        BY <1>3, <1>9, <2>2, <3>2 DEF Settled, NoneDone
      <3> QED
        BY <3>1, <3>2
    <2> QED
      BY <1>6, <1>7, <2>3, <2>4, StepIsOK
  <1>10. CASE w.kind # "category" /\ w.state = "sent"
    <2>1. cache' = cache
      BY <1>10 DEF WriteFails
    <2>2. CacheTyped'
      BY <1>1, <1>2, <1>5, <2>1 DEF CacheTyped
    <2>3. ASSUME NEW k \in Keys
          PROVE  /\ Kept(k)
                 /\ Settled(k)' => Settled(k)
                 /\ NoneDone(k)' => NoneDone(k)
      BY <1>3, <1>10, <2>1 DEF Kept, Settled, NoneDone
    <2> QED
      BY <1>6, <1>7, <2>2, <2>3, StepIsOK
  <1> QED
    BY <1>1, <1>8, <1>9, <1>10 DEF IsWrite

-----------------------------------------------------------------------------
(* The views' theorems *)

LEMMA CacheStep ==
    ASSUME LedgerFits, CacheInv, [CacheNext]_cacheVars
    PROVE  CacheInv'
  <1>1. CASE User
    BY <1>1, UserOK
  <1>2. ASSUME NEW p \in Pages, Visit(p)
        PROVE  CacheInv'
    BY <1>2, VisitOK
  <1>3. ASSUME NEW k \in Keys, Collect(k) \/ ServerRead(k) \/ AnswerRead(k) \/ ReadFails(k)
        PROVE  CacheInv'
    BY <1>3, CollectOK, ServerReadOK, AnswerReadOK, ReadFailsOK
  <1>4. ASSUME NEW w \in writes, ServerApply(w) \/ AnswerWrite(w) \/ WriteFails(w) \/ Forget(w)
        PROVE  CacheInv'
    BY <1>4, ServerApplyOK, AnswerWriteOK, WriteFailsOK, ForgetOK
  <1>5. CASE UNCHANGED cacheVars
    <2>1. DOMAIN cache' = Keys /\ \A k \in Keys : IsQuery(cache'[k]) /\ cache'[k] = cache[k]
      BY <1>5 DEF cacheVars, CacheInv, CacheTyped
    <2>2. UNCHANGED <<writes, moves, ledger, nextId, limit>>
      BY <1>5 DEF cacheVars
    <2> QED
      BY <2>1, <2>2, ReadIsOK
  <1> QED
    BY <1>1, <1>2, <1>3, <1>4, <1>5 DEF CacheNext

\* The inductive invariant of the cache, the writes and the ledger holds in every
\* reachable state, when the ledger fits in the pages a read may ask for
\* (useApi.ts:16-124, api/client.ts:109-129).
THEOREM CacheInvariance == LedgerFits => (CacheSpec => []CacheInv)
  <1> SUFFICES ASSUME LedgerFits
               PROVE  CacheSpec => []CacheInv
    OBVIOUS
  <1>1. CacheInit => CacheInv
    BY InitOK
  <1>2. CacheInv /\ [CacheNext]_cacheVars => CacheInv'
    BY CacheStep
  <1> QED
    BY <1>1, <1>2, PTL DEF CacheSpec

\* At rest, no write is under way whose end will make the view be read again.
LEMMA QuietIsOK == CacheInv => QuietViewIsLedger
  <1> SUFFICES ASSUME CacheInv, NEW k \in Keys, Quiet(k), ~cache[k].overtaken
               PROVE  cache[k].data = View(k)
    BY DEF QuietViewIsLedger
  <1>1. Settled(k)
    BY DEF Quiet, Settled
  <1> QED
    BY <1>1 DEF CacheInv, KeyOK, Quiet

\* A view at rest shows the ledger, whatever the keys, the pages, the writes and
\* the failures, unless a write overtook its read.
THEOREM QuietIsLedger == LedgerFits => (CacheSpec => []QuietViewIsLedger)
  <1> SUFFICES ASSUME LedgerFits
               PROVE  CacheSpec => []QuietViewIsLedger
    OBVIOUS
  <1>1. CacheSpec => []CacheInv
    BY CacheInvariance
  <1> QED
    BY <1>1, QuietIsOK, PTL

-----------------------------------------------------------------------------
(* Induction on the subsets of a finite set *)

\* What holds of a set when it holds of its proper subsets holds of every finite set.
LEMMA BySubsets ==
    ASSUME NEW R, IsFiniteSet(R), NEW G,
           \A S \in SUBSET R : (\A T \in SUBSET S : T # S => T \in G) => S \in G
    PROVE  \A S \in SUBSET R : S \in G
  <1> DEFINE less == StrictSubsetOrdering(R)
             bad == {S \in SUBSET R : S \notin G}
  <1>1. IsWellFoundedOn(less, FiniteSubsetsOf(R))
    BY FS_StrictSubsetOrderingWellFounded
  <1>2. \A S \in SUBSET R : S \in FiniteSubsetsOf(R)
    BY FS_Subset DEF FiniteSubsetsOf
  <1>3. \A S, T \in SUBSET R : <<T, S>> \in less <=> T \subseteq S /\ T # S
    BY DEF StrictSubsetOrdering
  <1> SUFFICES bad = {}
    OBVIOUS
  <1> SUFFICES ASSUME bad # {}
               PROVE  FALSE
    OBVIOUS
  <1> HIDE DEF less
  <1>4. bad \subseteq FiniteSubsetsOf(R)
    BY <1>2
  <1>5. PICK m \in bad : \A S \in bad : ~(<<S, m>> \in less)
    <2> HIDE DEF bad
    <2> QED
      BY <1>1, <1>4, WFMin
  <1>6. \A T \in SUBSET m : T # m => T \in G
    BY <1>3, <1>5
  <1> QED
    BY <1>5, <1>6

-----------------------------------------------------------------------------
(* Sums over a finite set *)

MemberOf(s) == CHOOSE y \in s : TRUE

\* it sums f over the subsets of T, one element after the other.
Sums(it, f, T) ==
    it = [s \in SUBSET T |-> IF s = {} THEN 0 ELSE f[MemberOf(s)] + it[s \ {MemberOf(s)}]]

LEMMA SumsStep ==
    ASSUME NEW it, NEW f, NEW T, Sums(it, f, T)
    PROVE  /\ it[{}] = 0
           /\ \A s \in SUBSET T : s # {} => it[s] = f[MemberOf(s)] + it[s \ {MemberOf(s)}]
  <1>1. \A s \in SUBSET T : it[s] = IF s = {} THEN 0 ELSE f[MemberOf(s)] + it[s \ {MemberOf(s)}]
    BY DEF Sums
  <1> QED
    BY <1>1

LEMMA MemberIn ==
    ASSUME NEW s, s # {}
    PROVE  MemberOf(s) \in s
  BY DEF MemberOf

\* Two of them agree where the functions do.
LEMMA SumsAgree ==
    ASSUME NEW a, NEW b, NEW f, NEW g, NEW A, NEW B, Sums(a, f, A), Sums(b, g, B),
           NEW S, S \subseteq A, S \subseteq B, IsFiniteSet(S), \A x \in S : f[x] = g[x]
    PROVE  \A s \in SUBSET S : a[s] = b[s]
  <1> DEFINE G == {s \in SUBSET S : a[s] = b[s]}
  <1>1. /\ a[{}] = 0
        /\ \A s \in SUBSET A : s # {} => a[s] = f[MemberOf(s)] + a[s \ {MemberOf(s)}]
    BY SumsStep, Zenon
  <1>2. /\ b[{}] = 0
        /\ \A s \in SUBSET B : s # {} => b[s] = g[MemberOf(s)] + b[s \ {MemberOf(s)}]
    BY SumsStep, Zenon
  <1>3. ASSUME NEW s \in SUBSET S, \A t \in SUBSET s : t # s => t \in G
        PROVE  s \in G
    <2>0. s \in SUBSET A /\ s \in SUBSET B
      OBVIOUS
    <2>1. a[{}] = 0 /\ (s # {} => a[s] = f[MemberOf(s)] + a[s \ {MemberOf(s)}])
      BY <1>1, <2>0
    <2>4. b[{}] = 0 /\ (s # {} => b[s] = g[MemberOf(s)] + b[s \ {MemberOf(s)}])
      BY <1>2, <2>0
    <2>2. CASE s = {}
      BY <2>1, <2>2, <2>4
    <2>3. CASE s # {}
      <3>1. MemberOf(s) \in s
        BY <2>3, MemberIn
      <3>2. a[s \ {MemberOf(s)}] = b[s \ {MemberOf(s)}] /\ f[MemberOf(s)] = g[MemberOf(s)]
        BY <1>3, <3>1
      <3> QED
        BY <2>1, <2>3, <2>4, <3>2
    <2> QED
      BY <2>2, <2>3
  <1>4. \A s \in SUBSET S : s \in G
    <2> HIDE DEF G
    <2> QED
      BY <1>3, BySubsets
  <1> QED
    BY <1>4

\* There is one.
LEMMA SumsExist ==
    ASSUME NEW f, NEW R, IsFiniteSet(R)
    PROVE  \E it : Sums(it, f, R)
  <1> DEFINE G == {T \in SUBSET R : \E it : Sums(it, f, T)}
  <1>1. ASSUME NEW T \in SUBSET R, \A U \in SUBSET T : U # T => U \in G
        PROVE  T \in G
    <2> DEFINE V(U) == (CHOOSE it : Sums(it, f, U))[U]
               it == [s \in SUBSET T |-> IF s = {} THEN 0 ELSE f[MemberOf(s)] + V(s \ {MemberOf(s)})]
    <2>1. ASSUME NEW U \in SUBSET T, U # T
          PROVE  V(U) = IF U = {} THEN 0 ELSE f[MemberOf(U)] + V(U \ {MemberOf(U)})
      <3> DEFINE a == CHOOSE x : Sums(x, f, U)
                 W == U \ {MemberOf(U)}
                 b == CHOOSE x : Sums(x, f, W)
      <3>1. Sums(a, f, U)
        BY <1>1, <2>1
      <3>2. W \in SUBSET T /\ (U # {} => W # T)
        BY <2>1, MemberIn
      <3>3. U # {} => Sums(b, f, W)
        BY <1>1, <3>2
      <3>4. IsFiniteSet(W)
        BY <2>1, FS_Subset
      <3>5. a[{}] = 0 /\ (U # {} => a[U] = f[MemberOf(U)] + a[W])
        <4> HIDE DEF a
        <4>1. /\ a[{}] = 0
              /\ \A s \in SUBSET U : s # {} => a[s] = f[MemberOf(s)] + a[s \ {MemberOf(s)}]
          BY <3>1, SumsStep, Zenon
        <4> QED
          BY <4>1
      <3>6. U # {} => a[W] = b[W]
        <4> HIDE DEF a, b
        <4> QED
          BY <3>1, <3>3, <3>4, SumsAgree
      <3> QED
        BY <3>5, <3>6
    <2>2. ASSUME NEW s \in SUBSET T, s # {}
          PROVE  it[s \ {MemberOf(s)}] = V(s \ {MemberOf(s)})
      <3> DEFINE U == s \ {MemberOf(s)}
      <3>1. U \in SUBSET T /\ U # T
        BY <2>2, MemberIn
      <3> HIDE DEF V
      <3>2. it[U] = IF U = {} THEN 0 ELSE f[MemberOf(U)] + V(U \ {MemberOf(U)})
        BY <3>1
      <3>3. V(U) = IF U = {} THEN 0 ELSE f[MemberOf(U)] + V(U \ {MemberOf(U)})
        BY <2>1, <3>1
      <3> QED
        BY <3>2, <3>3
    <2>3. Sums(it, f, T)
      <3> HIDE DEF V
      <3>1. \A s \in SUBSET T :
              (IF s = {} THEN 0 ELSE f[MemberOf(s)] + V(s \ {MemberOf(s)}))
              = (IF s = {} THEN 0 ELSE f[MemberOf(s)] + it[s \ {MemberOf(s)}])
        <4> HIDE DEF it
        <4> QED
          BY <2>2
      <3> QED
        BY <3>1 DEF Sums
    <2> QED
      BY <2>3
  <1>2. \A T \in SUBSET R : T \in G
    <2> HIDE DEF G
    <2> QED
      BY <1>1, BySubsets
  <1> QED
    BY <1>2

\* Of integers it is an integer, and any element may be taken first.
LEMMA SumsAny ==
    ASSUME NEW it, NEW f, NEW T, Sums(it, f, T), IsFiniteSet(T), \A x \in T : f[x] \in Int
    PROVE  \A s \in SUBSET T : it[s] \in Int /\ \A x \in s : it[s] = f[x] + it[s \ {x}]
  <1>1. /\ it[{}] = 0
        /\ \A s \in SUBSET T : s # {} => it[s] = f[MemberOf(s)] + it[s \ {MemberOf(s)}]
    BY SumsStep, Zenon
  <1> DEFINE G == {s \in SUBSET T : it[s] \in Int /\ \A x \in s : it[s] = f[x] + it[s \ {x}]}
  <1>2. ASSUME NEW s \in SUBSET T, \A t \in SUBSET s : t # s => t \in G
        PROVE  s \in G
    <2>1. it[{}] = 0 /\ (s # {} => it[s] = f[MemberOf(s)] + it[s \ {MemberOf(s)}])
      BY <1>1
    <2>2. CASE s = {}
      BY <2>1, <2>2
    <2>3. CASE s # {}
      <3> DEFINE y == MemberOf(s)
      <3>1. y \in s
        BY <2>3, MemberIn
      <3>2. it[s] = f[y] + it[s \ {y}]
        BY <2>1, <2>3
      <3> HIDE DEF y
      <3>3. s \ {y} \in G
        BY <1>2, <3>1
      <3>4. it[s] \in Int
        BY <3>1, <3>2, <3>3
      <3>5. ASSUME NEW x \in s, x # y
            PROVE  it[s] = f[x] + it[s \ {x}]
        <4>1. s \ {x} \in G
          BY <1>2
        <4>2. (s \ {y}) \ {x} = (s \ {x}) \ {y}
          OBVIOUS
        <4>3. it[s \ {y}] = f[x] + it[(s \ {y}) \ {x}]
          BY <3>3, <3>5
        <4>4. it[s \ {x}] = f[y] + it[(s \ {x}) \ {y}]
          BY <3>1, <3>5, <4>1
        <4>5. (s \ {x}) \ {y} \in G
          BY <1>2, <3>1
        <4> DEFINE fx == f[x]
                   fy == f[y]
                   rest == it[(s \ {x}) \ {y}]
        <4>6. fx \in Int /\ fy \in Int /\ rest \in Int
          BY <3>1, <4>5
        <4>7. it[s] = fy + (fx + rest)
          BY <3>2, <4>2, <4>3
        <4>8. fx + it[s \ {x}] = fx + (fy + rest)
          BY <4>4
        <4> HIDE DEF fx, fy, rest
        <4>9. it[s] = fx + it[s \ {x}]
          BY <4>6, <4>7, <4>8
        <4> QED
          BY <4>9 DEF fx
      <3> QED
        BY <3>2, <3>4, <3>5
    <2> QED
      BY <2>2, <2>3
  <1>3. \A s \in SUBSET T : s \in G
    <2> HIDE DEF G
    <2> QED
      BY <1>2, BySubsets
  <1> QED
    BY <1>3

-----------------------------------------------------------------------------
(* The sums of the model *)

\* The library's fold is such a sum.
LEMMA SumIsSums ==
    ASSUME NEW f, IsFiniteSet(DOMAIN f)
    PROVE  \E it : Sums(it, f, DOMAIN f) /\ Sum(f) = it[DOMAIN f]
  <1>1. \E it : Sums(it, f, DOMAIN f)
    BY SumsExist
  <1> QED
    BY <1>1 DEF Sums, Sum, MapThenSumSet, MapThenFoldSet, MemberOf

Amounts(S) == [r \in S |-> r.amount]

LEMMA TotalIsSums ==
    ASSUME NEW S, IsFiniteSet(S)
    PROVE  \E it : Sums(it, Amounts(S), S) /\ Total(S) = it[S]
  <1> DEFINE Over(it) == it = [s \in SUBSET S |-> IF s = {} THEN 0
                                 ELSE LET x == CHOOSE y \in s : TRUE IN Amount(x) + it[s \ {x}]]
  <1>1. \A it : Over(it) <=> Sums(it, Amounts(S), S)
    <2> SUFFICES ASSUME NEW it
                 PROVE  Over(it) <=> Sums(it, Amounts(S), S)
      OBVIOUS
    <2>1. \A s \in SUBSET S :
             (IF s = {} THEN 0 ELSE LET x == CHOOSE y \in s : TRUE IN Amount(x) + it[s \ {x}])
             = (IF s = {} THEN 0 ELSE Amounts(S)[MemberOf(s)] + it[s \ {MemberOf(s)}])
      <3> SUFFICES ASSUME NEW s \in SUBSET S, s # {}
                   PROVE  Amount(CHOOSE y \in s : TRUE) = Amounts(S)[MemberOf(s)]
        BY DEF MemberOf
      <3>1. MemberOf(s) \in S
        BY MemberIn
      <3>2. Amounts(S)[MemberOf(s)] = MemberOf(s).amount
        BY <3>1 DEF Amounts
      <3> QED
        BY <3>2 DEF Amount, MemberOf
    <2> QED
      BY <2>1 DEF Sums
  <1>2. \E it : Over(it)
    <2> HIDE DEF Over
    <2> QED
      BY <1>1, SumsExist
  <1>3. \E it : Over(it) /\ Total(S) = it[S]
    BY <1>2 DEF Total, MapThenSumSet, MapThenFoldSet
  <1> HIDE DEF Over
  <1> QED
    BY <1>1, <1>3

\* The laws of a sum: of nothing, and with one value taken out.
LEMMA SumLaws ==
    ASSUME NEW f, IsFiniteSet(DOMAIN f), \A x \in DOMAIN f : f[x] \in Int
    PROVE  /\ Sum(f) \in Int
           /\ DOMAIN f = {} => Sum(f) = 0
           /\ \A x \in DOMAIN f : Sum(f) = f[x] + Sum([y \in DOMAIN f \ {x} |-> f[y]])
  <1> DEFINE D == DOMAIN f
  <1>1. PICK it : Sums(it, f, D) /\ Sum(f) = it[D]
    BY SumIsSums
  <1>2. it[D] \in Int /\ \A x \in D : it[D] = f[x] + it[D \ {x}]
    <2>1. IsFiniteSet(D) /\ \A x \in D : f[x] \in Int
      OBVIOUS
    <2> HIDE DEF D
    <2>2. \A s \in SUBSET D : it[s] \in Int /\ \A x \in s : it[s] = f[x] + it[s \ {x}]
      BY <1>1, <2>1, SumsAny
    <2> QED
      BY <2>2
  <1>3. D = {} => it[D] = 0
    <2> HIDE DEF D
    <2>1. it[{}] = 0
      BY <1>1, SumsStep, Zenon
    <2> QED
      BY <2>1
  <1>4. ASSUME NEW x \in D
        PROVE  Sum([y \in D \ {x} |-> f[y]]) = it[D \ {x}]
    <2> DEFINE g == [y \in D \ {x} |-> f[y]]
               E == D \ {x}
    <2>1. DOMAIN g = E /\ IsFiniteSet(E) /\ E \subseteq D /\ \A y \in E : f[y] = g[y]
      BY FS_RemoveElement
    <2> HIDE DEF g, E, D
    <2>2. PICK b : Sums(b, g, E) /\ Sum(g) = b[E]
      BY <2>1, SumIsSums
    <2>3. \A s \in SUBSET E : it[s] = b[s]
      BY <1>1, <2>1, <2>2, SumsAgree
    <2>4. Sum(g) = it[E]
      BY <2>2, <2>3
    <2> QED
      BY <2>4 DEF g, E, D
  <1> QED
    BY <1>1, <1>2, <1>3, <1>4

Rows(S) == S \subseteq Stored /\ IsFiniteSet(S)

LEMMA TotalLaws ==
    ASSUME NEW S, Rows(S)
    PROVE  /\ Total(S) \in Int
           /\ S = {} => Total(S) = 0
           /\ \A x \in S : Total(S) = x.amount + Total(S \ {x})
  <1>0. IsFiniteSet(S) /\ \A r \in S : r.amount \in Int
    BY DEF Rows, Stored
  <1>1. PICK it : Sums(it, Amounts(S), S) /\ Total(S) = it[S]
    BY <1>0, TotalIsSums
  <1>2. \A x \in S : Amounts(S)[x] = x.amount /\ Amounts(S)[x] \in Int
    BY <1>0 DEF Amounts
  <1>3. it[S] \in Int /\ \A x \in S : it[S] = Amounts(S)[x] + it[S \ {x}]
    <2>1. \A s \in SUBSET S : it[s] \in Int /\ \A x \in s : it[s] = Amounts(S)[x] + it[s \ {x}]
      BY <1>0, <1>1, <1>2, SumsAny
    <2> QED
      BY <2>1
  <1>4. S = {} => it[S] = 0
    <2>1. it[{}] = 0
      BY <1>1, SumsStep, Zenon
    <2> QED
      BY <2>1
  <1>5. ASSUME NEW x \in S
        PROVE  Total(S \ {x}) = it[S \ {x}]
    <2> DEFINE E == S \ {x}
    <2>1. IsFiniteSet(E) /\ E \subseteq S /\ \A y \in E : Amounts(S)[y] = Amounts(E)[y]
      BY <1>0, FS_RemoveElement DEF Amounts
    <2> HIDE DEF E
    <2>2. PICK b : Sums(b, Amounts(E), E) /\ Total(E) = b[E]
      BY <2>1, TotalIsSums
    <2>3. \A s \in SUBSET E : it[s] = b[s]
      BY <1>1, <2>1, <2>2, SumsAgree
    <2>4. Total(E) = it[E]
      BY <2>2, <2>3
    <2> QED
      BY <2>4 DEF E
  <1> QED
    BY <1>1, <1>2, <1>3, <1>4, <1>5

\* The total of a set is that of any part of it and of the rest.
LEMMA TotalOfParts ==
    ASSUME NEW S, Rows(S)
    PROVE  \A A \in SUBSET S : Total(S) = Total(A) + Total(S \ A)
  <1> DEFINE G == {A \in SUBSET S : Total(S) = Total(A) + Total(S \ A)}
  <1>0. IsFiniteSet(S) /\ \A A \in SUBSET S : Rows(A) /\ Total(A) \in Int
    <2>1. \A A \in SUBSET S : Rows(A)
      BY FS_Subset DEF Rows
    <2> QED
      BY <2>1, TotalLaws DEF Rows
  <1>1. ASSUME NEW A \in SUBSET S, \A B \in SUBSET A : B # A => B \in G
        PROVE  A \in G
    <2>1. CASE A = {}
      <3>1. Total(A) = 0 /\ Total(S) \in Int
        BY <1>0, <2>1, TotalLaws
      <3>2. S \ A = S
        BY <2>1
      <3>3. Total(S \ A) = Total(S)
        BY <3>2
      <3>4. Total(S) = Total(A) + Total(S \ A)
        BY <3>1, <3>3
      <3> QED
        BY <3>4
    <2>2. CASE A # {}
      <3>1. PICK x \in A : TRUE
        BY <2>2
      <3> DEFINE B == A \ {x}
                 C == S \ A
      <3>2. Total(S) = Total(B) + Total(S \ B)
        BY <1>1
      <3>3. Total(A) = x.amount + Total(B)
        BY <1>0, TotalLaws
      <3>4. x \in S \ B /\ (S \ B) \ {x} = C
        OBVIOUS
      <3>5. Total(S \ B) = x.amount + Total(C)
        BY <1>0, <3>4, TotalLaws
      <3>6. Total(B) \in Int /\ Total(C) \in Int /\ x.amount \in Int
        BY <1>0 DEF Rows, Stored
      <3> HIDE DEF B
      <3>7. Total(S) = Total(A) + Total(C)
        BY <3>2, <3>3, <3>5, <3>6
      <3> QED
        BY <3>7
    <2> QED
      BY <2>1, <2>2
  <1>2. \A A \in SUBSET S : A \in G
    <2> HIDE DEF G
    <2> QED
      BY <1>0, <1>1, BySubsets
  <1> QED
    BY <1>2

Signed(minus, n) == IF minus THEN -n ELSE n

\* Summing the totals of the parts a key divides the rows into is summing the rows.
LEMMA TotalByKey ==
    ASSUME NEW S, Rows(S), NEW key, NEW f,
           NEW minus \in BOOLEAN,
           f = [c \in {key[r] : r \in S} |-> Signed(minus, Total({r \in S : key[r] = c}))]
    PROVE  Sum(f) = Signed(minus, Total(S))
  <1> DEFINE D == DOMAIN f
             of(c) == {r \in S : key[r] = c}
             In(C) == {r \in S : key[r] \in C}
             on(C) == [c \in C |-> f[c]]
  <1>1. IsFiniteSet(S) /\ \A A \in SUBSET S : Rows(A) /\ Total(A) \in Int
    <2>1. \A A \in SUBSET S : Rows(A)
      BY FS_Subset DEF Rows
    <2> QED
      BY <2>1, TotalLaws DEF Rows
  <1>2. IsFiniteSet(D)
    <2> DEFINE g == [r \in S |-> key[r]]
    <2>1. g \in Surjection(S, D)
      BY DEF Surjection
    <2> HIDE DEF g
    <2> QED
      BY <1>1, <2>1, FS_Surjection
  <1>3. \A C \in SUBSET D : IsFiniteSet(C)
    BY <1>2, FS_Subset
  <1>4. ASSUME NEW C \in SUBSET D, NEW c \in C
        PROVE  Total(In(C)) = Total(of(c)) + Total(In(C \ {c}))
    <2>1. of(c) \subseteq In(C) /\ In(C) \ of(c) = In(C \ {c}) /\ In(C) \subseteq S
      OBVIOUS
    <2> QED
      BY <1>1, <2>1, TotalOfParts
  <1>5. \A c \in D : f[c] = Signed(minus, Total(of(c))) /\ Total(of(c)) \in Int /\ f[c] \in Int
    <2>1. \A c \in D : f[c] = Signed(minus, Total(of(c))) /\ Total(of(c)) \in Int
      BY <1>1
    <2> HIDE DEF of, D
    <2> QED
      BY <2>1 DEF Signed
  <1>6. ASSUME NEW C \in SUBSET D
        PROVE  /\ Sum(on(C)) \in Int /\ (C = {} => Sum(on(C)) = 0)
               /\ \A c \in C : Sum(on(C)) = f[c] + Sum(on(C \ {c}))
    <2> DEFINE h == on(C)
    <2>1. DOMAIN h = C /\ \A x \in C : h[x] = f[x] /\ h[x] \in Int
      BY <1>5
    <2>2. \A c \in C : [y \in C \ {c} |-> h[y]] = on(C \ {c})
      OBVIOUS
    <2> HIDE DEF h
    <2>3. /\ Sum(h) \in Int /\ (C = {} => Sum(h) = 0)
          /\ \A c \in C : Sum(h) = h[c] + Sum([y \in C \ {c} |-> h[y]])
      BY <1>3, <2>1, SumLaws
    <2> QED
      BY <2>1, <2>2, <2>3 DEF h
  <1>7. In({}) = {} /\ In(D) = S /\ on(D) = f
    OBVIOUS
  <1>8. Total({}) = 0 /\ \A C \in SUBSET D : Total(In(C)) \in Int
    BY <1>1, TotalLaws
  <1> DEFINE G == {C \in SUBSET D : Sum(on(C)) = Signed(minus, Total(In(C)))}
  <1>9. ASSUME NEW C \in SUBSET D, \A B \in SUBSET C : B # C => B \in G
        PROVE  C \in G
    <2>1. CASE C = {}
      <3> DEFINE n == Total(In(C))
      <3>1. n = 0 /\ Sum(on(C)) = 0
        BY <1>6, <1>7, <1>8, <2>1
      <3> HIDE DEF n
      <3>2. n \in Int /\ n + n = 0 /\ Sum(on(C)) = n
        BY <3>1
      <3>3. Signed(minus, n) = n
        BY <3>2 DEF Signed
      <3> QED
        BY <3>2, <3>3 DEF n
    <2>2. CASE C # {}
      <3>1. PICK c \in C : TRUE
        BY <2>2
      <3> DEFINE B == C \ {c}
      <3>2. Sum(on(B)) = Signed(minus, Total(In(B)))
        BY <1>9
      <3> HIDE DEF on, In, of, D
      <3>3. Sum(on(C)) = f[c] + Sum(on(B))
        BY <1>6
      <3>4. Total(In(C)) = Total(of(c)) + Total(In(B))
        BY <1>4
      <3>5. f[c] = Signed(minus, Total(of(c))) /\ Total(of(c)) \in Int
        BY <1>5
      <3>6. Total(In(B)) \in Int
        BY <1>8
      <3> HIDE DEF B
      <3>7. Sum(on(C)) = Signed(minus, Total(In(C)))
        BY <3>2, <3>3, <3>4, <3>5, <3>6 DEF Signed
      <3> QED
        BY <3>7
    <2> QED
      BY <2>1, <2>2
  <1>10. \A C \in SUBSET D : C \in G
    <2> HIDE DEF G, D
    <2> QED
      BY <1>2, <1>9, BySubsets
  <1> QED
    BY <1>7, <1>10

-----------------------------------------------------------------------------
(* What the cache holds *)

HoldsRows(q) == Rows(q.data) /\ Rows(q.fetch.got)

\* The data of a list, what its fetch has got, and what a failed update would put
\* back are rows.
DataInv ==
    /\ \A k \in Lists : HoldsRows(cache[k])
    /\ \A w \in writes, k \in Lists : k \in DOMAIN w.before => Rows(w.before[k])

\* What each operation of the cache makes of them.
LEMMA QueryRows ==
    /\ HoldsRows(Unknown)
    /\ \A q : IsQuery(q) /\ HoldsRows(q) =>
          /\ HoldsRows(Started(q)) /\ HoldsRows(Cancelled(q))
          /\ \A k : HoldsRows(Invalidated(k, q))
          /\ \A data : Rows(data) => HoldsRows(Put(q, data))
  <1>1. Rows({})
    BY FS_EmptySet DEF Rows
  <1>2. HoldsRows(Unknown)
    BY <1>1 DEF HoldsRows, Unknown, NoFetch
  <1>3. ASSUME NEW q, IsQuery(q), HoldsRows(q)
        PROVE  /\ HoldsRows(Started(q)) /\ HoldsRows(Cancelled(q))
               /\ \A data : Rows(data) => HoldsRows(Put(q, data))
    BY <1>1, <1>3 DEF HoldsRows, IsQuery, Started, Cancelled, Put, Fetch, NoFetch
  <1>4. ASSUME NEW q, IsQuery(q), HoldsRows(q), NEW k
        PROVE  HoldsRows(Invalidated(k, q))
    <2> DEFINE stale == [q EXCEPT !.stale = q.known]
    <2>1. IsQuery(stale) /\ HoldsRows(stale)
      BY <1>4 DEF IsQuery, HoldsRows
    <2>2. Invalidated(k, q) \in {[stale EXCEPT !.overtaken = TRUE], Started(stale), stale}
      BY DEF Invalidated
    <2> HIDE DEF stale
    <2>3. HoldsRows([stale EXCEPT !.overtaken = TRUE])
      BY <2>1 DEF IsQuery, HoldsRows
    <2> QED
      BY <1>3, <2>1, <2>2, <2>3
  <1> QED
    BY <1>2, <1>3, <1>4

\* Recategorised rows are rows.
LEMMA UpdatedRows ==
    ASSUME NEW S, Rows(S), NEW id, NEW category \in Categories
    PROVE  Rows(Updated(S, id, category))
  <1> DEFINE new(r) == IF r.id = id THEN [r EXCEPT !.category = category] ELSE r
             T == Updated(S, id, category)
             f == [r \in S |-> new(r)]
  <1>1. \A r \in S : new(r) \in Stored
    BY DEF Rows, Stored
  <1>2. T = {new(r) : r \in S}
    BY DEF Updated
  <1> HIDE DEF new, T
  <1>3. f \in Surjection(S, T)
    BY <1>2 DEF Surjection
  <1>4. IsFiniteSet(T)
    BY <1>3, FS_Surjection DEF Rows
  <1> QED
    BY <1>1, <1>2, <1>4 DEF Rows, T

\* What the server answers to a read of a list.
LEMMA ReadRows ==
    ASSUME CacheInv, NEW month, NEW n, NEW size
    PROVE  Rows(Page(Scoped(ledger, month), n, size))
  <1>1. Scoped(ledger, month) \in SUBSET Stored /\ IsFiniteSet(Scoped(ledger, month))
    BY ScopedRows DEF CacheInv, CacheTyped
  <1>2. Page(Scoped(ledger, month), n, size) \subseteq Scoped(ledger, month)
    BY DEF Page
  <1> QED
    BY <1>1, <1>2, FS_Subset DEF Rows

\* A step of the cache alone.
LEMMA CacheRows ==
    ASSUME DataInv, writes' \subseteq writes, \A k \in Lists : HoldsRows(cache'[k])
    PROVE  DataInv'
  BY DEF DataInv, HoldsRows

\* The new write, with what it would put back.
LEMMA SentBefore ==
    ASSUME NEW w, NEW before, Mutate(w, before), "before" \notin DOMAIN w
    PROVE  \E s : s.before = before /\ writes' = writes \union {s}
  <1> DEFINE rest == [n |-> moves + 1, id |-> 0, category |-> "none", row |-> NoRow, limit |-> 0,
                      before |-> before, state |-> "sent", waited |-> TRUE]
             s == Spread(w, rest)
  <1>1. writes' = writes \union {s}
    BY DEF Mutate
  <1>2. s.before = before
    BY DEF Spread
  <1> HIDE DEF s
  <1> QED
    BY <1>1, <1>2

LEMMA SentRows ==
    ASSUME DataInv, NEW w, Mutate(w, <<>>), UNCHANGED cache, "before" \notin DOMAIN w
    PROVE  DataInv'
  <1>1. PICK s : s.before = <<>> /\ writes' = writes \union {s}
    BY SentBefore
  <1>2. DOMAIN s.before = {}
    BY <1>1
  <1> QED
    BY <1>1, <1>2 DEF DataInv, HoldsRows

\* The optimistic update keeps what it may have to put back.
LEMMA UpdateRows ==
    ASSUME CacheInv, DataInv, NEW id, NEW category \in Categories, UpdateCategory(id, category)
    PROVE  DataInv'
  <1> DEFINE w == [kind |-> "category", id |-> id, category |-> category]
             q == [k \in Keys |-> IF k \in Lists THEN Cancelled(cache[k]) ELSE cache[k]]
             before == [k \in {l \in Lists : q[l].known} |-> q[k].data]
  <1>1. \A k \in Keys : IsQuery(cache[k])
    BY DEF CacheInv, CacheTyped
  <1>2. Mutate(w, before)
    BY DEF UpdateCategory
  <1>3. PICK s : s.before = before /\ writes' = writes \union {s}
    <2> HIDE DEF before
    <2> QED
      BY <1>2, SentBefore
  <1>4. ASSUME NEW k \in Lists
        PROVE  /\ k \in DOMAIN before => Rows(before[k])
               /\ HoldsRows(cache'[k])
    <2> DEFINE c == Cancelled(cache[k])
    <2>1. k \in Keys /\ q[k] = c
      BY DEF Lists
    <2>2. IsQuery(c) /\ HoldsRows(c)
      BY <1>1, <2>1, CancelledQuery, QueryRows DEF DataInv
    <2>3. cache'[k] = IF c.known THEN Put(c, Updated(c.data, id, category)) ELSE c
      BY <2>1 DEF UpdateCategory
    <2>4. k \in DOMAIN before => before[k] = c.data
      BY <2>1
    <2> HIDE DEF c, before
    <2> QED
      BY <2>2, <2>3, <2>4, UpdatedRows, QueryRows DEF HoldsRows
  <1> QED
    BY <1>3, <1>4 DEF DataInv

LEMMA UserRows ==
    ASSUME CacheInv, DataInv, User
    PROVE  DataInv'
  <1>1. ASSUME NEW r \in ShownRows, NEW c \in Categories, UpdateCategory(r.id, c)
        PROVE  DataInv'
    BY <1>1, UpdateRows
  <1>2. ASSUME NEW r \in ShownRows, DeleteTransaction(r.id)
        PROVE  DataInv'
    BY <1>2, SentRows DEF DeleteTransaction
  <1>3. ASSUME ClearAll
        PROVE  DataInv'
    BY <1>3, SentRows DEF ClearAll
  <1>4. ASSUME NEW cap \in Limits, SetBudget(cap)
        PROVE  DataInv'
    BY <1>4, SentRows DEF SetBudget
  <1>5. ASSUME NEW row \in NewRows, CreateTransaction(row)
        PROVE  DataInv'
    BY <1>5, SentRows DEF CreateTransaction
  <1> QED
    BY <1>1, <1>2, <1>3, <1>4, <1>5 DEF User

LEMMA ReadingRows ==
    ASSUME CacheInv, DataInv, NEW k \in Keys,
           Collect(k) \/ ServerRead(k) \/ AnswerRead(k) \/ ReadFails(k)
    PROVE  DataInv'
  <1> DEFINE q == cache[k]
             f == q.fetch
  <1>1. DOMAIN cache = Keys /\ Lists \subseteq Keys /\ IsQuery(q)
    BY DEF CacheInv, CacheTyped, Lists
  <1>2. /\ writes' = writes
        /\ \A j \in Keys : j # k => cache'[j] = cache[j]
    BY <1>1 DEF Collect, ServerRead, AnswerRead, ReadFails
  <1>3. SUFFICES ASSUME k \in Lists
                 PROVE  HoldsRows(cache'[k])
    <2>1. \A j \in Lists : HoldsRows(cache'[j])
      BY <1>1, <1>2, <1>3 DEF DataInv
    <2> QED
      BY <1>2, <2>1, CacheRows
  <1>4. HoldsRows(q) /\ Rows({})
    BY <1>3, FS_EmptySet DEF DataInv, Rows
  <1>5. CASE Collect(k)
    BY <1>1, <1>5, QueryRows DEF Collect
  <1>6. CASE ServerRead(k)
    <2> DEFINE g == ReadOf(f, k)
    <2>1. cache'[k] = [q EXCEPT !.fetch = g]
      BY <1>1, <1>6 DEF ServerRead
    <2>2. DOMAIN f = {"on", "next", "got", "whole"}
      BY <1>1 DEF IsQuery, IsFetch
    <2>3. Rows(g.got)
      <3>1. CASE Reads[k] = "list"
        <4>1. g.got = ListTransactions(k)
          BY <2>2, <3>1 DEF ReadOf
        <4> QED
          BY <4>1, ReadRows DEF ListTransactions
      <3>2. CASE Reads[k] = "full"
        <4> DEFINE part == Page(Scoped(ledger, Month[k]), f.next, PageSize)
        <4>1. g = ListAllTransactions(f, k)
          BY <3>2 DEF ReadOf
        <4>2. g.got = f.got \union part
          BY <2>2, <4>1 DEF ListAllTransactions
        <4>3. Rows(f.got) /\ Rows(part)
          BY <1>4, ReadRows DEF HoldsRows
        <4> HIDE DEF part, g, f
        <4> QED
          BY <4>2, <4>3, FS_Union DEF Rows
      <3> QED
        BY <1>3, <3>1, <3>2, QueryCacheAssumption DEF Lists
    <2> HIDE DEF g
    <2> QED
      BY <1>1, <1>4, <2>1, <2>3 DEF HoldsRows, IsQuery
  <1>7. CASE AnswerRead(k)
    <2> DEFINE p == Put(q, f.got)
    <2>1. cache'[k] = [p EXCEPT !.fetch = NoFetch]
      BY <1>1, <1>7 DEF AnswerRead
    <2>2. IsQuery(p) /\ HoldsRows(p)
      BY <1>1, <1>4, PutQuery, QueryRows DEF HoldsRows
    <2> HIDE DEF p
    <2> QED
      BY <1>4, <2>1, <2>2 DEF HoldsRows, IsQuery, NoFetch
  <1>8. CASE ReadFails(k)
    <2>1. \/ cache'[k] = [q EXCEPT !.fetch = Fetch]
          \/ cache'[k] = [q EXCEPT !.fetch = NoFetch, !.stale = q.known]
      BY <1>1, <1>8 DEF ReadFails
    <2>2. Rows(Fetch.got) /\ Rows(NoFetch.got)
      BY <1>4 DEF Fetch, NoFetch
    <2> QED
      BY <1>1, <1>4, <2>1, <2>2 DEF HoldsRows, IsQuery
  <1> QED
    BY <1>5, <1>6, <1>7, <1>8

\* A write moves on, fails, or is forgotten.
LEMMA WritingRows ==
    ASSUME CacheInv, DataInv, NEW w \in writes,
           ServerApply(w) \/ AnswerWrite(w) \/ WriteFails(w) \/ Forget(w)
    PROVE  DataInv'
  <1>1. /\ DOMAIN cache = Keys /\ Lists \subseteq Keys /\ \A k \in Keys : IsQuery(cache[k])
        /\ IsWrite(w) /\ \A k \in Lists : HoldsRows(cache[k])
    BY DEF CacheInv, CacheTyped, DataInv, Lists
  <1>2. ASSUME NEW v \in writes'
        PROVE  \A k \in Lists : k \in DOMAIN v.before => Rows(v.before[k])
    <2>1. CASE v \in writes
      BY <2>1 DEF DataInv
    <2>2. ASSUME NEW state, v = [w EXCEPT !.state = state]
          PROVE  v.before = w.before
      BY <1>1, <2>2 DEF IsWrite
    <2>3. CASE v = [w EXCEPT !.waited = FALSE, !.before = <<>>]
      <3>1. v.before = <<>>
        BY <1>1, <2>3 DEF IsWrite
      <3> QED
        BY <3>1
    <2>4. \/ v \in writes
          \/ \E state : v = [w EXCEPT !.state = state]
          \/ v = [w EXCEPT !.waited = FALSE, !.before = <<>>]
      BY DEF ServerApply, Turn, AnswerWrite, WriteFails, Forget
    <2> QED
      BY <2>1, <2>2, <2>3, <2>4 DEF DataInv
  <1>3. ASSUME NEW kind, Overtake(kind), NEW k \in Lists
        PROVE  HoldsRows(cache'[k])
    <2> DEFINE b == cache[k].overtaken
                    \/ (k \in Touched(kind) /\ (cache[k].known \/ cache[k].fetch.on))
    <2>1. cache'[k] = [cache[k] EXCEPT !.overtaken = b]
      BY <1>1, <1>3 DEF Overtake
    <2> HIDE DEF b
    <2> QED
      BY <1>1, <2>1 DEF HoldsRows, IsQuery
  <1>4. ASSUME NEW queries, \A k \in Lists : IsQuery(queries[k]) /\ HoldsRows(queries[k]),
               NEW kind, cache' = Invalidate(kind, queries), NEW k \in Lists
        PROVE  HoldsRows(cache'[k])
    <2>1. cache'[k] \in {Invalidated(k, queries[k]), queries[k]}
      BY <1>1, <1>4 DEF Invalidate
    <2> QED
      BY <1>4, <2>1, QueryRows
  <1>5. ASSUME NEW k \in Lists
        PROVE  HoldsRows(cache'[k])
    <2>1. CASE cache' = cache
      BY <1>1, <2>1
    <2>2. CASE \E kind : Overtake(kind)
      BY <1>3, <2>2
    <2>3. CASE cache' = Invalidate(w.kind, cache)
      BY <1>1, <1>4, <2>3
    <2>4. CASE w.kind = "category" /\ cache' = Invalidate(w.kind, RolledBack(w))
      <3> DEFINE back == RolledBack(w)
      <3>1. \A j \in Lists : IsQuery(back[j]) /\ HoldsRows(back[j])
        <4> SUFFICES ASSUME NEW j \in Lists
                     PROVE  IsQuery(back[j]) /\ HoldsRows(back[j])
          OBVIOUS
        <4>1. \/ back[j] = cache[j]
              \/ j \in DOMAIN w.before /\ back[j] = Put(cache[j], w.before[j])
          BY <1>1 DEF RolledBack
        <4>2. j \in DOMAIN w.before => Rows(w.before[j])
          BY DEF DataInv
        <4> QED
          BY <1>1, <4>1, <4>2, PutQuery, QueryRows
      <3> HIDE DEF back
      <3> QED
        BY <1>4, <2>4, <3>1 DEF back
    <2>5. \/ cache' = cache
          \/ \E kind : Overtake(kind)
          \/ cache' = Invalidate(w.kind, cache)
          \/ w.kind = "category" /\ cache' = Invalidate(w.kind, RolledBack(w))
      BY DEF ServerApply, AnswerWrite, WriteFails, Forget
    <2> QED
      BY <2>1, <2>2, <2>3, <2>4, <2>5
  <1> QED
    BY <1>2, <1>5 DEF DataInv, HoldsRows

LEMMA DataStep ==
    ASSUME CacheInv, DataInv, [CacheNext]_cacheVars
    PROVE  DataInv'
  <1>1. CASE User
    BY <1>1, UserRows
  <1>2. ASSUME NEW p \in Pages, Visit(p)
        PROVE  DataInv'
    <2>1. writes' = writes /\ \A k \in Keys : cache'[k] \in {Started(cache[k]), cache[k]}
      BY <1>2 DEF Visit
    <2>2. \A k \in Lists : k \in Keys /\ IsQuery(cache[k]) /\ HoldsRows(cache[k])
      BY DEF CacheInv, CacheTyped, DataInv, Lists
    <2>3. \A k \in Lists : HoldsRows(cache'[k])
      BY <2>1, <2>2, QueryRows
    <2> QED
      BY <2>1, <2>3, CacheRows
  <1>3. ASSUME NEW k \in Keys, Collect(k) \/ ServerRead(k) \/ AnswerRead(k) \/ ReadFails(k)
        PROVE  DataInv'
    BY <1>3, ReadingRows
  <1>4. ASSUME NEW w \in writes, ServerApply(w) \/ AnswerWrite(w) \/ WriteFails(w) \/ Forget(w)
        PROVE  DataInv'
    BY <1>4, WritingRows
  <1>5. CASE UNCHANGED cacheVars
    BY <1>5 DEF cacheVars, DataInv, HoldsRows
  <1> QED
    BY <1>1, <1>2, <1>3, <1>4, <1>5 DEF CacheNext

-----------------------------------------------------------------------------
(* The figures *)

LEMMA MonthRows ==
    ASSUME NEW S, Rows(S), NEW month
    PROVE  Rows(InMonth(S, month)) /\ Rows(Expenses(InMonth(S, month)))
  <1>1. InMonth(S, month) \in SUBSET S
    BY DEF InMonth
  <1>2. Rows(InMonth(S, month))
    BY <1>1, FS_Subset DEF Rows
  <1>3. Expenses(InMonth(S, month)) \in SUBSET InMonth(S, month)
    BY DEF Expenses
  <1> QED
    BY <1>2, <1>3, FS_Subset DEF Rows

\* The spending of a month, divided by a field of the rows, adds up.
LEMMA SpentByKey ==
    ASSUME NEW S, Rows(S), NEW key
    PROVE  /\ Sum([c \in {key[r] : r \in S} |-> Total({r \in S : key[r] = c})]) = Total(S)
           /\ Sum([c \in {key[r] : r \in S} |-> -Total({r \in S : key[r] = c})]) = -Total(S)
  <1> DEFINE cs == {key[r] : r \in S}
             t(c) == Total({r \in S : key[r] = c})
             f(minus) == [c \in cs |-> Signed(minus, t(c))]
  <1>1. ASSUME NEW minus \in BOOLEAN
        PROVE  Sum(f(minus)) = Signed(minus, Total(S))
    <2> DEFINE g == f(minus)
    <2>1. g = [c \in {key[r] : r \in S} |-> Signed(minus, Total({r \in S : key[r] = c}))]
      OBVIOUS
    <2> HIDE DEF g
    <2>2. Sum(g) = Signed(minus, Total(S))
      BY <2>1, TotalByKey
    <2> QED
      BY <2>2 DEF g
  <1>2. f(FALSE) = [c \in cs |-> t(c)] /\ f(TRUE) = [c \in cs |-> -t(c)]
    BY DEF Signed
  <1>3. Signed(FALSE, Total(S)) = Total(S) /\ Signed(TRUE, Total(S)) = -Total(S)
    BY DEF Signed
  <1> HIDE DEF f
  <1>4. Sum([c \in cs |-> t(c)]) = Total(S) /\ Sum([c \in cs |-> -t(c)]) = -Total(S)
    BY <1>1, <1>2, <1>3
  <1> QED
    BY <1>4

\* The figures of one list of rows.
LEMMA RowsAgree ==
    ASSUME NEW S, Rows(S)
    PROVE  LET dash    == Dashboard(S, Picked)
               summary == dash.summary
           IN  /\ dash.stats.net = summary.total_spend
               /\ summary.total_spend = Sum([c \in DOMAIN summary.by_category |->
                                                 summary.by_category[c].total])
               /\ Sum(summary.daily) = dash.stats.spent
               /\ Sum(TopMerchants(S, Picked)) = dash.stats.spent
               /\ dash.sixMonths[6] = dash.stats.spent /\ dash.sixMonths[5] = dash.prev.spent
  <1> DEFINE M == InMonth(S, Picked)
             E == Expenses(M)
             summary == BuildSummary(S, Picked)
             stats == MonthStats(S, Picked)
             dash == Dashboard(S, Picked)
  <1>1. Picked \in Nat \ {0} /\ Scoped(S, Picked) = M
    BY QueryCacheAssumption DEF Scoped
  <1>2. Rows(M) /\ Rows(E) /\ E \in SUBSET M /\ Rows(M \ E)
    <2>1. Rows(M) /\ Rows(E)
      BY MonthRows
    <2>2. E \in SUBSET M
      BY DEF Expenses
    <2> HIDE DEF M, E
    <2> QED
      BY <2>1, <2>2, FS_Difference DEF Rows
  <1>3. Total(M) = Total(E) + Total(M \ E) /\ Total(E) \in Int /\ Total(M \ E) \in Int
    <2> HIDE DEF M, E
    <2> QED
      BY <1>2, TotalOfParts, TotalLaws
  <1>4. /\ dash.stats = stats /\ dash.summary = summary
        /\ dash.prev = MonthStats(S, Picked - 1)
        /\ dash.sixMonths = MonthlyExpenseTotals(S, LastNMonths(Picked, 6))
    BY DEF Dashboard
  <1>5. stats.spent = -Total(E) /\ stats.net = Total(M \ E) - (-Total(E))
    BY DEF MonthStats
  <1>6. summary.total_spend = Total(M)
    BY <1>1 DEF BuildSummary
  <1>7. stats.net = summary.total_spend
    <2> HIDE DEF M, E, stats, summary
    <2> DEFINE a == Total(E)
               b == Total(M \ E)
    <2>1. a \in Int /\ b \in Int /\ stats.net = b - (-a) /\ summary.total_spend = a + b
      BY <1>3, <1>5, <1>6
    <2> HIDE DEF a, b
    <2> QED
      BY <2>1
  <1>8. summary.total_spend = Sum([c \in DOMAIN summary.by_category |->
                                       summary.by_category[c].total])
    <2> DEFINE key == [r \in M |-> r.category]
    <2>1. [c \in DOMAIN summary.by_category |-> summary.by_category[c].total]
          = [c \in {key[r] : r \in M} |-> Total({r \in M : key[r] = c})]
      BY <1>1 DEF BuildSummary
    <2> HIDE DEF M, key, summary
    <2>2. Sum([c \in {key[r] : r \in M} |-> Total({r \in M : key[r] = c})]) = Total(M)
      BY <1>2, SpentByKey, Zenon
    <2> QED
      BY <1>6, <2>1, <2>2, Zenon
  <1>9. Sum(summary.daily) = stats.spent
    <2> DEFINE key == [r \in E |-> r.date]
    <2>1. summary.daily = [c \in {key[r] : r \in E} |-> -Total({r \in E : key[r] = c})]
      BY <1>1 DEF BuildSummary
    <2> HIDE DEF E, key, stats, summary
    <2>2. Sum([c \in {key[r] : r \in E} |-> -Total({r \in E : key[r] = c})]) = -Total(E)
      BY <1>2, SpentByKey, Zenon
    <2> QED
      BY <1>5, <2>1, <2>2, Zenon
  <1>10. Sum(TopMerchants(S, Picked)) = stats.spent
    <2> DEFINE key == [r \in E |-> r.description]
    <2>1. TopMerchants(S, Picked) = [c \in {key[r] : r \in E} |-> -Total({r \in E : key[r] = c})]
      BY <1>1 DEF TopMerchants
    <2> HIDE DEF E, key, stats, summary
    <2>2. Sum([c \in {key[r] : r \in E} |-> -Total({r \in E : key[r] = c})]) = -Total(E)
      BY <1>2, SpentByKey, Zenon
    <2> QED
      BY <1>5, <2>1, <2>2, Zenon
  <1>11. /\ dash.sixMonths[6] = stats.spent
         /\ dash.sixMonths[5] = dash.prev.spent
    <2> DEFINE months == LastNMonths(Picked, 6)
    <2>1. DOMAIN months = 1..6 /\ months[6] = Picked /\ months[5] = Picked - 1
      BY <1>1 DEF LastNMonths
    <2> HIDE DEF months, stats, dash
    <2>2. \A i \in 1..6 : dash.sixMonths[i] = MonthStats(S, months[i]).spent
      BY <1>4, <2>1 DEF MonthlyExpenseTotals, months
    <2> QED
      BY <1>4, <2>1, <2>2 DEF stats
  <1> HIDE DEF dash, stats, summary
  <1> QED
    BY <1>4, <1>7, <1>8, <1>9, <1>10, <1>11 DEF dash

\* A month that fits in a page is listed whole, and the summary of a list is that
\* of the rows of its month.
LEMMA ListedWhole ==
    ASSUME CacheInv, NEW k \in Keys, Month[k] = Picked, Reads[k] = "list",
           Cardinality(InMonth(ledger, Picked)) <= PageSize
    PROVE  View(k) = InMonth(ledger, Picked)
  <1> DEFINE all == InMonth(ledger, Picked)
  <1>1. Picked # 0 /\ PageSize \in Nat \ {0}
    BY QueryCacheAssumption
  <1>2. Scoped(ledger, Picked) = all
    BY <1>1 DEF Scoped
  <1>3. /\ all \in SUBSET Stored /\ \A r, s \in all : r.id = s.id => r = s
        /\ IsFiniteSet(all) /\ Cardinality(all) \in Nat
    BY <1>2, ScopedRows DEF CacheInv, CacheTyped
  <1>4. View(k) = Page(all, 1, PageSize)
    BY <1>2 DEF View, ListTransactions
  <1> HIDE DEF all
  <1>5. /\ Below(all, 0) = {}
        /\ Below(all, (1 - 1) * PageSize) \union Page(all, 1, PageSize) = Below(all, 1 * PageSize)
        /\ Cardinality(all) <= 1 * PageSize => Below(all, 1 * PageSize) = all
    <2>1. 1 \in Nat \ {0}
      OBVIOUS
    <2> QED
      BY <1>1, <1>3, <2>1, PagesAdd, Zenon
  <1>6. (1 - 1) * PageSize = 0 /\ 1 * PageSize = PageSize
    BY <1>1
  <1> QED
    BY <1>4, <1>5, <1>6 DEF all

\* The data of the views at rest.
LEMMA FiguresOK == CacheInv /\ DataInv => FiguresAgree
  <1> SUFFICES ASSUME CacheInv, DataInv
               PROVE  FiguresAgree
    OBVIOUS
  <1> DEFINE L == InMonth(ledger, Picked)
  <1>1. Picked \in Nat \ {0} /\ \A k \in Keys : Month[k] \in {0, Picked}
    BY QueryCacheAssumption
  <1>2. \A k \in Keys : Quiet(k) /\ ~cache[k].overtaken => cache[k].data = View(k)
    BY QuietIsOK DEF QuietViewIsLedger
  <1>3. ASSUME NEW f \in Keys, NEW k \in Keys, NEW b \in Keys,
               Reads[f] = "full", Reads[k] = "list", Reads[b] = "budgets",
               Month[k] = Picked, Month[b] = Picked,
               \A q \in {f, k, b} : Quiet(q) /\ ~cache[q].overtaken,
               Cardinality(InMonth(ledger, Picked)) <= PageSize
        PROVE  LET summary == BuildSummary(cache[k].data, Picked)
               IN  /\ summary = Dashboard(cache[f].data, Picked).summary
                   /\ \A s \in cache[b].data :
                        s.spent = IF Capped \in DOMAIN summary.by_category
                                  THEN Negated(summary.by_category[Capped].total) ELSE 0
    <2> DEFINE summary == BuildSummary(cache[k].data, Picked)
    <2>1. cache[k].data = L
      BY <1>2, <1>3, ListedWhole
    <2>2. cache[f].data = Scoped(ledger, Month[f])
      BY <1>2, <1>3 DEF View
    <2>3. Scoped(cache[k].data, Picked) = L /\ Scoped(cache[f].data, Picked) = L
      BY <1>1, <2>1, <2>2 DEF Scoped, InMonth
    <2>4. summary = Dashboard(cache[f].data, Picked).summary
      BY <2>3 DEF BuildSummary, Dashboard
    <2>5. ASSUME NEW s \in cache[b].data
          PROVE  s.spent = IF Capped \in DOMAIN summary.by_category
                           THEN Negated(summary.by_category[Capped].total) ELSE 0
      <3> DEFINE of == {r \in L : r.category = Capped}
      <3>1. s = BudgetStatus(ledger, Picked, Capped, limit)
        BY <1>2, <1>3 DEF View, Budgets
      <3>2. s.spent = Negated(Total(of))
        BY <1>1, <3>1 DEF BudgetStatus, Scoped
      <3>3. DOMAIN summary.by_category = {r.category : r \in L}
        BY <2>3 DEF BuildSummary
      <3>4. Capped \in DOMAIN summary.by_category => summary.by_category[Capped].total = Total(of)
        BY <2>3 DEF BuildSummary
      <3>5. Capped \notin DOMAIN summary.by_category => Negated(Total(of)) = 0
        <4> SUFFICES ASSUME of = {}
                     PROVE  Negated(Total(of)) = 0
          BY <3>3
        <4>1. Rows(of)
          BY FS_EmptySet DEF Rows
        <4> DEFINE n == Total(of)
        <4>2. n = 0
          BY <4>1, TotalLaws
        <4> HIDE DEF n
        <4>3. n \in Int /\ ~(n < 0)
          BY <4>2
        <4> QED
          BY <4>3 DEF Negated, n
      <3> QED
        BY <3>2, <3>4, <3>5
    <2> QED
      BY <2>4, <2>5
  <1>4. ASSUME NEW k \in Lists
        PROVE  Rows(cache[k].data)
    BY DEF DataInv, HoldsRows
  <1>5. ASSUME NEW k \in Lists
        PROVE  LET dash    == Dashboard(cache[k].data, Picked)
                   summary == dash.summary
               IN  /\ dash.stats.net = summary.total_spend
                   /\ summary.total_spend = Sum([c \in DOMAIN summary.by_category |->
                                                     summary.by_category[c].total])
                   /\ Sum(summary.daily) = dash.stats.spent
                   /\ Sum(TopMerchants(cache[k].data, Picked)) = dash.stats.spent
                   /\ dash.sixMonths[6] = dash.stats.spent
                   /\ dash.sixMonths[5] = dash.prev.spent
    BY <1>4, RowsAgree, Zenon
  <1> QED
    BY <1>3, <1>5, Zenon DEF FiguresAgree

\* The figures of the pages agree: of any list of rows, whatever is done in
\* whatever order, and of the views at rest with one another and with the
\* server's status of the budget (lib/aggregate.ts, Dashboard.tsx:71-111,
\* Insights.tsx:95-130).
THEOREM FiguresHold == LedgerFits => (CacheSpec => []FiguresAgree)
  <1> SUFFICES ASSUME LedgerFits
               PROVE  CacheSpec => []FiguresAgree
    OBVIOUS
  <1>1. CacheSpec => []CacheInv
    BY CacheInvariance
  <1>2. CacheInit => DataInv
    <2> SUFFICES ASSUME CacheInit
                 PROVE  DataInv
      OBVIOUS
    <2>1. \A k \in Lists : k \in Keys /\ cache[k] \in {Started(Unknown), Unknown}
      BY DEF CacheInit, Lists
    <2> QED
      BY <2>1, UnknownQuery, QueryRows DEF CacheInit, DataInv
  <1>3. CacheInv /\ DataInv /\ [CacheNext]_cacheVars => DataInv'
    BY DataStep
  <1> QED
    BY <1>1, <1>2, <1>3, FiguresOK, PTL DEF CacheSpec
==============================================================================
