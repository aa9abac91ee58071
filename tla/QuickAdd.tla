------------------------------- MODULE QuickAdd -------------------------------
\* The Quick Add drawer (frontend/src/components/QuickAddDrawer.tsx) over the
\* ledger of MockStore: the form and its effects, the soft duplicate warning,
\* Save anyway, calls whose answer is late or never comes, and the drawer that
\* is closed and opened again while one of them runs.  The drawer stays mounted
\* when it is closed, so its state and its calls outlive an opening.
EXTENDS MockStore

CONSTANTS
    Descriptions,   \* what a user may type, the empty text not among them
    Magnitudes,     \* amounts a user may type, 0 (nothing yet) not among them
    Dates,
    Today,          \* todayIso()
    Ledgers,        \* the ledgers a session may find, their rows of call 0
    MaxCalls        \* bound: saves asked for in a behaviour

NoText == "no text"   \* the empty text

ASSUME QuickAddAssumption ==
    /\ NoText \notin Descriptions
    /\ Magnitudes \subseteq Nat \ {0}
    /\ Today \in Dates /\ Dates \subseteq Nat
    /\ {"Other", "Salary"} \subseteq Categories
    /\ Keyword \in [Descriptions -> Categories \union {"none"}]
    /\ MaxCalls \in Nat

Row == [id : Nat, date : Dates, description : Descriptions, category : Categories,
        amount : Int, call : 0..MaxCalls, confirmed : BOOLEAN]

ASSUME LedgersAssumption ==
    \A rows \in Ledgers :
        /\ rows \subseteq Row /\ IsFiniteSet(rows)
        /\ \A r \in rows : r.call = 0 /\ r.id \in 1..Cardinality(rows)

VARIABLES
    open,             \* quickAddOpen
    form,             \* the values of the form
    categoryTouched,
    saving,
    warning,          \* the input the warning on show is about, or Nothing
    late,             \* history: that warning came to a form that had moved
    pendingInput,
    calls,            \* the calls the client or the server still works on
    asked,            \* how many calls were made: the last one's number
    rows,             \* the ledger; a row remembers its call
    broken,           \* history: calls whose answer never came
    refreshed         \* history: the ledger when the views were last invalidated

vars == <<open, form, categoryTouched, saving, warning, late, pendingInput,
          calls, asked, rows, broken, refreshed>>

Kinds   == {"expense", "income"}
Form    == [description : Descriptions \union {NoText}, magnitude : Magnitudes \union {0},
            date : Dates, category : Categories, kind : Kinds]
Nothing == [nothing |-> TRUE]

Blank == [description |-> NoText, magnitude |-> 0, date |-> Today,
          category |-> "Other", kind |-> "expense"]

\* zod's schema; a field the browser cannot empty is not tested again.
Valid(v) == v.description # NoText /\ v.magnitude > 0

Input(v) == [date |-> v.date, description |-> v.description, category |-> v.category,
             amount |-> 10 * (IF v.kind = "income" THEN v.magnitude ELSE -v.magnitude)]

Inputs == {Input(v) : v \in {w \in Form : Valid(w)}}

\* One call of the api object.  "check" is createTransactionChecked, "save" is
\* createTransaction; state is how far the server is, waited that its answer is
\* still expected.  History: moved, the form was edited or the drawer opened
\* again since the click; shown and late, what the form held at the click on
\* Save anyway and whether the warning had come to a form that had moved.
Call == [id : 1..MaxCalls, verb : {"check", "save"}, input : Inputs,
         state : {"sent", "clear", "warned", "saved"}, waited : BOOLEAN,
         moved : BOOLEAN, shown : Form, late : BOOLEAN]

Init ==
    /\ open = FALSE /\ form = Blank /\ categoryTouched = FALSE
    /\ saving = FALSE /\ warning = Nothing /\ late = FALSE /\ pendingInput = Nothing
    /\ calls = {} /\ asked = 0 /\ broken = {}
    /\ rows \in Ledgers /\ refreshed = rows

Moved == {[c EXCEPT !.moved = @ \/ c.waited] : c \in calls}

\* The effect of an opening resets the form and what was left of the last one.
Open ==
    /\ ~open
    /\ open' = TRUE /\ form' = Blank /\ categoryTouched' = FALSE
    /\ warning' = Nothing /\ pendingInput' = Nothing
    /\ calls' = Moved
    /\ UNCHANGED <<saving, late, asked, rows, broken, refreshed>>

Close ==
    /\ open /\ open' = FALSE
    /\ UNCHANGED <<form, categoryTouched, saving, warning, late, pendingInput,
                   calls, asked, rows, broken, refreshed>>

\* The effect that suggests a category, when its dependencies changed.
Suggested(new) ==
    IF /\ <<new.description, new.kind>> # <<form.description, form.kind>>
       /\ ~categoryTouched /\ new.description # NoText
    THEN [new EXCEPT !.category =
            SuggestCategory(new.description, IF new.kind = "income" THEN 1 ELSE -1)]
    ELSE new

\* Mutant: the amount is missing among the effect's dependencies.
DismissesOnText(new) == new.description # form.description

\* The effect that withdraws the warning depends on these three fields.
Dismisses(new) ==
    <<new.description, new.kind, new.magnitude>> #
        <<form.description, form.kind, form.magnitude>>

Edit(new) ==
    /\ open /\ new # form
    /\ form' = Suggested(new)
    /\ warning' = IF Dismisses(new) THEN Nothing ELSE warning
    /\ calls' = Moved
    /\ UNCHANGED <<open, saving, late, pendingInput, asked, rows, broken, refreshed>>

EditField ==
    /\ \/ \E k \in Kinds : Edit([form EXCEPT !.kind = k])
       \/ \E m \in Magnitudes \union {0} : Edit([form EXCEPT !.magnitude = m])
       \/ \E d \in Descriptions \union {NoText} : Edit([form EXCEPT !.description = d])
       \/ \E d \in Dates : Edit([form EXCEPT !.date = d])
    /\ UNCHANGED categoryTouched

PickCategory ==
    \E c \in Categories :
        /\ Edit([form EXCEPT !.category = c])
        /\ categoryTouched' = TRUE

Ask(verb, input) ==
    /\ asked < MaxCalls
    /\ asked' = asked + 1
    /\ saving' = TRUE
    /\ calls' = calls \union
          {[id |-> asked + 1, verb |-> verb, input |-> input, state |-> "sent",
            waited |-> TRUE, moved |-> FALSE, shown |-> form, late |-> late]}
    /\ UNCHANGED <<open, form, categoryTouched, warning, late, pendingInput,
                   rows, broken, refreshed>>

\* Mutant: the button is not disabled while a save is asked for.
SubmitAgain == open /\ warning = Nothing /\ Valid(form) /\ Ask("check", Input(form))

\* The Save button, there while no warning is.
Submit ==
    /\ open /\ warning = Nothing /\ ~saving /\ Valid(form)
    /\ Ask("check", Input(form))

SaveAnyway ==
    /\ open /\ warning # Nothing /\ ~saving /\ pendingInput # Nothing
    /\ Ask("save", pendingInput)

CancelWarning ==
    /\ open /\ warning # Nothing
    /\ warning' = Nothing
    /\ UNCHANGED <<open, form, categoryTouched, saving, late, pendingInput,
                   calls, asked, rows, broken, refreshed>>

(* The server *)

Drawer == <<open, form, categoryTouched, saving, warning, late, pendingInput>>

\* A call nobody waits for is of no more interest once the server is done.
Progress(c, state) ==
    calls' = (calls \ {c}) \union
        (IF ~c.waited /\ state \in {"warned", "saved"} THEN {}
         ELSE {[c EXCEPT !.state = state]})

ServerCheck(c) ==
    /\ c.verb = "check" /\ c.state = "sent"
    /\ Progress(c, IF Matches(rows, c.input) # {} THEN "warned" ELSE "clear")
    /\ UNCHANGED <<Drawer, asked, rows, broken, refreshed>>

\* The insertion is a step of its own: neither server locks what it checked.
ServerSave(c) ==
    /\ \/ c.verb = "check" /\ c.state = "clear"
       \/ c.verb = "save" /\ c.state = "sent"
    /\ rows' = Created(rows, Spread(c.input, [call |-> c.id, confirmed |-> c.verb = "save"]),
                       Cardinality(rows) + 1)
    /\ Progress(c, "saved")
    /\ UNCHANGED <<Drawer, asked, broken, refreshed>>

(* The answers *)

Heard(c) == calls' = calls \ {c}

\* Mutant: a save that does not invalidate the views.
AnswerSavedInSilence(c) ==
    /\ c.waited /\ c.state = "saved"
    /\ Heard(c)
    /\ warning' = Nothing /\ pendingInput' = Nothing
    /\ open' = FALSE /\ saving' = FALSE
    /\ UNCHANGED <<form, categoryTouched, late, asked, rows, broken, refreshed>>

\* finishSaved, whatever drawer is open by now.
AnswerSaved(c) ==
    /\ c.waited /\ c.state = "saved"
    /\ Heard(c)
    /\ refreshed' = rows
    /\ warning' = Nothing /\ pendingInput' = Nothing
    /\ open' = FALSE /\ saving' = FALSE
    /\ UNCHANGED <<form, categoryTouched, late, asked, rows, broken>>

AnswerWarned(c) ==
    /\ c.waited /\ c.state = "warned"
    /\ Heard(c)
    /\ pendingInput' = c.input /\ warning' = c.input
    /\ late' = c.moved
    /\ saving' = FALSE
    /\ UNCHANGED <<open, form, categoryTouched, asked, rows, broken, refreshed>>

\* An error, or a connection that breaks: the server may go on all the same.
AnswerLost(c) ==
    /\ c.waited
    /\ calls' = (calls \ {c}) \union
          (IF c.state \in {"warned", "saved"} THEN {} ELSE {[c EXCEPT !.waited = FALSE]})
    /\ broken' = broken \union {c.id}
    /\ saving' = FALSE
    /\ UNCHANGED <<open, form, categoryTouched, warning, late, pendingInput,
                   asked, rows, refreshed>>

Next ==
    \/ Open \/ Close \/ EditField \/ PickCategory
    \/ Submit \/ SaveAnyway \/ CancelWarning
    \/ \E c \in calls : \/ ServerCheck(c) \/ ServerSave(c)
                        \/ AnswerSaved(c) \/ AnswerWarned(c) \/ AnswerLost(c)

Spec == Init /\ [][Next]_vars

-----------------------------------------------------------------------------
(* Properties *)

\* The variables keep their types.
TypeOK ==
    /\ open \in BOOLEAN /\ form \in Form /\ categoryTouched \in BOOLEAN
    /\ saving \in BOOLEAN /\ late \in BOOLEAN
    /\ warning \in Inputs \union {Nothing} /\ pendingInput \in Inputs \union {Nothing}
    /\ calls \subseteq Call /\ asked \in 0..MaxCalls
    /\ rows \subseteq Row /\ refreshed \subseteq rows
    /\ broken \subseteq 1..MaxCalls

\* The drawer waits for one call at a time and shows it by its disabled buttons,
\* through every closing and opening: a second click never saves twice.
OneCallAtATime ==
    /\ saving = (\E c \in calls : c.waited)
    /\ \A c, d \in calls : c.waited /\ d.waited => c = d

\* Two saved entries are the same purchase, within the days of the warning, only
\* if the later one was confirmed by Save anyway or the answer of one of the two
\* never came: a retry is warned about what the lost call had saved.
DoubledOnlyWhenConfirmed ==
    \A r, s \in rows :
        r.id < s.id /\ s.call # 0 /\ SamePurchase(r, s, 3) /\ ~s.confirmed
            => {r.call, s.call} \intersect broken # {}

\* Save anyway saves what was submitted before the warning.  It is the purchase
\* the form shows at the click (its date and category aside: editing those does
\* not withdraw the warning), unless the form moved before the warning came.
SavesWhatIsShown ==
    \A c \in calls :
        c.verb = "save" /\ ~c.late =>
            /\ c.input.description = c.shown.description
            /\ c.input.amount = Input(c.shown).amount

\* A saved entry that the views have not been told of is one whose call is still
\* waited for or whose answer never came: nothing is saved in silence.
TheViewsAreTold ==
    \A r \in rows \ refreshed :
        \/ r.call \in broken
        \/ \E c \in calls : c.id = r.call /\ c.waited /\ saving
=============================================================================
