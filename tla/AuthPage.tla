------------------------------- MODULE AuthPage -------------------------------
\* The sign-in page (frontend/src/pages/AuthPage.tsx): five modes of one form,
\* a submission that may be answered after the form has moved on, and the answers
\* of Cognito (auth/cognito.ts), which are any the form can tell apart.
EXTENDS Naturals

CONSTANTS
    Accounts,      \* the addresses, each with the account it names
    RequireAuth    \* what /health says

NoOne == "no one"

ASSUME AuthPageAssumption == NoOne \notin Accounts /\ RequireAuth \in BOOLEAN

VARIABLES
    form,       \* the state of the mounted page
    submits,    \* the calls of onSubmit that have not returned (edited is history:
                \* the address was edited while the page awaited the answer)
    shownTo,    \* history: the account whose answer opened the mode
    retyped     \* history: the address was edited while that answer was awaited

auth_vars == <<form, submits, shownTo, retyped>>

Modes == {"login", "register", "confirm", "forgot", "forgotConfirm"}

BlankForm == [mode |-> "login", email |-> NoOne, busy |-> FALSE,
              error |-> FALSE, authRequired |-> FALSE]

AuthInit == form = BlankForm /\ submits = {} /\ shownTo = NoOne /\ retyped = FALSE

\* The passwords and the code, which reset() clears, are not told apart.
Reset(mode) == [form EXCEPT !.mode = mode, !.error = FALSE]

Health(mock) ==
    /\ RequireAuth /\ ~mock /\ ~form.authRequired
    /\ form' = [form EXCEPT !.authRequired = TRUE]
    /\ UNCHANGED <<submits, shownTo, retyped>>

\* The address is read-only in the two modes that ask for a code.
TypeEmail(a) ==
    /\ form.mode \notin {"confirm", "forgotConfirm"} /\ a # form.email
    /\ form' = [form EXCEPT !.email = a]
    /\ submits' = {[s EXCEPT !.edited = @ \/ s.here] : s \in submits}
    /\ UNCHANGED <<shownTo, retyped>>

\* The links: Back, Forgot password, and between login and register.
Linked(from, to) == <<from, to>> \in
    {<<"forgotConfirm", "forgot">>, <<"confirm", "login">>, <<"forgot", "login">>,
     <<"login", "forgot">>, <<"login", "register">>, <<"register", "login">>}

FollowLink(to) ==
    /\ Linked(form.mode, to)
    /\ form' = Reset(to)
    /\ UNCHANGED <<submits, shownTo, retyped>>

Mismatch ==
    /\ form.mode = "register" /\ form.email # NoOne /\ ~form.busy
    /\ form' = [form EXCEPT !.error = TRUE]
    /\ UNCHANGED <<submits, shownTo, retyped>>

Submit ==
    /\ form.email # NoOne /\ ~form.busy
    /\ form' = [form EXCEPT !.busy = TRUE, !.error = FALSE]
    /\ submits' = submits \union {[mode |-> form.mode, email |-> form.email,
                                   here |-> TRUE, edited |-> FALSE]}
    /\ UNCHANGED <<shownTo, retyped>>

\* A page that was left has nothing to show the answer in.
Answered(s, state) ==
    /\ submits' = submits \ {s}
    /\ form' = IF s.here THEN [state EXCEPT !.busy = FALSE] ELSE form

\* Where a good answer leads; setEmail puts back the address it is about.
Leads == [register |-> "confirm", forgot |-> "forgotConfirm",
          confirm |-> "login", forgotConfirm |-> "login"]

\* Mutant: the address on the form is kept.
AcceptedAsTyped(s) ==
    /\ s.mode # "login"
    /\ Answered(s, Reset(Leads[s.mode]))
    /\ shownTo' = IF s.here THEN s.email ELSE shownTo
    /\ retyped' = (retyped /\ ~s.here)

Accepted(s) ==
    /\ s.mode # "login"
    /\ Answered(s, IF s.mode \in {"register", "forgot"}
                   THEN [Reset(Leads[s.mode]) EXCEPT !.email = s.email]
                   ELSE Reset(Leads[s.mode]))
    /\ shownTo' = IF s.here THEN s.email ELSE shownTo
    /\ retyped' = (retyped /\ ~s.here)

Refused(s) ==
    /\ Answered(s, [form EXCEPT !.error = TRUE])
    /\ UNCHANGED <<shownTo, retyped>>

\* UserNotConfirmedException, whatever was submitted: to the page that asks for
\* the code, for the address that is on the form by now.
NotConfirmed(s) ==
    /\ Answered(s, [Reset("confirm") EXCEPT !.error = TRUE])
    /\ shownTo' = IF s.here THEN s.email ELSE shownTo
    /\ retyped' = IF s.here THEN s.edited ELSE retyped

\* The page is unmounted; what was submitted goes on without it.
LeavePage(left) ==
    /\ form' = BlankForm /\ retyped' = FALSE /\ shownTo' = NoOne
    /\ submits' = {[s EXCEPT !.here = FALSE] : s \in left}

AuthUser ==
    \/ \E a \in Accounts : TypeEmail(a)
    \/ \E m \in Modes : FollowLink(m)
    \/ Mismatch \/ Submit

AuthBackground == \E s \in submits : Accepted(s) \/ Refused(s) \/ NotConfirmed(s)

-----------------------------------------------------------------------------
(* Properties *)

\* The page that asks for a code shows the account whose submission led there,
\* unless the address was edited while an answer that the account is not confirmed
\* was awaited: that answer does not put it back.
AsksItsAccount ==
    form.mode \in {"confirm", "forgotConfirm"} /\ ~retyped => form.email = shownTo
=============================================================================
