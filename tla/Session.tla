------------------------------- MODULE Session -------------------------------
\* Who the web client works for (context/auth.tsx, api/client.ts, App.tsx): the
\* session restored on a load, a login that may be answered after the sign-in
\* page was left, guests, logouts, the demo data of Settings and reloads, with
\* the sign-in page and the chat that the status mounts and unmounts.
EXTENDS ChatClient, AuthPage

CONSTANT MaxMoves   \* bound: steps of the user in a behaviour

Guest == "guest"
Demo  == "demo-user"

ASSUME SessionAssumption == {Guest, Demo} \intersect (Accounts \union {NoOne}) = {} /\ MaxMoves \in Nat

VARIABLES
    status,
    user,       \* the account AuthProvider holds, or NoOne
    userId,     \* localStorage["budgetbot.userId"]: the X-User-Id of requests
    token,      \* whose id token requests bear, or NoOne
    guestKey,   \* localStorage["budgetbot.guest"]
    mock,       \* localStorage["budgetbot.useMock"]
    signedIn,   \* the account whose session Cognito's library keeps, or NoOne
    moves,
    toggled,    \* history: demo data were switched since the account was resolved
    lapsed,     \* history: a restore did not get the session that is kept
    mixed       \* history: the identity changed under a conversation that stayed

identity_vars == <<status, user, userId, token, guestKey, mock, signedIn, toggled, lapsed>>
vars == <<chat_vars, auth_vars, identity_vars, moves, mixed>>

Init ==
    /\ ChatInit /\ AuthInit
    /\ status = "loading" /\ user = NoOne /\ token = NoOne /\ guestKey = FALSE
    /\ mock \in BOOLEAN /\ signedIn \in Accounts \union {NoOne}
    /\ userId = IF signedIn = NoOne THEN Demo ELSE signedIn
    /\ moves = 0 /\ toggled = FALSE /\ lapsed = FALSE /\ mixed = FALSE

Resolve(a) ==
    /\ status' = "authed" /\ user' = a /\ userId' = a /\ token' = a
    /\ mock' = FALSE /\ toggled' = FALSE

NoAccount(to, id) ==
    /\ status' = to /\ user' = NoOne /\ userId' = id /\ token' = NoOne
    /\ UNCHANGED <<mock, toggled>>

(* The effect of AuthProvider: getCurrentUser() refreshes the kept session. *)

RestoreAccount ==
    /\ status = "loading" /\ signedIn # NoOne
    /\ Resolve(signedIn)
    /\ Mount(stored)
    /\ mixed' = (mixed \/ (lapsed /\ userId # signedIn))
    /\ UNCHANGED <<guestKey, signedIn, lapsed, moves, auth_vars>>

\* No session is kept, or it has expired, or the refresh does not get through.
RestoreNone ==
    /\ status = "loading"
    /\ lapsed' = (lapsed \/ signedIn # NoOne)
    /\ IF guestKey
       THEN /\ NoAccount("guest", Guest) /\ Mount(stored)
            /\ mixed' = (mixed \/ (lapsed' /\ userId # Guest))
       ELSE NoAccount("unauthed", userId) /\ UNCHANGED <<chat_vars, mixed>>
    /\ UNCHANGED <<guestKey, signedIn, moves, auth_vars>>

\* login() after its await.  The shell is there already when the user went on as
\* a guest meanwhile: then the conversation stays on the screen.
LoginAnswered(s) ==
    /\ s.mode = "login"
    /\ Resolve(s.email)
    /\ guestKey' = FALSE /\ signedIn' = s.email /\ lapsed' = FALSE
    /\ LeavePage(submits \ {s})
    /\ IF Mounted
       THEN /\ stored' = NoChat /\ mixed' = TRUE
            /\ UNCHANGED <<chat, streaming, abortRef, sends, sent, sessions, crossed>>
       ELSE Mount(NoChat) /\ mixed' = FALSE
    /\ UNCHANGED moves

\* Mutant: the conversation in localStorage is loaded.
ContinueWithChat ==
    /\ status = "unauthed" /\ ~form.authRequired
    /\ NoAccount("guest", Guest)
    /\ guestKey' = TRUE
    /\ Mount(stored)
    /\ LeavePage(submits)
    /\ UNCHANGED <<signedIn, lapsed, mixed>>

ContinueAsGuest ==
    /\ status = "unauthed" /\ ~form.authRequired
    /\ NoAccount("guest", Guest)
    /\ guestKey' = TRUE
    /\ Mount(NoChat) /\ mixed' = FALSE
    /\ LeavePage(submits)
    /\ UNCHANGED <<signedIn, lapsed>>

\* Mutant: the session of Cognito's library is kept.
LogoutKeepsSession ==
    /\ Mounted
    /\ NoAccount("unauthed", userId)
    /\ guestKey' = FALSE /\ lapsed' = FALSE /\ UNCHANGED signedIn
    /\ Unmount /\ stored' = NoChat /\ mixed' = FALSE
    /\ UNCHANGED auth_vars

Logout ==
    /\ Mounted
    /\ NoAccount("unauthed", userId)
    /\ signedIn' = NoOne /\ guestKey' = FALSE /\ lapsed' = FALSE
    /\ Unmount /\ stored' = NoChat /\ mixed' = FALSE
    /\ UNCHANGED auth_vars

ToggleMock ==
    /\ Mounted
    /\ mock' = ~mock /\ toggled' = TRUE
    /\ UNCHANGED <<status, user, userId, token, guestKey, signedIn, lapsed, mixed,
                   chat_vars, auth_vars>>

\* A reload, or a browser opened again: localStorage is what is left.
Reload ==
    /\ status # "loading" /\ status' = "loading"
    /\ user' = NoOne /\ token' = NoOne
    /\ chat' = NoChat /\ streaming' = FALSE /\ abortRef' = 0 /\ sends' = {}
    /\ LeavePage({})
    /\ UNCHANGED <<userId, guestKey, mock, signedIn, toggled, lapsed, mixed,
                   stored, sent, sessions, crossed>>

User ==
    \/ ContinueAsGuest \/ Logout \/ ToggleMock \/ Reload
    \/ Send(userId, mock) /\ UNCHANGED <<auth_vars, identity_vars, mixed>>
    \/ ResetChat /\ mixed' = FALSE /\ UNCHANGED <<auth_vars, identity_vars>>
    \/ status = "unauthed" /\ AuthUser /\ UNCHANGED <<chat_vars, identity_vars, mixed>>

Next ==
    \/ RestoreAccount \/ RestoreNone
    \/ \E s \in submits : LoginAnswered(s)
    \/ moves < MaxMoves /\ moves' = moves + 1 /\ User
    \/ ChatBackground /\ UNCHANGED <<auth_vars, identity_vars, moves, mixed>>
    \/ AuthBackground /\ UNCHANGED <<chat_vars, identity_vars, moves, mixed>>
    \/ /\ status = "unauthed" /\ Health(mock)
       /\ UNCHANGED <<chat_vars, identity_vars, moves, mixed>>

Spec == Init /\ [][Next]_vars

-----------------------------------------------------------------------------
(* Properties *)

Identities == Accounts \union {Guest}

\* An account is on the screen with its own token, header and session, and its own
\* data unless demo data were switched on since.  A guest has the guest's header
\* and key.  Neither a guest nor the sign-in page has a token, nor a session that
\* Cognito's library keeps, unless a restore failed to get it (lapsed).  Without
\* that, the header is of the session that is kept and a guest's key is only a
\* guest's, so a reload restores whom it left; with neither a session nor a key,
\* the header is of whoever was there last, and no page sends it.  The shell, and
\* the chat with it, is there exactly for an account or a guest, the sign-in page
\* only for neither.
IdentityIsOne ==
    /\ status \in {"loading", "unauthed", "guest", "authed"}
    /\ Mounted <=> status \in {"guest", "authed"}
    /\ status = "authed" =>
          /\ user \in Accounts /\ userId = user /\ token = user /\ signedIn = user
          /\ mock => toggled
    /\ status = "guest" => userId = Guest /\ guestKey
    /\ status = "unauthed" => ~guestKey
    /\ status \in {"guest", "unauthed"} => signedIn = NoOne \/ lapsed
    /\ ~lapsed =>
          /\ signedIn # NoOne => userId = signedIn /\ ~guestKey
          /\ guestKey => userId = Guest
    /\ status # "authed" => user = NoOne /\ token = NoOne
    /\ status # "unauthed" => form = BlankForm /\ \A s \in submits : ~s.here

\* Every exchange on the screen and in localStorage is of the identity in force,
\* unless a login was answered when the shell was there for a guest, or a session
\* that a restore had failed to get came back.
ChatIsOfIdentity ==
    Mounted /\ ~mixed =>
        \A x \in chat.exchanges \union stored.exchanges : x.who = userId
=============================================================================
