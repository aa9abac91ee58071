---------------------------- MODULE SessionProofs ----------------------------
(***************************************************************************)
(* Proofs about Session for every set of accounts and every bound: the     *)
(* identity, the conversation and the sign-in form have an inductive       *)
(* invariant each, and every step keeps the three.                         *)
(***************************************************************************)
EXTENDS Session, TLAPS

Exchange     == [id : Nat, who : Identities \union {Demo}, answer : {"empty", "text", "error"}]
Conversation == [session : Nat, exchanges : SUBSET Exchange]
Sending      == [id : Nat, session : Nat, mock : BOOLEAN, aborted : BOOLEAN, here : BOOLEAN]

\* A session id is new when it is made, a widget that is not there runs nothing.
ChatInv ==
    /\ chat \in Conversation /\ stored \in Conversation
    /\ streaming \in BOOLEAN /\ abortRef \in Nat
    /\ sends \subseteq Sending /\ \A s \in sends : s.session <= sessions
    /\ chat.session <= sessions /\ stored.session <= sessions
    /\ sent \in Nat /\ sessions \in Nat /\ crossed \subseteq Nat
    /\ chat.session = 0 => chat = NoChat
    /\ stored.session = 0 => stored = NoChat
    /\ ~Mounted => ~streaming /\ \A s \in sends : ~s.here
    /\ OneAnswerAtATime

Form       == [mode : Modes, email : Accounts \union {NoOne}, busy : BOOLEAN,
               error : BOOLEAN, authRequired : BOOLEAN]
Submission == [mode : Modes, email : Accounts, here : BOOLEAN, edited : BOOLEAN]

\* The form waits for one submission, which is about the address on the form
\* unless that was edited.
FormInv ==
    /\ form \in Form /\ submits \subseteq Submission
    /\ shownTo \in Accounts \union {NoOne} /\ retyped \in BOOLEAN
    /\ \A s \in submits : s.here => form.busy
    /\ \A s, q \in submits : s.here /\ q.here => s = q
    /\ \A s \in submits : s.here /\ ~s.edited => form.email = s.email
    /\ AsksItsAccount

\* Who owns what the browser keeps between a logout and the next load.
IdentityInv ==
    /\ userId \in Identities \union {Demo} /\ signedIn \in Accounts \union {NoOne}
    /\ guestKey \in BOOLEAN /\ mock \in BOOLEAN /\ moves \in Nat
    /\ toggled \in BOOLEAN /\ lapsed \in BOOLEAN /\ mixed \in BOOLEAN
    /\ IdentityIsOne

\* Exchanges of another identity came by one of the two ways history keeps.
OwnerInv == ~mixed => \A x \in chat.exchanges \union stored.exchanges : x.who = userId

SInv == ChatInv /\ FormInv /\ IdentityInv /\ OwnerInv

-----------------------------------------------------------------------------
(* The conversation *)

USE ChatClientAssumption, AuthPageAssumption, SessionAssumption

\* What a first render loads is what localStorage held, or a fresh conversation.
LEMMA MountKeepsChatInv ==
    ASSUME ChatInv, ~Mounted, NEW found, found \in {stored, NoChat}, Mount(found)
    PROVE  ChatInv' /\ Mounted'
<1>1. /\ chat' \in Conversation /\ chat'.session # 0 /\ chat'.session <= sessions'
      /\ sessions' \in Nat /\ sessions <= sessions'
    BY DEF ChatInv, Mount, Conversation, NoChat
<1>2. \A s \in sends : ~s.here
    BY DEF ChatInv
<1>3. OneAnswerAtATime'
    BY <1>2 DEF ChatInv, Mount, OneAnswerAtATime
<1>4. \A s \in sends : s.session <= sessions'
    BY <1>1 DEF ChatInv, Sending
<1> QED
    BY <1>1, <1>3, <1>4 DEF ChatInv, Mount, Mounted

LEMMA UnmountKeepsChatInv ==
    ASSUME ChatInv, Unmount, stored' = NoChat
    PROVE  ChatInv' /\ ~Mounted'
<1>1. \A s \in sends' : /\ s \in Sending /\ ~s.here /\ s.session <= sessions
    BY DEF ChatInv, Unmount, Sending
<1>2. chat' = NoChat /\ stored' = NoChat /\ sessions' = sessions /\ sessions \in Nat
    BY DEF ChatInv, Unmount
<1>3. NoChat \in Conversation /\ NoChat.session = 0 /\ 0 <= sessions
    BY <1>2 DEF NoChat, Conversation
<1>4. ~Mounted' /\ OneAnswerAtATime'
    BY <1>2, <1>3 DEF Mounted, OneAnswerAtATime
<1> QED
    BY <1>1, <1>2, <1>3, <1>4 DEF ChatInv, Unmount

LEMMA SendKeepsChatInv ==
    ASSUME ChatInv, NEW m \in BOOLEAN, NEW w \in Identities \union {Demo}, Send(w, m)
    PROVE  ChatInv' /\ Mounted'
<1> DEFINE new == [id |-> sent + 1, session |-> chat.session, mock |-> m,
                   aborted |-> FALSE, here |-> TRUE]
<1>1. chat' \in Conversation /\ chat'.session = chat.session /\ chat.session # 0
    BY DEF ChatInv, Send, Idle, Mounted, Conversation, Exchange
<1>2. new \in Sending /\ chat.session \in Nat
    BY DEF ChatInv, Sending, Conversation
<1>3. sends' = sends \union {new} /\ streaming' = TRUE /\ crossed' = crossed
    BY DEF Send
<1>4. OneAnswerAtATime'
  <2> SUFFICES ASSUME chat.session \notin crossed PROVE OneAnswerAtATime'
      BY <1>1, <1>3 DEF OneAnswerAtATime
  <2>1. \A s \in sends : ~(s.here /\ s.session = chat.session)
      BY <1>1 DEF ChatInv, OneAnswerAtATime, Send, Idle, Mounted
  <2>2. {s \in sends' : s.here /\ s.session = chat'.session} = {new}
      BY <1>1, <1>3, <2>1
  <2> HIDE DEF new
  <2> QED
      BY <1>3, <2>2 DEF OneAnswerAtATime
<1>5. \A s \in sends' : s.session <= sessions
    BY <1>2, <1>3 DEF ChatInv, Sending, Send, Idle, Mounted
<1>6. /\ chat'.session <= sessions' /\ chat'.session # 0 /\ stored' = chat' /\ Mounted'
      /\ sent' \in Nat /\ abortRef' \in Nat /\ sessions' = sessions
    BY <1>1 DEF ChatInv, Send, Mounted
<1>7. sends' \subseteq Sending
    BY <1>2, <1>3 DEF ChatInv
<1> QED
    BY <1>1, <1>3, <1>4, <1>5, <1>6, <1>7 DEF ChatInv

\* The setter of an answer leaves the session and the owners of the exchanges.
LEMMA AnswerKeepsConversation ==
    ASSUME ChatInv, NEW s \in sends, NEW answer \in {"text", "error"}, NEW from,
           Answer(s, answer, from)
    PROVE  /\ chat' \in Conversation /\ chat'.session = chat.session
           /\ chat'.session = 0 => chat' = NoChat
           /\ stored' = chat' \/ UNCHANGED <<chat, stored>>
           /\ \A x \in chat'.exchanges : \E y \in chat.exchanges : x.who = y.who
<1>1. CASE s.here
  <2>1. Mounted
      BY <1>1 DEF ChatInv
  <2>2. chat.exchanges \subseteq Exchange /\ chat.session \in Nat /\ chat.session # 0
      BY <2>1 DEF ChatInv, Conversation, Mounted
  <2> DEFINE put(x) == IF x.id = s.id /\ x.answer \in from
                       THEN [x EXCEPT !.answer = answer] ELSE x
  <2>3. \A x \in chat.exchanges : put(x) \in Exchange /\ put(x).who = x.who
      BY <2>2 DEF Exchange
  <2>4. chat' = [chat EXCEPT !.exchanges = {put(x) : x \in chat.exchanges}] /\ stored' = chat'
      BY <1>1 DEF Answer
  <2>5. chat' = [session |-> chat.session, exchanges |-> {put(x) : x \in chat.exchanges}]
      BY <2>4 DEF ChatInv, Conversation
  <2> HIDE DEF put
  <2>6. {put(x) : x \in chat.exchanges} \subseteq Exchange
      BY <2>3
  <2>7. chat'.session = chat.session /\ chat'.exchanges = {put(x) : x \in chat.exchanges}
      BY <2>5
  <2>8. \A x \in chat'.exchanges : \E y \in chat.exchanges : x.who = y.who
      BY <2>3, <2>7
  <2>9. chat' \in Conversation
      BY <2>2, <2>5, <2>6 DEF Conversation
  <2> QED
      BY <2>2, <2>4, <2>7, <2>8, <2>9
<1>2. CASE ~s.here
    BY <1>2 DEF Answer, ChatInv
<1> QED
    BY <1>1, <1>2

\* The end of a send, after its answer was set or not.
LEMMA FinallyKeepsChatInv ==
    ASSUME ChatInv, NEW s \in sends, Finally(s),
           chat' \in Conversation, chat'.session = chat.session,
           chat'.session = 0 => chat' = NoChat,
           stored' = chat' \/ stored' = stored
    PROVE  ChatInv'
<1>0. \A q \in sends : q.session \in Nat
    BY DEF ChatInv, Sending
<1>a. sends' = sends \ {s} /\ streaming' \in BOOLEAN /\ abortRef' \in Nat
  <2>1. streaming \in BOOLEAN /\ abortRef \in Nat /\ sends' = sends \ {s}
      BY DEF ChatInv, Finally
  <2>2. streaming' = FALSE \/ streaming' = streaming
      BY Zenon DEF Finally
  <2>3. abortRef' = 0 \/ abortRef' = abortRef
      BY Zenon DEF Finally
  <2>4. streaming' \in BOOLEAN
      BY <2>1, <2>2, Zenon
  <2> QED
      BY <2>1, <2>3, <2>4
<1>b. {q.session : q \in {p \in sends \ {s} : p.here}} \subseteq Nat
    BY <1>0
<1>c. crossed \subseteq crossed' /\ crossed' \subseteq Nat
    BY <1>b DEF ChatInv, Finally
<1>1. /\ sends' = sends \ {s} /\ crossed \subseteq crossed' /\ crossed' \subseteq Nat
      /\ streaming' \in BOOLEAN /\ abortRef' \in Nat
    BY <1>a, <1>c
<1>2. OneAnswerAtATime'
  <2> SUFFICES ASSUME Mounted, chat.session \notin crossed' PROVE OneAnswerAtATime'
      BY DEF OneAnswerAtATime, Mounted
  <2> DEFINE run == {q \in sends : q.here /\ q.session = chat.session}
             run2 == {q \in sends' : q.here /\ q.session = chat'.session}
  <2>1. streaming = (run # {}) /\ \A p, q \in run : p = q
      BY <1>1 DEF ChatInv, OneAnswerAtATime
  <2>2. run2 = run \ {s}
      BY <1>1
  <2>3. CASE s.here
    <3>1. streaming' = FALSE /\ \A q \in sends \ {s} : q.here => q.session \in crossed'
        BY <2>3 DEF Finally
    <3>2. run2 = {}
        BY <3>1, <1>1
    <3> HIDE DEF run2
    <3>3. streaming' = (run2 # {}) /\ \A p, q \in run2 : p = q
        BY <3>1, <3>2
    <3> QED
        BY <3>3 DEF OneAnswerAtATime, run2
  <2>4. CASE ~s.here
    <3>1. streaming' = streaming /\ s \notin run
        BY <2>4 DEF Finally
    <3> HIDE DEF run, run2
    <3>2. streaming' = (run2 # {}) /\ \A p, q \in run2 : p = q
        BY <2>1, <2>2, <3>1
    <3> QED
        BY <3>2 DEF OneAnswerAtATime, run2
  <2> QED
      BY <2>3, <2>4
<1>3. ~Mounted' => ~streaming' /\ \A q \in sends' : ~q.here
    BY <1>1 DEF ChatInv, Mounted, Finally
<1> QED
    BY <1>1, <1>2, <1>3 DEF ChatInv, Finally

LEMMA BackgroundKeepsChatInv ==
    ASSUME ChatInv, ChatBackground
    PROVE  /\ ChatInv' /\ (Mounted' <=> Mounted)
           /\ stored' = chat' \/ stored' = stored
           /\ \A x \in chat'.exchanges : \E y \in chat.exchanges : x.who = y.who
<1> PICK s \in sends : Chunk(s) \/ StreamEnds(s) \/ StreamFails(s)
    BY DEF ChatBackground
<1>1. CASE Chunk(s)
  <2>1. Answer(s, "text", {"empty", "text"})
      BY <1>1 DEF Chunk
  <2>2. /\ chat' \in Conversation /\ chat'.session = chat.session
        /\ chat'.session = 0 => chat' = NoChat
        /\ stored' = chat' \/ UNCHANGED <<chat, stored>>
        /\ \A x \in chat'.exchanges : \E y \in chat.exchanges : x.who = y.who
      BY <2>1, AnswerKeepsConversation
  <2>3. OneAnswerAtATime'
      BY <1>1, <2>2 DEF ChatInv, OneAnswerAtATime, Mounted, Chunk
  <2>4. Mounted' <=> Mounted
      BY <2>2 DEF Mounted
  <2>5. stored' \in Conversation /\ stored'.session <= sessions /\ (stored'.session = 0 => stored' = NoChat)
      BY <2>2 DEF ChatInv
  <2> QED
      BY <1>1, <2>2, <2>3, <2>4, <2>5 DEF ChatInv, Chunk
<1>2. CASE StreamEnds(s)
    BY <1>2, FinallyKeepsChatInv DEF StreamEnds, ChatInv, Mounted
<1>3. CASE StreamFails(s)
  <2>1. Answer(s, "error", {"empty"}) /\ Finally(s)
      BY <1>3 DEF StreamFails
  <2>2. /\ chat' \in Conversation /\ chat'.session = chat.session
        /\ chat'.session = 0 => chat' = NoChat
        /\ stored' = chat' \/ UNCHANGED <<chat, stored>>
        /\ \A x \in chat'.exchanges : \E y \in chat.exchanges : x.who = y.who
      BY <2>1, AnswerKeepsConversation
  <2>3. ChatInv'
      BY <2>1, <2>2, FinallyKeepsChatInv
  <2> QED
      BY <2>2, <2>3 DEF Mounted
<1> QED
    BY <1>1, <1>2, <1>3

\* A conversation made anew has no send: those there are have older sessions.
LEMMA ResetKeepsChatInv ==
    ASSUME ChatInv, ResetChat
    PROVE  ChatInv' /\ Mounted' /\ chat'.exchanges = {} /\ stored' = chat'
<1> DEFINE hit == {s \in sends : s.here /\ s.id = abortRef}
           cut == {s \in hit : ~s.mock}
           off == {[s EXCEPT !.aborted = TRUE] : s \in hit \ cut}
<1>1. /\ sends' = (sends \ hit) \union off
      /\ chat' = [session |-> sessions + 1, exchanges |-> {}] /\ stored' = chat'
      /\ sessions' = sessions + 1 /\ sessions \in Nat
    BY DEF ResetChat, ChatInv
<1>2. \A s \in sends : s \in Sending /\ s.session <= sessions
    BY DEF ChatInv
<1>3. \A s \in off : s \in Sending /\ s.session <= sessions
    BY <1>2 DEF Sending
<1>4. abortRef' \in Nat
  <2>1. abortRef' = 0 \/ abortRef' = abortRef
      BY Zenon DEF ResetChat
  <2> QED
      BY <2>1 DEF ChatInv
<1>5. \A s \in sends' : s \in Sending /\ s.session <= sessions
    BY <1>1, <1>2, <1>3
<1> HIDE DEF off, hit
<1>6. chat' \in Conversation /\ chat'.session = sessions + 1 /\ Mounted' /\ chat'.exchanges = {}
    BY <1>1 DEF Conversation, Mounted
<1>7. \A s \in sends' : s.session # chat'.session /\ s.session <= sessions'
    BY <1>1, <1>5, <1>6 DEF Sending
<1>8. streaming' = FALSE
    BY DEF ResetChat
<1>9. OneAnswerAtATime'
    BY <1>7, <1>8 DEF OneAnswerAtATime
<1>10. sent' \in Nat /\ crossed' \subseteq Nat /\ chat'.session # 0 /\ chat'.session <= sessions'
    BY <1>1, <1>6 DEF ResetChat, ChatInv
<1>11. ~streaming' /\ streaming' \in BOOLEAN
    BY <1>8
<1>12. sends' \subseteq Sending /\ \A s \in sends' : s.session <= sessions'
    BY <1>5, <1>7
<1> QED
    BY <1>1, <1>4, <1>6, <1>9, <1>10, <1>11, <1>12 DEF ChatInv

-----------------------------------------------------------------------------
(* The form *)

\* What the setters make of the form is a form.
LEMMA ResetType ==
    ASSUME form \in Form, NEW m \in Modes
    PROVE  /\ Reset(m) \in Form /\ Reset(m).mode = m
           /\ Reset(m).email = form.email /\ Reset(m).busy = form.busy
BY DEF Form, Reset

LEMMA UserKeepsFormInv ==
    ASSUME FormInv, AuthUser
    PROVE  FormInv'
<1> USE DEF FormInv
<1>1. ASSUME NEW a \in Accounts, TypeEmail(a) PROVE FormInv'
  <2>1. /\ form' \in Form /\ form'.mode = form.mode /\ form'.email = a /\ form'.busy = form.busy
        /\ form'.mode \notin {"confirm", "forgotConfirm"}
      BY <1>1 DEF TypeEmail, Form
  <2> DEFINE edit(s) == [s EXCEPT !.edited = @ \/ s.here]
  <2>2. \A s \in submits : /\ edit(s) \in Submission /\ edit(s).here = s.here
                           /\ s.here => edit(s).edited
      BY DEF Submission
  <2>3. submits' = {edit(s) : s \in submits} /\ shownTo' = shownTo /\ retyped' = retyped
      BY <1>1 DEF TypeEmail
  <2> HIDE DEF edit
  <2>4. /\ submits' \subseteq Submission
        /\ \A s \in submits' : s.here => form'.busy /\ s.edited
        /\ \A s, q \in submits' : s.here /\ q.here => s = q
      BY <2>1, <2>2, <2>3
  <2> QED
      BY <2>1, <2>3, <2>4 DEF AsksItsAccount
<1>2. ASSUME NEW m \in Modes, FollowLink(m) PROVE FormInv'
    BY <1>2, ResetType DEF FollowLink, AsksItsAccount, Linked
<1>3. CASE Mismatch
  <2>1. /\ form' \in Form /\ form'.mode = form.mode /\ form'.email = form.email
        /\ form'.busy = form.busy
      BY <1>3 DEF Mismatch, Form
  <2> QED
      BY <1>3, <2>1 DEF Mismatch, AsksItsAccount
<1>4. CASE Submit
  <2> DEFINE new == [mode |-> form.mode, email |-> form.email, here |-> TRUE, edited |-> FALSE]
  <2>1. /\ form' \in Form /\ form'.mode = form.mode /\ form'.email = form.email
        /\ form'.busy = TRUE /\ form.email \in Accounts /\ ~form.busy
      BY <1>4 DEF Submit, Form
  <2>2. new \in Submission /\ submits' = submits \union {new}
      BY <1>4, <2>1 DEF Submit, Form, Submission
  <2>3. \A s \in submits : ~s.here
      BY <2>1
  <2>4. UNCHANGED <<shownTo, retyped>>
      BY <1>4 DEF Submit
  <2>5. AsksItsAccount'
      BY <2>1, <2>4 DEF AsksItsAccount
  <2>6. form'.busy
      BY <2>1
  <2>7. \A s \in submits' : s.here => s = new
      BY <2>2, <2>3
  <2>8. \A s \in submits' : s.here /\ ~s.edited => form'.email = s.email
      BY <2>1, <2>7
  <2>9. submits' \subseteq Submission /\ form' \in Form
      BY <2>1, <2>2
  <2> HIDE DEF new
  <2>10. /\ \A s \in submits' : s.here => form'.busy
         /\ \A s, q \in submits' : s.here /\ q.here => s = q
      BY <2>6, <2>7
  <2>11. shownTo' \in Accounts \union {NoOne} /\ retyped' \in BOOLEAN
      BY <2>4
  <2> QED
      BY <2>5, <2>8, <2>9, <2>10, <2>11
<1> QED
    BY <1>1, <1>2, <1>3, <1>4 DEF AuthUser

\* An answer takes its submission away, and the form of a page that was left
\* stays as it is.
LEMMA BackgroundKeepsFormInv ==
    ASSUME FormInv, AuthBackground
    PROVE  FormInv'
<1> USE DEF FormInv
<1> PICK s \in submits : Accepted(s) \/ Refused(s) \/ NotConfirmed(s)
    BY DEF AuthBackground
<1>0. s \in Submission /\ submits' = submits \ {s}
    BY DEF Accepted, Refused, NotConfirmed, Answered
<1>1. CASE ~s.here
  <2>1. form' = form /\ shownTo' = shownTo /\ retyped' = retyped
      BY <1>1 DEF Accepted, Refused, NotConfirmed, Answered
  <2> QED
      BY <1>0, <2>1 DEF AsksItsAccount
<1>2. CASE s.here
  <2>1. \A q \in submits' : ~q.here
      BY <1>0, <1>2
  <2>2. CASE Accepted(s)
    <3>1. s.mode \in {"register", "forgot", "confirm", "forgotConfirm"}
        BY <1>0, <2>2 DEF Accepted, Submission, Modes
    <3>2. shownTo' = s.email /\ retyped' \in BOOLEAN /\ s.email \in Accounts
        BY <1>0, <1>2, <2>2 DEF Accepted, Submission
    <3>3. CASE s.mode \in {"register", "forgot"}
      <4>1. Leads[s.mode] \in Modes
          BY <3>3 DEF Leads, Modes
      <4>2. form' = [[Reset(Leads[s.mode]) EXCEPT !.email = s.email] EXCEPT !.busy = FALSE]
          BY <1>2, <2>2, <3>3 DEF Accepted, Answered
      <4> DEFINE to == Reset(Leads[s.mode])
      <4>3. to \in Form
          BY <4>1, ResetType
      <4>4. form' = [[to EXCEPT !.email = s.email] EXCEPT !.busy = FALSE]
          BY <4>2
      <4> HIDE DEF to
      <4>5. form' \in Form /\ form'.email = s.email
          BY <3>2, <4>3, <4>4 DEF Form
      <4> QED
          BY <1>0, <2>1, <3>2, <4>5 DEF AsksItsAccount
    <3>4. CASE s.mode \in {"confirm", "forgotConfirm"}
      <4>1. Leads[s.mode] = "login"
          BY <3>4 DEF Leads
      <4>2. form' = [Reset("login") EXCEPT !.busy = FALSE]
          BY <1>2, <2>2, <3>4, <4>1 DEF Accepted, Answered
      <4>3. form' \in Form /\ form'.mode = "login"
          BY <4>2, ResetType DEF Form, Modes
      <4> QED
          BY <1>0, <2>1, <3>2, <4>3 DEF AsksItsAccount
    <3> QED
        BY <3>1, <3>3, <3>4
  <2>3. CASE Refused(s)
    <3>1. /\ form' \in Form /\ form'.mode = form.mode /\ form'.email = form.email
          BY <1>2, <2>3 DEF Refused, Answered, Form
    <3> QED
        BY <1>0, <2>1, <2>3, <3>1 DEF Refused, AsksItsAccount
  <2>4. CASE NotConfirmed(s)
    <3>1. form' = [[Reset("confirm") EXCEPT !.error = TRUE] EXCEPT !.busy = FALSE]
        BY <1>2, <2>4 DEF NotConfirmed, Answered
    <3>2. form' \in Form /\ form'.email = form.email
        BY <3>1, ResetType DEF Form, Modes
    <3>3. shownTo' = s.email /\ retyped' = s.edited /\ s.edited \in BOOLEAN /\ s.email \in Accounts
        BY <1>0, <1>2, <2>4 DEF NotConfirmed, Submission
    <3> QED
        BY <1>0, <1>2, <2>1, <3>2, <3>3 DEF AsksItsAccount
  <2> QED
      BY <2>2, <2>3, <2>4
<1> QED
    BY <1>1, <1>2

LEMMA LeaveKeepsFormInv ==
    ASSUME FormInv, NEW left \in SUBSET submits, LeavePage(left)
    PROVE  FormInv' /\ form' = BlankForm /\ \A s \in submits' : ~s.here
<1>0. \A q \in left : /\ [q EXCEPT !.here = FALSE] \in Submission
                      /\ [q EXCEPT !.here = FALSE].here = FALSE
  <2>1. \A q \in left : q \in Submission
      BY DEF FormInv
  <2> QED
      BY <2>1 DEF Submission
<1>1. \A s \in submits' : s \in Submission /\ s.here = FALSE
    BY <1>0 DEF LeavePage
<1>2. form' \in Form /\ form' = BlankForm /\ form'.mode = "login"
    BY DEF LeavePage, BlankForm, Form, Modes
<1> QED
    BY <1>1, <1>2 DEF FormInv, LeavePage, AsksItsAccount

-----------------------------------------------------------------------------
(* The session *)

LEMMA InitSInv == Init => SInv
<1> SUFFICES ASSUME Init PROVE SInv
    OBVIOUS
<1> USE DEF Init, ChatInit, AuthInit
<1>1. NoChat \in Conversation /\ NoChat.session = 0 /\ NoChat.exchanges = {}
    BY DEF NoChat, Conversation
<1>2. ChatInv
  <2>1. ~Mounted /\ OneAnswerAtATime
      BY <1>1 DEF Mounted, OneAnswerAtATime
  <2>2. streaming \in BOOLEAN /\ ~streaming
      BY Zenon
  <2>3. chat = NoChat /\ stored = NoChat /\ sends = {} /\ abortRef = 0 /\ sent = 0
        /\ sessions = 0 /\ crossed = {}
      OBVIOUS
  <2> QED
      BY <1>1, <2>1, <2>2, <2>3 DEF ChatInv
<1>3. FormInv
    BY DEF FormInv, Form, BlankForm, Modes, AsksItsAccount
<1>4. IdentityInv
    BY <1>1 DEF IdentityInv, IdentityIsOne, Mounted, Identities
<1>5. OwnerInv
    BY <1>1 DEF OwnerInv
<1> QED
    BY <1>2, <1>3, <1>4, <1>5 DEF SInv

LEMMA SameForm == FormInv /\ UNCHANGED auth_vars => FormInv'
BY DEF FormInv, auth_vars, AsksItsAccount

LEMMA SameChat == ChatInv /\ UNCHANGED chat_vars => ChatInv' /\ (Mounted' <=> Mounted)
BY DEF ChatInv, chat_vars, OneAnswerAtATime, Mounted

\* Mount shows what was stored, or nothing.
LEMMA MountOwners ==
    ASSUME NEW found, Mount(found)
    PROVE  /\ stored' = chat'
           /\ found # NoChat => chat' = found
           /\ found = NoChat => chat'.exchanges = {}
BY DEF Mount

LEMMA RestoreKeepsSInv ==
    ASSUME SInv, RestoreAccount \/ RestoreNone
    PROVE  SInv'
<1> USE DEF SInv
<1>0. ~Mounted /\ status = "loading" /\ form = BlankForm /\ \A s \in submits : ~s.here
    BY DEF IdentityInv, IdentityIsOne, RestoreAccount, RestoreNone
<1>1. UNCHANGED auth_vars /\ FormInv' /\ form' = BlankForm /\ submits' = submits
    BY <1>0, SameForm DEF RestoreAccount, RestoreNone, auth_vars
<1>e. NoChat.exchanges = {}
    BY DEF NoChat
<1>2. CASE RestoreAccount
  <2>1. ChatInv' /\ Mounted'
      BY <1>0, <1>2, MountKeepsChatInv DEF RestoreAccount
  <2>2. /\ stored' = chat' /\ chat'.exchanges \subseteq stored.exchanges
      BY <1>2, MountOwners DEF RestoreAccount
  <2>3. /\ status' = "authed" /\ user' = signedIn /\ userId' = signedIn /\ token' = signedIn
        /\ mock' = FALSE /\ toggled' = FALSE /\ signedIn' = signedIn /\ signedIn \in Accounts
        /\ guestKey' = guestKey /\ lapsed' = lapsed /\ moves' = moves
        /\ mixed' = (mixed \/ (lapsed /\ userId # signedIn))
      BY <1>2 DEF RestoreAccount, Resolve, IdentityInv
  <2>4. IdentityInv'
      BY <1>0, <1>1, <2>1, <2>3 DEF IdentityInv, IdentityIsOne, Identities
  <2>5. OwnerInv'
    <3> SUFFICES ASSUME ~mixed' PROVE \A x \in stored.exchanges : x.who = userId'
        BY <2>2 DEF OwnerInv
    <3>1. userId' = userId
        BY <2>3 DEF IdentityInv, IdentityIsOne
    <3> QED
        BY <2>3, <3>1 DEF OwnerInv
  <2> QED
      BY <1>1, <2>1, <2>4, <2>5
<1>3. CASE RestoreNone /\ guestKey
  <2>1. ChatInv' /\ Mounted'
      BY <1>0, <1>3, MountKeepsChatInv DEF RestoreNone
  <2>2. /\ stored' = chat' /\ chat'.exchanges \subseteq stored.exchanges
      BY <1>3, MountOwners DEF RestoreNone
  <2>3. /\ status' = "guest" /\ user' = NoOne /\ userId' = Guest /\ token' = NoOne
        /\ mock' = mock /\ toggled' = toggled /\ signedIn' = signedIn
        /\ guestKey' = guestKey /\ lapsed' = (lapsed \/ signedIn # NoOne) /\ moves' = moves
        /\ mixed' = (mixed \/ (lapsed' /\ userId # Guest))
      BY <1>3 DEF RestoreNone, NoAccount
  <2>4. IdentityInv'
      BY <1>0, <1>1, <1>3, <2>1, <2>3 DEF IdentityInv, IdentityIsOne, Identities
  <2>5. OwnerInv'
    <3> SUFFICES ASSUME ~mixed' PROVE \A x \in stored.exchanges : x.who = userId'
        BY <2>2 DEF OwnerInv
    <3>1. userId' = userId
        BY <1>3, <2>3 DEF IdentityInv, IdentityIsOne
    <3> QED
        BY <2>3, <3>1 DEF OwnerInv
  <2> QED
      BY <1>1, <2>1, <2>4, <2>5
<1>4. CASE RestoreNone /\ ~guestKey
  <2>1. UNCHANGED chat_vars /\ ChatInv' /\ ~Mounted'
      BY <1>0, <1>4, SameChat DEF RestoreNone
  <2>2. /\ status' = "unauthed" /\ user' = NoOne /\ userId' = userId /\ token' = NoOne
        /\ mock' = mock /\ toggled' = toggled /\ signedIn' = signedIn /\ mixed' = mixed
        /\ guestKey' = guestKey /\ lapsed' = (lapsed \/ signedIn # NoOne) /\ moves' = moves
      BY <1>4 DEF RestoreNone, NoAccount
  <2>3. IdentityInv'
      BY <1>0, <1>1, <1>4, <2>1, <2>2 DEF IdentityInv, IdentityIsOne
  <2>4. OwnerInv'
      BY <2>1, <2>2 DEF OwnerInv, chat_vars
  <2> QED
      BY <1>1, <2>1, <2>3, <2>4
<1> QED
    BY <1>2, <1>3, <1>4

LEMMA LoginKeepsSInv ==
    ASSUME SInv, NEW s \in submits, LoginAnswered(s)
    PROVE  SInv'
<1> USE DEF SInv
<1>0. s.email \in Accounts
    BY DEF FormInv, Submission
<1>1. FormInv' /\ form' = BlankForm /\ \A q \in submits' : ~q.here
    BY LeaveKeepsFormInv DEF LoginAnswered
<1>2. /\ status' = "authed" /\ user' = s.email /\ userId' = s.email /\ token' = s.email
      /\ mock' = FALSE /\ toggled' = FALSE /\ signedIn' = s.email
      /\ guestKey' = FALSE /\ lapsed' = FALSE /\ moves' = moves
    BY DEF LoginAnswered, Resolve
<1>3. ChatInv' /\ Mounted' /\ OwnerInv' /\ mixed' \in BOOLEAN
  <2>1. CASE Mounted
    <3>1. /\ UNCHANGED <<chat, streaming, abortRef, sends, sent, sessions, crossed>>
          /\ stored' = NoChat /\ mixed' = TRUE
        BY <2>1 DEF LoginAnswered
    <3>2. NoChat \in Conversation /\ NoChat.session = 0
        BY DEF NoChat, Conversation
    <3>3. 0 <= sessions
        BY DEF ChatInv
    <3>4. OneAnswerAtATime' /\ Mounted'
        BY <2>1, <3>1 DEF ChatInv, OneAnswerAtATime, Mounted
    <3> QED
        BY <2>1, <3>1, <3>2, <3>3, <3>4 DEF ChatInv, Mounted, OwnerInv
  <2>2. CASE ~Mounted
    <3>1. Mount(NoChat) /\ mixed' = FALSE
        BY <2>2 DEF LoginAnswered
    <3>2. NoChat.exchanges = {}
        BY DEF NoChat
    <3> QED
        BY <2>2, <3>1, <3>2, MountKeepsChatInv, MountOwners DEF OwnerInv
  <2> QED
      BY <2>1, <2>2
<1>4. IdentityInv'
    BY <1>0, <1>1, <1>2, <1>3 DEF IdentityInv, IdentityIsOne, Identities
<1> QED
    BY <1>1, <1>3, <1>4

LEMMA UserKeepsSInv ==
    ASSUME SInv, moves' = moves + 1, User
    PROVE  SInv'
<1> USE DEF SInv
<1>m. moves' \in Nat
    BY DEF IdentityInv
<1>1. CASE ContinueAsGuest
  <2>1. status = "unauthed" /\ ~Mounted
      BY <1>1 DEF ContinueAsGuest, IdentityInv, IdentityIsOne
  <2>2. /\ status' = "guest" /\ user' = NoOne /\ userId' = Guest /\ token' = NoOne
        /\ mock' = mock /\ toggled' = toggled /\ signedIn' = signedIn
        /\ guestKey' = TRUE /\ lapsed' = lapsed /\ mixed' = FALSE
      BY <1>1 DEF ContinueAsGuest, NoAccount
  <2>3. ChatInv' /\ Mounted' /\ stored' = chat' /\ chat'.exchanges = {}
      BY <1>1, <2>1, MountKeepsChatInv, MountOwners DEF ContinueAsGuest
  <2>4. FormInv' /\ form' = BlankForm /\ \A q \in submits' : ~q.here
      BY <1>1, LeaveKeepsFormInv DEF ContinueAsGuest
  <2>5. IdentityInv'
      BY <1>m, <2>1, <2>2, <2>3, <2>4 DEF IdentityInv, IdentityIsOne, Identities
  <2> QED
      BY <2>3, <2>4, <2>5 DEF OwnerInv
<1>2. CASE Logout
  <2>1. status # "unauthed"
      BY <1>2 DEF Logout, IdentityInv, IdentityIsOne
  <2>2. /\ status' = "unauthed" /\ user' = NoOne /\ userId' = userId /\ token' = NoOne
        /\ mock' = mock /\ toggled' = toggled /\ signedIn' = NoOne
        /\ guestKey' = FALSE /\ lapsed' = FALSE /\ mixed' = FALSE
      BY <1>2 DEF Logout, NoAccount
  <2>3. ChatInv' /\ ~Mounted' /\ chat' = NoChat /\ stored' = NoChat
      BY <1>2, UnmountKeepsChatInv DEF Logout, Unmount
  <2>4. FormInv' /\ form' = form /\ submits' = submits
      BY <1>2, SameForm DEF Logout, auth_vars
  <2>5. NoChat.exchanges = {}
      BY DEF NoChat
  <2>6. IdentityInv'
      BY <1>m, <2>1, <2>2, <2>3, <2>4 DEF IdentityInv, IdentityIsOne
  <2> QED
      BY <2>3, <2>4, <2>5, <2>6 DEF OwnerInv
<1>3. CASE ToggleMock
  <2>1. FormInv' /\ ChatInv' /\ (Mounted' <=> Mounted)
      BY <1>3, SameForm, SameChat DEF ToggleMock
  <2>2. IdentityInv'
      BY <1>3, <1>m, <2>1 DEF ToggleMock, IdentityInv, IdentityIsOne, auth_vars
  <2>3. OwnerInv'
      BY <1>3 DEF ToggleMock, OwnerInv, chat_vars
  <2> QED
      BY <2>1, <2>2, <2>3
<1>4. CASE Reload
  <2>1. FormInv' /\ form' = BlankForm /\ \A q \in submits' : ~q.here
    <3>1. LeavePage({}) /\ {} \in SUBSET submits
        BY <1>4 DEF Reload
    <3> QED
        BY <3>1, LeaveKeepsFormInv
  <2>2. /\ chat' = NoChat /\ stored' = stored /\ sessions' = sessions /\ sent' = sent
        /\ crossed' = crossed /\ streaming' = FALSE /\ abortRef' = 0 /\ sends' = {}
      BY <1>4 DEF Reload
  <2>3. NoChat \in Conversation /\ NoChat.session = 0 /\ NoChat.exchanges = {} /\ 0 <= sessions
      BY DEF NoChat, Conversation, ChatInv
  <2>4. ChatInv' /\ ~Mounted'
      BY <2>2, <2>3 DEF ChatInv, Mounted, OneAnswerAtATime
  <2>5. /\ status' = "loading" /\ user' = NoOne /\ userId' = userId /\ token' = NoOne
        /\ mock' = mock /\ toggled' = toggled /\ signedIn' = signedIn
        /\ guestKey' = guestKey /\ lapsed' = lapsed /\ mixed' = mixed
      BY <1>4 DEF Reload
  <2>6. IdentityInv'
      BY <1>m, <2>1, <2>4, <2>5 DEF IdentityInv, IdentityIsOne
  <2>7. OwnerInv'
      BY <2>2, <2>3, <2>5 DEF OwnerInv
  <2> QED
      BY <2>1, <2>4, <2>6, <2>7
<1>5. CASE Send(userId, mock) /\ UNCHANGED <<auth_vars, identity_vars, mixed>>
  <2>1. Mounted
      BY <1>5 DEF Send, Idle
  <2>2. ChatInv' /\ Mounted'
      BY <1>5, SendKeepsChatInv DEF IdentityInv
  <2>3. FormInv'
      BY <1>5, SameForm
  <2>4. IdentityInv'
      BY <1>5, <1>m, <2>1, <2>2 DEF IdentityInv, IdentityIsOne, identity_vars, auth_vars
  <2>5. OwnerInv'
    <3>1. /\ stored' = chat' /\ userId' = userId /\ mixed' = mixed
          /\ chat' = [chat EXCEPT !.exchanges =
                @ \union {[id |-> sent + 1, who |-> userId, answer |-> "empty"]}]
        BY <1>5 DEF Send, identity_vars
    <3>2. chat'.exchanges = chat.exchanges \union
              {[id |-> sent + 1, who |-> userId, answer |-> "empty"]}
        BY <3>1 DEF ChatInv, Conversation
    <3> QED
        BY <3>1, <3>2 DEF OwnerInv
  <2> QED
      BY <2>2, <2>3, <2>4, <2>5
<1>6. CASE ResetChat /\ mixed' = FALSE /\ UNCHANGED <<auth_vars, identity_vars>>
  <2>1. Mounted
      BY <1>6 DEF ResetChat
  <2>2. ChatInv' /\ Mounted' /\ chat'.exchanges = {} /\ stored' = chat'
      BY <1>6, ResetKeepsChatInv
  <2>3. FormInv'
      BY <1>6, SameForm
  <2>4. IdentityInv'
      BY <1>6, <1>m, <2>1, <2>2 DEF IdentityInv, IdentityIsOne, identity_vars, auth_vars
  <2> QED
      BY <2>2, <2>3, <2>4 DEF OwnerInv
<1>7. CASE status = "unauthed" /\ AuthUser /\ UNCHANGED <<chat_vars, identity_vars, mixed>>
  <2>1. FormInv' /\ ChatInv' /\ (Mounted' <=> Mounted)
      BY <1>7, UserKeepsFormInv, SameChat
  <2>2. IdentityInv'
      BY <1>7, <1>m, <2>1 DEF IdentityInv, IdentityIsOne, identity_vars
  <2>3. OwnerInv'
      BY <1>7 DEF OwnerInv, chat_vars, identity_vars
  <2> QED
      BY <2>1, <2>2, <2>3
<1> QED
    BY <1>1, <1>2, <1>3, <1>4, <1>5, <1>6, <1>7 DEF User

LEMMA NextSInv == SInv /\ [Next]_vars => SInv'
<1> SUFFICES ASSUME SInv, [Next]_vars PROVE SInv'
    OBVIOUS
<1> USE DEF SInv
<1>1. CASE RestoreAccount \/ RestoreNone
    BY <1>1, RestoreKeepsSInv
<1>2. ASSUME NEW s \in submits, LoginAnswered(s) PROVE SInv'
    BY <1>2, LoginKeepsSInv
<1>3. CASE moves < MaxMoves /\ moves' = moves + 1 /\ User
    BY <1>3, UserKeepsSInv
<1>4. CASE ChatBackground /\ UNCHANGED <<auth_vars, identity_vars, moves, mixed>>
  <2>1. /\ ChatInv' /\ (Mounted' <=> Mounted)
        /\ stored' = chat' \/ stored' = stored
        /\ \A x \in chat'.exchanges : \E y \in chat.exchanges : x.who = y.who
      BY <1>4, BackgroundKeepsChatInv
  <2>2. FormInv'
      BY <1>4, SameForm
  <2>3. IdentityInv'
      BY <1>4, <2>1 DEF IdentityInv, IdentityIsOne, identity_vars, auth_vars
  <2>4. OwnerInv'
      BY <1>4, <2>1 DEF OwnerInv, identity_vars
  <2> QED
      BY <2>1, <2>2, <2>3, <2>4
<1>5. CASE AuthBackground /\ UNCHANGED <<chat_vars, identity_vars, moves, mixed>>
  <2>1. FormInv' /\ ChatInv' /\ (Mounted' <=> Mounted)
      BY <1>5, BackgroundKeepsFormInv, SameChat
  <2>2. status # "unauthed" => form' = BlankForm /\ \A s \in submits' : ~s.here
    <3> SUFFICES ASSUME status # "unauthed"
                 PROVE  form' = BlankForm /\ \A s \in submits' : ~s.here
        OBVIOUS
    <3>1. PICK s \in submits : Accepted(s) \/ Refused(s) \/ NotConfirmed(s)
        BY <1>5 DEF AuthBackground
    <3>2. ~s.here /\ form = BlankForm
        BY <3>1 DEF IdentityInv, IdentityIsOne
    <3>3. form' = form /\ submits' = submits \ {s}
        BY <3>1, <3>2 DEF Accepted, Refused, NotConfirmed, Answered
    <3> QED
        BY <3>2, <3>3 DEF IdentityInv, IdentityIsOne
  <2>3. IdentityInv'
      BY <1>5, <2>1, <2>2 DEF IdentityInv, IdentityIsOne, identity_vars
  <2>4. OwnerInv'
      BY <1>5 DEF OwnerInv, chat_vars, identity_vars
  <2> QED
      BY <2>1, <2>3, <2>4
<1>6. CASE status = "unauthed" /\ Health(mock) /\ UNCHANGED <<chat_vars, identity_vars, moves, mixed>>
  <2>1. /\ form' \in Form /\ form'.mode = form.mode /\ form'.email = form.email
        /\ form' = [form EXCEPT !.authRequired = TRUE]
      BY <1>6 DEF Health, FormInv, Form
  <2>2. form'.busy = form.busy
      BY <2>1 DEF FormInv, Form
  <2>3. FormInv'
      BY <1>6, <2>1, <2>2 DEF Health, FormInv, AsksItsAccount
  <2>4. ChatInv' /\ (Mounted' <=> Mounted)
      BY <1>6, SameChat
  <2>5. IdentityInv'
      BY <1>6, <2>4 DEF IdentityInv, IdentityIsOne, identity_vars
  <2>6. OwnerInv'
      BY <1>6 DEF OwnerInv, chat_vars, identity_vars
  <2> QED
      BY <2>3, <2>4, <2>5, <2>6
<1>7. CASE UNCHANGED vars
  <2>1. FormInv' /\ ChatInv' /\ (Mounted' <=> Mounted)
      BY <1>7, SameForm, SameChat DEF vars
  <2>2. IdentityInv'
      BY <1>7, <2>1 DEF vars, IdentityInv, IdentityIsOne, identity_vars, auth_vars
  <2>3. OwnerInv'
      BY <1>7 DEF vars, OwnerInv, chat_vars, identity_vars
  <2> QED
      BY <2>1, <2>2, <2>3
<1> QED
    BY <1>1, <1>2, <1>3, <1>4, <1>5, <1>6, <1>7 DEF Next

\* The three invariants hold of every state.
THEOREM SessionInvariant == Spec => []SInv
<1>1. Init => SInv
    BY InitSInv
<1>2. SInv /\ [Next]_vars => SInv'
    BY NextSInv
<1> QED
    BY <1>1, <1>2, PTL DEF Spec

\* Headers, token, user and the kept session are one identity at every status,
\* and an account sees its own data unless demo data were switched on.
THEOREM IdentityHolds == Spec => []IdentityIsOne
<1>1. SInv => IdentityIsOne
    BY DEF SInv, IdentityInv
<1> QED
    BY <1>1, SessionInvariant, PTL

\* The conversation on the screen and in localStorage is of the identity in
\* force, outside the two cases the history names.
THEOREM ChatOwnerHolds == Spec => []ChatIsOfIdentity
<1>1. SInv => ChatIsOfIdentity
    BY DEF SInv, OwnerInv, ChatIsOfIdentity
<1> QED
    BY <1>1, SessionInvariant, PTL

\* One answer streams at a time, unless a send of an older conversation ended
\* while it did.
THEOREM OneAnswerHolds == Spec => []OneAnswerAtATime
<1>1. SInv => OneAnswerAtATime
    BY DEF SInv, ChatInv
<1> QED
    BY <1>1, SessionInvariant, PTL

\* The page that asks for a code shows the account that led there.
THEOREM AsksItsAccountHolds == Spec => []AsksItsAccount
<1>1. SInv => AsksItsAccount
    BY DEF SInv, FormInv
<1> QED
    BY <1>1, SessionInvariant, PTL
=============================================================================
