------------------------------ MODULE ChatClient ------------------------------
\* The chat of the web client (hooks/useChat.ts, api/chat.ts, ChatWidget.tsx):
\* one conversation on the screen and under a key of localStorage, a streamed
\* answer per message, and "New conversation", which aborts it.  An exchange
\* stands for the user's message and the assistant's, which are made together; the
\* order of a conversation is that of the ids of its exchanges.
EXTENDS Naturals

CONSTANT MaxSends   \* bound: messages in a behaviour

ASSUME ChatClientAssumption == MaxSends \in Nat

VARIABLES
    chat,       \* the state of the mounted widget, NoChat without one
    streaming,
    abortRef,   \* the send whose controller the ref holds, 0 for null
    sends,      \* the calls of send that have not returned
    stored,     \* localStorage["budgetbot.chat"]
    sent,       \* how many messages there were: the last one's number
    sessions,   \* how many session ids were made
    crossed     \* history: sessions a send of which was running when another send ended

chat_vars == <<chat, streaming, abortRef, sends, stored, sent, sessions, crossed>>

NoChat == [session |-> 0, exchanges |-> {}]

ChatInit ==
    /\ chat = NoChat /\ stored = NoChat /\ streaming = FALSE /\ abortRef = 0
    /\ sends = {} /\ sent = 0 /\ sessions = 0 /\ crossed = {}

Mounted == chat.session # 0

\* load() of the first render, and the effect that saves what it gave.
Mount(found) ==
    LET fresh == [session |-> sessions + 1, exchanges |-> {}]
    IN  /\ chat' = IF found = NoChat THEN fresh ELSE found
        /\ sessions' = IF found = NoChat THEN sessions + 1 ELSE sessions
        /\ stored' = chat'
        /\ UNCHANGED <<streaming, abortRef, sends, sent, crossed>>

\* Leaving the shell: a send goes on, its setters without an effect.
Unmount ==
    /\ chat' = NoChat /\ streaming' = FALSE /\ abortRef' = 0
    /\ sends' = {[s EXCEPT !.here = FALSE] : s \in sends}
    /\ UNCHANGED <<sent, sessions, crossed>>

\* Mutant: a second message may be sent while an answer streams.
Free == Mounted
Idle == Mounted /\ ~streaming

Send(who, mock) ==
    /\ Idle /\ sent < MaxSends
    /\ sent' = sent + 1
    /\ chat' = [chat EXCEPT !.exchanges =
                  @ \union {[id |-> sent + 1, who |-> who, answer |-> "empty"]}]
    /\ stored' = chat'
    /\ streaming' = TRUE /\ abortRef' = sent + 1
    /\ sends' = sends \union {[id |-> sent + 1, session |-> chat.session, mock |-> mock,
                               aborted |-> FALSE, here |-> TRUE]}
    /\ UNCHANGED <<sessions, crossed>>

\* The setter of an answer: messages.map makes a new list even where no message
\* has the id, so the effect saves the conversation again.
Answer(s, answer, from) ==
    IF s.here
    THEN /\ chat' = [chat EXCEPT !.exchanges =
              {IF x.id = s.id /\ x.answer \in from THEN [x EXCEPT !.answer = answer] ELSE x
               : x \in @}]
         /\ stored' = chat'
    ELSE UNCHANGED <<chat, stored>>

Chunk(s) ==
    /\ ~s.aborted
    /\ Answer(s, "text", {"empty", "text"})
    /\ UNCHANGED <<streaming, abortRef, sends, sent, sessions, crossed>>

\* The finally of send, whichever send the flag and the ref are about by now.
Finally(s) ==
    /\ sends' = sends \ {s}
    /\ IF s.here
       THEN /\ streaming' = FALSE /\ abortRef' = 0
            /\ crossed' = crossed \union {q.session : q \in {p \in sends \ {s} : p.here}}
       ELSE UNCHANGED <<streaming, abortRef, crossed>>
    /\ UNCHANGED <<sent, sessions>>

\* The answer is complete, or the mock stream meets its aborted signal.
StreamEnds(s) == Finally(s) /\ UNCHANGED <<chat, stored>>

\* An error status, or a connection that breaks; the mock has none.
StreamFails(s) ==
    /\ ~s.mock
    /\ Answer(s, "error", {"empty"})
    /\ Finally(s)

\* An aborted fetch rejects at once; the mock stream looks at its signal before
\* the next word.  resetChat tells the server and is not waited for.
ResetChat ==
    /\ Mounted
    /\ chat' = [session |-> sessions + 1, exchanges |-> {}]
    /\ stored' = chat' /\ sessions' = sessions + 1
    /\ streaming' = FALSE
    /\ LET hit == {s \in sends : s.here /\ s.id = abortRef}
           cut == {s \in hit : ~s.mock}
       IN  /\ sends' = (sends \ hit) \union {[s EXCEPT !.aborted = TRUE] : s \in hit \ cut}
           /\ abortRef' = IF cut # {} THEN 0 ELSE abortRef
    /\ UNCHANGED <<sent, crossed>>

ChatBackground == \E s \in sends : Chunk(s) \/ StreamEnds(s) \/ StreamFails(s)

-----------------------------------------------------------------------------
(* Properties *)

\* A conversation has one answer under way at a time, and streaming says so,
\* unless a send of an earlier conversation ended meanwhile: its finally clears
\* the flag that the newer send has set.
OneAnswerAtATime ==
    Mounted /\ chat.session \notin crossed =>
        LET running == {s \in sends : s.here /\ s.session = chat.session}
        IN  /\ streaming = (running # {})
            /\ \A s, q \in running : s = q
=============================================================================
