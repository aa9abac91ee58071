----------------------------- MODULE ChatMemory -----------------------------
(***************************************************************************)
(* The rolling memory of the money coach: handlers.handle_chat over the    *)
(* tables chat_sessions and chat_messages, with handle_reset_chat and      *)
(* handle_clear_transactions.                                              *)
(*                                                                         *)
(* A turn writes the user's question, shows the model the session's        *)
(* summary and its last messages, streams the answer, writes it, and       *)
(* compacts the messages that are no longer recent into the summary.  Each *)
(* store call is a transaction of its own, and the turns of one user (two  *)
(* tabs that share a session id, a page reloaded during an answer) run     *)
(* side by side in threads and tasks.                                      *)
(*                                                                         *)
(* A message is its id.  A summary is the set of the messages that went    *)
(* into it: the model that writes it is taken to keep what it is given.    *)
(***************************************************************************)
EXTENDS Naturals, FiniteSets, Sequences

CONSTANTS Turns,
          Sessions,
          NoRow,
          Keep,        \* CHAT_SUMMARY_KEEP_RECENT
          Recent,      \* CHAT_RECENT_MESSAGE_LIMIT
          Batch,       \* CHAT_SUMMARY_BATCH_LIMIT
          MaxAtOnce,   \* bound: turns at a time
          MaxRequests  \* bound: the user's other requests, resets, clearings, imports

ASSUME LimitsAssumption == /\ Keep \in Nat \ {0}
                           /\ Recent \in Nat \ {0}
                           /\ Batch \in Nat \ {0}
                           /\ MaxAtOnce \in Nat
                           /\ MaxRequests \in Nat
ASSUME NoRowAssumption == NoRow \notin [summary : SUBSET Nat, through : Nat]

VARIABLES
    enforced,   \* whether the store enforces the foreign key of chat_messages:
                \* Postgres does, SQLite without its pragma does not
    stock,      \* the user's transactions: "none", only in "other" months, or "month"
    clearing,   \* whether handle_clear_transactions is between its two calls
    requests,   \* the user's other requests so far
    row,        \* chat_sessions: for each session NoRow, or its summary and
                \* summarized_through_id
    log,        \* chat_messages: the ids of each session
    issued,     \* the ids given out so far, with the session each was given for
    pc,         \* where each turn stands
    session,    \* its session
    hasTxns,    \* its has_transactions
    memory,     \* the summary it read before the answer
    window,     \* the messages it shows to the model
    since,      \* the summarized_through_id it compacts from
    chunk,      \* its messages_to_compact
    overlapped, \* history: the sessions that had two turns at once
    setback     \* history: the sessions that had a turn that did not finish

userVars == <<stock, clearing, requests>>
tables == <<row, log, issued>>
locals == <<hasTxns, memory, window, since, chunk>>
history == <<overlapped, setback>>
vars == <<enforced, userVars, tables, pc, session, locals, history>>

Fresh == [summary |-> {}, through |-> 0]

Running(t) == pc[t] \notin {"idle", "done"}

Init ==
    /\ enforced \in BOOLEAN
    /\ stock \in {"none", "other", "month"}
    /\ clearing = FALSE
    /\ requests = 0
    /\ row = [s \in Sessions |-> NoRow]
    /\ log = [s \in Sessions |-> {}]
    /\ issued = <<>>
    /\ pc = [t \in Turns |-> "idle"]
    /\ session \in [Turns -> Sessions]
    /\ hasTxns = [t \in Turns |-> FALSE]
    /\ memory = [t \in Turns |-> {}]
    /\ window = [t \in Turns |-> {}]
    /\ since = [t \in Turns |-> 0]
    /\ chunk = [t \in Turns |-> {}]
    /\ overlapped = {}
    /\ setback = {}

------------------------------------------------------------------------------
\* The store.

GetOrCreate(s) == row' = [row EXCEPT ![s] = IF @ = NoRow THEN Fresh ELSE @]

\* add_chat_message: the enforced foreign key refuses a session that is gone.
Refused(s) == enforced /\ row[s] = NoRow

NextId == Len(issued) + 1

AddMessage(s) ==
    /\ ~Refused(s)
    /\ log' = [log EXCEPT ![s] = @ \cup {NextId}]
    /\ issued' = Append(issued, s)

LastOf(S, n) == {m \in S : Cardinality({x \in S : x > m}) < n}
FirstOf(S, n) == {m \in S : Cardinality({x \in S : x < m}) < n}

\* Mutant: one message more is kept.
CompactableKeepsMore(s, through) ==
    LET rows == {m \in log[s] : m > through}
    IN  FirstOf(rows \ LastOf(rows, Keep + 1), Batch)

\* Mutant: the batch is the newest messages, not the oldest.
CompactableNewest(s, through) ==
    LET rows == {m \in log[s] : m > through}
    IN  LastOf(rows \ LastOf(rows, Keep), Batch)

\* list_chat_messages_for_summary: rows[:-keep_recent][:limit].
Compactable(s, through) ==
    LET rows == {m \in log[s] : m > through}
    IN  FirstOf(rows \ LastOf(rows, Keep), Batch)

ClearMemory ==
    /\ log' = [s \in Sessions |-> {}]
    /\ row' = [s \in Sessions |-> NoRow]
    /\ UNCHANGED issued

------------------------------------------------------------------------------
\* A turn of handle_chat.

Goto(t, label) == pc' = [pc EXCEPT ![t] = label]

\* The turn is over, and its variables with it.
Return(t) ==
    /\ Goto(t, "done")
    /\ hasTxns' = [hasTxns EXCEPT ![t] = FALSE]
    /\ memory' = [memory EXCEPT ![t] = {}]
    /\ window' = [window EXCEPT ![t] = {}]
    /\ since' = [since EXCEPT ![t] = 0]
    /\ chunk' = [chunk EXCEPT ![t] = {}]

\* list_transactions of the month asked for, or of all of them; when the month
\* has none they are listed again without it.
Come(t, ofMonth) ==
    LET has == IF ofMonth THEN stock = "month" ELSE stock # "none"
    IN  /\ pc[t] = "idle"
        /\ Cardinality({u \in Turns : Running(u)}) < MaxAtOnce
        /\ hasTxns' = [hasTxns EXCEPT ![t] = has]
        /\ Goto(t, IF has THEN "open" ELSE IF ofMonth THEN "any" ELSE "forget")
        /\ overlapped' = IF \E u \in Turns : Running(u) /\ session[u] = session[t]
                         THEN overlapped \cup {session[t]} ELSE overlapped
        /\ UNCHANGED <<enforced, userVars, tables, session, memory, window, since,
                       chunk, setback>>

LookAnyMonth(t) ==
    /\ pc[t] = "any"
    /\ Goto(t, IF stock = "none" THEN "forget" ELSE "open")
    /\ UNCHANGED <<enforced, userVars, tables, session, locals, history>>

\* A user without transactions is not remembered.
Forget(t) ==
    /\ pc[t] = "forget"
    /\ ClearMemory
    /\ Goto(t, "open")
    /\ UNCHANGED <<enforced, userVars, session, locals, history>>

Open(t) ==
    /\ pc[t] = "open"
    /\ GetOrCreate(session[t])
    /\ Goto(t, "ask")
    /\ UNCHANGED <<enforced, userVars, log, issued, session, locals, history>>

Ask(t) ==
    /\ pc[t] = "ask"
    /\ AddMessage(session[t])
    /\ window' = [window EXCEPT ![t] = {NextId}]
    /\ Goto(t, "read")
    /\ UNCHANGED <<enforced, userVars, row, session, hasTxns, memory, since, chunk,
                   history>>

Summary(r) == IF r = NoRow THEN {} ELSE r.summary

\* The session is read again: its summary is the one the turn shows, and the one
\* it will compact into.
ReadSession(t) ==
    /\ pc[t] = "read"
    /\ GetOrCreate(session[t])
    /\ memory' = [memory EXCEPT ![t] = Summary(row[session[t]])]
    /\ Goto(t, IF hasTxns[t] THEN "recent" ELSE "stream")
    /\ UNCHANGED <<enforced, userVars, log, issued, session, hasTxns, window, since,
                   chunk, history>>

ReadRecent(t) ==
    /\ pc[t] = "recent"
    /\ window' = [window EXCEPT ![t] = LastOf(log[session[t]], Recent)]
    /\ Goto(t, "stream")
    /\ UNCHANGED <<enforced, userVars, tables, session, hasTxns, memory, since, chunk,
                   history>>

Reply(t) ==
    /\ pc[t] = "stream"
    /\ AddMessage(session[t])
    /\ Goto(t, "compact")
    /\ UNCHANGED <<enforced, userVars, row, session, locals, history>>

\* list_chat_messages_for_summary: the session, in a transaction of its own.
CompactFrom(t) ==
    /\ pc[t] = "compact"
    /\ GetOrCreate(session[t])
    /\ since' = [since EXCEPT ![t] =
           IF row[session[t]] = NoRow THEN 0 ELSE row[session[t]].through]
    /\ Goto(t, "list")
    /\ UNCHANGED <<enforced, userVars, log, issued, session, hasTxns, memory, window,
                   chunk, history>>

ListForSummary(t) ==
    LET messages == Compactable(session[t], since[t])
    IN  /\ pc[t] = "list"
        /\ \/ /\ messages # {}
              /\ chunk' = [chunk EXCEPT ![t] = messages]
              /\ Goto(t, "summarize")
              /\ UNCHANGED <<hasTxns, memory, window, since>>
           \/ /\ messages = {}
              /\ Return(t)
        /\ UNCHANGED <<enforced, userVars, tables, session, history>>

Newest(S) == CHOOSE m \in S : \A x \in S : x <= m

\* summarize_memory and update_chat_summary, which updates no row when the session
\* is gone and never moves summarized_through_id back.
UpdateSummary(t) ==
    /\ pc[t] = "summarize"
    /\ row' = [row EXCEPT ![session[t]] =
           IF @ = NoRow THEN NoRow
           ELSE [summary |-> memory[t] \cup chunk[t],
                 through |-> IF @.through > Newest(chunk[t]) THEN @.through
                             ELSE Newest(chunk[t])]]
    /\ Return(t)
    /\ UNCHANGED <<enforced, userVars, log, issued, session, history>>

\* The client is gone, a store call or a model fails, the foreign key refuses a
\* message, the answer is empty, the task is killed.
Stop(t) ==
    /\ Running(t)
    /\ Return(t)
    /\ setback' = setback \cup {session[t]}
    /\ UNCHANGED <<enforced, userVars, tables, session, overlapped>>

Turn(t) ==
    \/ \E ofMonth \in BOOLEAN : Come(t, ofMonth)
    \/ LookAnyMonth(t) \/ Forget(t) \/ Open(t) \/ Ask(t)
    \/ ReadSession(t) \/ ReadRecent(t) \/ Reply(t)
    \/ CompactFrom(t) \/ ListForSummary(t) \/ UpdateSummary(t)
    \/ Stop(t)

------------------------------------------------------------------------------
\* The user's other requests.

\* Mutant: the messages are deleted and the session is kept.
ResetMessages(s) ==
    /\ requests < MaxRequests
    /\ requests' = requests + 1
    /\ log' = [log EXCEPT ![s] = {}]
    /\ UNCHANGED <<enforced, stock, clearing, row, issued, pc, session, locals, history>>

\* handle_reset_chat: clear_chat_session.
ResetChat(s) ==
    /\ requests < MaxRequests
    /\ requests' = requests + 1
    /\ log' = [log EXCEPT ![s] = {}]
    /\ row' = [row EXCEPT ![s] = NoRow]
    /\ UNCHANGED <<enforced, stock, clearing, issued, pc, session, locals,
                   history>>

\* handle_clear_transactions: the transactions, and then the memory.
ClearTransactions ==
    /\ ~clearing
    /\ requests < MaxRequests
    /\ requests' = requests + 1
    /\ stock' = "none"
    /\ clearing' = TRUE
    /\ UNCHANGED <<enforced, tables, pc, session, locals, history>>

ClearChatMemory ==
    /\ clearing
    /\ ClearMemory
    /\ clearing' = FALSE
    /\ UNCHANGED <<enforced, stock, requests, pc, session, locals, history>>

\* An import, of this month or of another.
ImportTransactions ==
    /\ requests < MaxRequests
    /\ requests' = requests + 1
    /\ stock' \in {"other", "month"}
    /\ UNCHANGED <<enforced, clearing, tables, pc, session, locals, history>>

Next ==
    \/ \E t \in Turns : Turn(t)
    \/ \E s \in Sessions : ResetChat(s)
    \/ ClearTransactions \/ ClearChatMemory \/ ImportTransactions

Spec == Init /\ [][Next]_vars

------------------------------------------------------------------------------
Ids == 1 .. Len(issued)

\* The types of the tables and of what a turn holds.
TypeOK ==
    /\ enforced \in BOOLEAN
    /\ stock \in {"none", "other", "month"}
    /\ clearing \in BOOLEAN
    /\ requests \in 0 .. MaxRequests
    /\ issued \in Seq(Sessions)
    /\ row \in [Sessions -> {NoRow} \cup [summary : SUBSET Ids, through : 0 .. Len(issued)]]
    /\ log \in [Sessions -> SUBSET Ids]
    /\ pc \in [Turns -> {"idle", "any", "forget", "open", "ask", "read", "recent", "stream",
                         "compact", "list", "summarize", "done"}]
    /\ session \in [Turns -> Sessions]
    /\ hasTxns \in [Turns -> BOOLEAN]
    /\ memory \in [Turns -> SUBSET Ids]
    /\ window \in [Turns -> SUBSET Ids]
    /\ since \in [Turns -> 0 .. Len(issued)]
    /\ chunk \in [Turns -> SUBSET Ids]
    /\ overlapped \subseteq Sessions
    /\ setback \subseteq Sessions
    /\ \A t \in Turns : pc[t] = "summarize" => chunk[t] # {}

\* A turn shows the model, and compacts, messages of its own session only: not
\* even the user's other conversations leak into it.
OwnSession ==
    \A t \in Turns : \A m \in memory[t] \cup window[t] \cup chunk[t] :
        issued[m] = session[t]

Summarized(s) == {m \in log[s] : m <= row[s].through}

\* While the turns of a session come one after the other, whatever fails or is
\* cleared, no message is passed over by its summary.
DurableUnlessOverlapped ==
    \A s \in Sessions \ overlapped : row[s] # NoRow => Summarized(s) \subseteq row[s].summary

\* What the user reset or cleared stays forgotten, even when a turn of the session
\* was under way and goes on to compact: the summary is of messages that are there.
ForgottenUnlessOverlapped ==
    \A s \in Sessions \ overlapped : row[s] # NoRow => row[s].summary \subseteq log[s]

\* Compaction keeps Keep messages out of the summary and the next turn reads
\* Recent, its own question among them: of the conversation at most one message
\* more than Keep - Recent is hidden from the model, as long as turns end well.
HiddenIsOneMessage ==
    \A t \in Turns : pc[t] = "stream" /\ hasTxns[t] /\ session[t] \notin overlapped \cup setback =>
        Cardinality(log[session[t]] \ (memory[t] \cup window[t])) + Recent <= Keep + 1

\* Two turns of one session at once are on record.
OverlapKnown ==
    \A t, u \in Turns : t # u /\ Running(t) /\ Running(u) /\ session[t] = session[u]
                        => session[t] \in overlapped

\* The tables keep the messages of a session together.
TablesOwn ==
    \A s \in Sessions :
        /\ \A m \in log[s] : issued[m] = s
        /\ row[s] # NoRow => \A m \in row[s].summary : issued[m] = s

AtMostOne(S) == \A x, y \in S : x = y

\* What a turn alone in its session read of it is still there, or else the session
\* was cleared and the conversation is no longer than the turn's answer.
MemoryCurrent(t) ==
    LET s == session[t]
        current == row[s] # NoRow /\ row[s].summary = memory[t]
    IN  /\ pc[t] \in {"recent", "stream"} => current \/ (row[s] = NoRow /\ log[s] = {})
        /\ pc[t] = "compact" => current \/ (row[s] = NoRow /\ AtMostOne(log[s]))
        /\ pc[t] = "list" =>
              \/ /\ row[s] = NoRow
                 /\ log[s] = {}
              \/ /\ row[s] # NoRow
                 /\ since[t] = row[s].through
                 /\ current \/ AtMostOne(log[s])
        /\ pc[t] = "summarize" =>
              \/ row[s] = NoRow
              \/ /\ current
                 /\ chunk[t] \subseteq log[s]
                 /\ \A m \in log[s], c \in chunk[t] :
                       m <= c => m \in chunk[t] \/ m <= row[s].through

\* The inductive invariant.
IInv ==
    /\ TypeOK
    /\ OwnSession
    /\ TablesOwn
    /\ OverlapKnown
    /\ \A t \in Turns : session[t] \notin overlapped => MemoryCurrent(t)
    /\ DurableUnlessOverlapped
    /\ ForgottenUnlessOverlapped

=============================================================================
