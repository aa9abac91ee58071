----------------------------- MODULE ChatProofs -----------------------------
(***************************************************************************)
(* Proofs about ChatMemory for any sessions, turns and limits.             *)
(*                                                                         *)
(* The argument: in a session whose turns come one after the other, what a *)
(* turn read of the session is still there when it compacts, or the        *)
(* session was cleared and holds at most the turn's own answer, which is   *)
(* recent and is not compacted.  A chunk is closed downwards, so the       *)
(* summary swallows every message up to the id it moves to.  A turn adds   *)
(* two messages and its compaction takes what is beyond Keep, so that when *)
(* the next turn reads, Keep messages and its own question are not in the  *)
(* summary.                                                                *)
(***************************************************************************)
EXTENDS ChatMemory, FiniteSetTheorems, WellFoundedInduction, TLAPS

LEMMA NextIdFacts ==
    ASSUME TypeOK, NEW s \in Sessions
    PROVE  /\ Len(issued) \in Nat
           /\ NextId \in Nat
           /\ Append(issued, s) \in Seq(Sessions)
           /\ Len(Append(issued, s)) = Len(issued) + 1
           /\ NextId \in 1 .. Len(Append(issued, s))
           /\ \A m \in Ids : m \in 1 .. Len(Append(issued, s)) /\ m # NextId
           /\ \A n \in 0 .. Len(issued) : n \in 0 .. Len(Append(issued, s))
           /\ \A m \in Ids : Append(issued, s)[m] = issued[m]
           /\ Append(issued, s)[NextId] = s
  BY DEF TypeOK, NextId, Ids

\* The ids of a session are a finite set of positive numbers.
LEMMA LogFinite ==
    ASSUME TypeOK, NEW s \in Sessions
    PROVE  /\ IsFiniteSet(log[s])
           /\ log[s] \subseteq Nat \ {0}
  <1>1. log[s] \subseteq Ids /\ Len(issued) \in Nat
    BY DEF TypeOK
  <1>2. IsFiniteSet(Ids)
    BY <1>1, FS_Interval DEF Ids
  <1> QED
    BY <1>1, <1>2, FS_Subset DEF Ids

\* The first n of a set, its last ones taken away, are closed downwards.
LEMMA CompactableFacts ==
    ASSUME TypeOK, LimitsAssumption, NEW s \in Sessions, NEW through \in Nat
    PROVE  /\ Compactable(s, through) \subseteq log[s]
           /\ \A c \in Compactable(s, through) : c > through
           /\ \A c \in Compactable(s, through), m \in log[s] :
                 m > through /\ m <= c => m \in Compactable(s, through)
           /\ AtMostOne(log[s]) => Compactable(s, through) = {}
  <1> DEFINE rows == {m \in log[s] : m > through}
             rest == rows \ LastOf(rows, Keep)
  <1>1. IsFiniteSet(log[s]) /\ log[s] \subseteq Nat \ {0}
    BY LogFinite
  <1>2. IsFiniteSet(rows) /\ rows \subseteq Nat
    BY <1>1, FS_Subset
  <1>3. Compactable(s, through) = FirstOf(rest, Batch)
    BY DEF Compactable
  <1>4. ASSUME NEW c \in rest, NEW m \in rows, m <= c
        PROVE  m \in rest
    <2> DEFINE after(x) == {y \in rows : y > x}
    <2>1. after(c) \subseteq after(m) /\ IsFiniteSet(after(m)) /\ IsFiniteSet(after(c))
      BY <1>2, <1>4, FS_Subset
    <2>2. Cardinality(after(c)) <= Cardinality(after(m))
      BY <2>1, FS_Subset
    <2>3. Cardinality(after(c)) \in Nat /\ Cardinality(after(m)) \in Nat
      BY <2>1, FS_CardinalityType
    <2>4. ~(Cardinality(after(c)) < Keep)
      BY DEF LastOf
    <2>5. ~(Cardinality(after(m)) < Keep)
      BY <2>2, <2>3, <2>4, LimitsAssumption
    <2> QED
      BY <2>5 DEF LastOf
  <1>5. ASSUME NEW c \in FirstOf(rest, Batch), NEW m \in rest, m <= c
        PROVE  m \in FirstOf(rest, Batch)
    <2> DEFINE before(x) == {y \in rest : y < x}
    <2>1. before(m) \subseteq before(c) /\ IsFiniteSet(before(m)) /\ IsFiniteSet(before(c))
      <3>1. rest \subseteq rows /\ c \in rest
        BY DEF FirstOf
      <3>2. before(m) \subseteq before(c)
        BY <1>2, <1>5, <3>1
      <3> HIDE DEF rest
      <3>3. before(m) \subseteq rows /\ before(c) \subseteq rows
        BY <3>1
      <3> QED
        BY <1>2, <3>2, <3>3, FS_Subset
    <2>2. Cardinality(before(m)) <= Cardinality(before(c))
      BY <2>1, FS_Subset
    <2>3. Cardinality(before(c)) \in Nat /\ Cardinality(before(m)) \in Nat
      BY <2>1, FS_CardinalityType
    <2>4. Cardinality(before(c)) < Batch
      BY DEF FirstOf
    <2>5. Cardinality(before(m)) < Batch
      BY <2>2, <2>3, <2>4, LimitsAssumption
    <2> QED
      BY <2>5 DEF FirstOf
  <1>6. FirstOf(rest, Batch) \subseteq rest
    BY DEF FirstOf
  <1>7. ASSUME AtMostOne(log[s])
        PROVE  rest = {}
    <2> SUFFICES ASSUME NEW m \in rows
                 PROVE  m \in LastOf(rows, Keep)
      OBVIOUS
    <2>1. {x \in rows : x > m} = {}
      <3> SUFFICES ASSUME NEW x \in rows, x > m
                   PROVE  FALSE
        OBVIOUS
      <3>1. x = m
        BY <1>7 DEF AtMostOne
      <3> QED
        BY <1>2, <3>1
    <2>2. Cardinality({x \in rows : x > m}) = 0
      BY <2>1, FS_EmptySet
    <2> QED
      BY <2>2, LimitsAssumption DEF LastOf
  <1> HIDE DEF rest
  <1>8. \A c \in FirstOf(rest, Batch) : c \in rest /\ c \in log[s] /\ c > through
    BY <1>6 DEF rest
  <1>9. \A c \in FirstOf(rest, Batch), m \in log[s] :
            m > through /\ m <= c => m \in FirstOf(rest, Batch)
    BY <1>4, <1>5, <1>8
  <1> QED
    BY <1>3, <1>6, <1>7, <1>8, <1>9

\* The newest of some ids is one of them: the least of their upper bounds.
LEMMA NewestFacts ==
    ASSUME NEW n \in Nat, NEW S \in SUBSET (1 .. n), S # {}
    PROVE  Newest(S) \in S /\ \A x \in S : x <= Newest(S)
  <1> DEFINE bounds == {b \in Nat : \A x \in S : x <= b}
  <1>1. n \in bounds
    OBVIOUS
  <1>2. PICK b \in bounds : \A c \in bounds : b <= c
    <2> DEFINE less == OpToRel(<, Nat)
    <2>1. \A x, y \in Nat : <<y, x>> \in less <=> y < x
      BY DEF OpToRel
    <2>2. IsWellFoundedOn(less, Nat)
      BY NatLessThanWellFounded
    <2> HIDE DEF less
    <2>3. \E b \in bounds : \A c \in bounds : ~(<<c, b>> \in less)
      BY <1>1, <2>2, WFMin, Zenon
    <2>4. PICK b \in bounds : \A c \in bounds : ~(<<c, b>> \in less)
      BY <2>3
    <2>5. bounds \subseteq Nat
      OBVIOUS
    <2> HIDE DEF bounds
    <2>6. \A c \in bounds : ~(c < b)
      BY <2>1, <2>4, <2>5
    <2>7. \A c \in bounds : b <= c
      BY <2>5, <2>6
    <2> QED
      BY <2>7
  <1>3. b \in S
    <2> SUFFICES ASSUME b \notin S
                 PROVE  FALSE
      OBVIOUS
    <2>1. \A x \in S : x \in Nat \ {0} /\ x <= b /\ x # b
      OBVIOUS
    <2>2. PICK x \in S : TRUE
      OBVIOUS
    <2>3. b - 1 \in Nat
      BY <2>1, <2>2
    <2>4. \A y \in S : y <= b - 1
      BY <2>1, <2>3
    <2>5. b - 1 \in bounds
      BY <2>3, <2>4
    <2> QED
      BY <1>2, <2>5
  <1> QED
    BY <1>3 DEF Newest

------------------------------------------------------------------------------
\* Types.

Labels == {"idle", "any", "forget", "open", "ask", "read", "recent", "stream", "compact",
           "list", "summarize", "done"}

LEMMA InitType == Init => TypeOK
  <1> SUFFICES ASSUME Init
               PROVE  TypeOK
    OBVIOUS
  <1>1. issued \in Seq(Sessions) /\ Len(issued) = 0
    BY DEF Init
  <1>2. requests \in 0 .. MaxRequests
    BY LimitsAssumption DEF Init
  <1>3. 0 \in 0 .. Len(issued)
    BY <1>1
  <1>4. /\ row \in [Sessions -> {NoRow} \cup [summary : SUBSET Ids, through : 0 .. Len(issued)]]
        /\ log \in [Sessions -> SUBSET Ids]
    BY DEF Init
  <1>5. /\ pc \in [Turns -> Labels]
        /\ \A t \in Turns : pc[t] # "summarize"
    BY DEF Init, Labels
  <1>6. /\ hasTxns \in [Turns -> BOOLEAN]
        /\ memory \in [Turns -> SUBSET Ids]
        /\ window \in [Turns -> SUBSET Ids]
        /\ chunk \in [Turns -> SUBSET Ids]
        /\ since \in [Turns -> 0 .. Len(issued)]
    BY <1>3 DEF Init
  <1>7. /\ enforced \in BOOLEAN
        /\ stock \in {"none", "other", "month"}
        /\ clearing \in BOOLEAN
        /\ session \in [Turns -> Sessions]
        /\ overlapped \subseteq Sessions
        /\ setback \subseteq Sessions
    BY DEF Init
  <1> QED
    BY <1>1, <1>2, <1>4, <1>5, <1>6, <1>7 DEF TypeOK, Labels

\* A step keeps the types when it gives out no id.
LEMMA TurnType ==
    ASSUME TypeOK, NEW t \in Turns, Turn(t)
    PROVE  TypeOK'
  <1> USE DEF TypeOK, Ids, Goto
  <1>1. CASE \E ofMonth \in BOOLEAN : Come(t, ofMonth)
    <2> PICK ofMonth \in BOOLEAN : Come(t, ofMonth)
      BY <1>1
    <2>1. /\ pc' \in [Turns -> Labels]
          /\ pc'[t] # "summarize"
          /\ \A u \in Turns : u # t => pc'[u] = pc[u]
      BY DEF Come, Labels
    <2>2. hasTxns' \in [Turns -> BOOLEAN]
      <3> DEFINE has == IF ofMonth THEN stock = "month" ELSE stock # "none"
      <3>1. hasTxns' = [hasTxns EXCEPT ![t] = has] /\ has \in BOOLEAN
        BY DEF Come
      <3> HIDE DEF has
      <3> QED
        BY <3>1
    <2>3. overlapped' \subseteq Sessions
      BY DEF Come
    <2> QED
      BY <2>1, <2>2, <2>3 DEF Come, userVars, tables, Labels
  <1>2. CASE LookAnyMonth(t)
    BY <1>2 DEF LookAnyMonth, userVars, tables, locals, history
  <1>3. CASE Forget(t)
    BY <1>3 DEF Forget, ClearMemory, userVars, locals, history
  <1>4. CASE Open(t)
    BY <1>4 DEF Open, GetOrCreate, Fresh, userVars, locals, history
  <1>5. CASE Ask(t)
    <2>1. session[t] \in Sessions
      OBVIOUS
    <2> QED
      BY <1>5, <2>1, NextIdFacts DEF Ask, AddMessage, userVars, history
  <1>6. CASE ReadSession(t)
    BY <1>6 DEF ReadSession, GetOrCreate, Summary, Fresh, userVars, history
  <1>7. CASE ReadRecent(t)
    BY <1>7 DEF ReadRecent, LastOf, userVars, tables, history
  <1>8. CASE Reply(t)
    <2>1. session[t] \in Sessions
      OBVIOUS
    <2> QED
      BY <1>8, <2>1, NextIdFacts DEF Reply, AddMessage, userVars, locals, history
  <1>9. CASE CompactFrom(t)
    BY <1>9 DEF CompactFrom, GetOrCreate, Fresh, userVars, history
  <1>10. CASE ListForSummary(t)
    <2>1. Compactable(session[t], since[t]) \subseteq log[session[t]]
      BY DEF Compactable, FirstOf
    <2>2. Compactable(session[t], since[t]) \in SUBSET Ids
      BY <2>1
    <2>3. CASE Compactable(session[t], since[t]) # {}
      <3>1. /\ chunk' = [chunk EXCEPT ![t] = Compactable(session[t], since[t])]
            /\ pc' = [pc EXCEPT ![t] = "summarize"]
            /\ UNCHANGED <<hasTxns, memory, window, since, enforced, stock, clearing,
                           requests, row, log, issued, session, overlapped, setback>>
        BY <1>10, <2>3 DEF ListForSummary, userVars, tables, history
      <3> QED
        BY <2>2, <2>3, <3>1
    <2>4. CASE Compactable(session[t], since[t]) = {}
      <3>1. /\ Return(t)
            /\ UNCHANGED <<enforced, stock, clearing, requests, row, log, issued, session,
                           overlapped, setback>>
        BY <1>10, <2>4 DEF ListForSummary, userVars, tables, history
      <3> QED
        BY <3>1 DEF Return
    <2> QED
      BY <2>3, <2>4
  <1>11. CASE UpdateSummary(t)
    <2>1. /\ Len(issued) \in Nat /\ chunk[t] \in SUBSET (1 .. Len(issued)) /\ chunk[t] # {}
          /\ memory[t] \in SUBSET Ids
      BY <1>11 DEF UpdateSummary
    <2>2. Newest(chunk[t]) \in chunk[t]
      <3> HIDE DEF TypeOK, Ids
      <3> QED
        BY <2>1, NewestFacts
    <2>3. Newest(chunk[t]) \in 0 .. Len(issued)
      BY <2>1, <2>2
    <2> QED
      BY <1>11, <2>1, <2>3 DEF UpdateSummary, Return, userVars, history
  <1>12. CASE Stop(t)
    BY <1>12 DEF Stop, Return, userVars, tables
  <1> QED
    BY <1>1, <1>2, <1>3, <1>4, <1>5, <1>6, <1>7, <1>8, <1>9, <1>10, <1>11, <1>12 DEF Turn

LEMMA RequestType ==
    ASSUME TypeOK, LimitsAssumption,
           \/ \E s \in Sessions : ResetChat(s)
           \/ ClearTransactions \/ ClearChatMemory \/ ImportTransactions
    PROVE  TypeOK'
  <1> USE DEF TypeOK, Ids
  <1>1. CASE \E s \in Sessions : ResetChat(s)
    BY <1>1, LimitsAssumption DEF ResetChat, locals, history
  <1>2. CASE ClearTransactions
    BY <1>2, LimitsAssumption DEF ClearTransactions, tables, locals, history
  <1>3. CASE ClearChatMemory
    BY <1>3 DEF ClearChatMemory, ClearMemory, locals, history
  <1>4. CASE ImportTransactions
    BY <1>4, LimitsAssumption DEF ImportTransactions, tables, locals, history
  <1> QED
    BY <1>1, <1>2, <1>3, <1>4

\* The types hold in every reachable state.
THEOREM TypeCorrect == Spec => []TypeOK
  <1>1. TypeOK /\ [Next]_vars => TypeOK'
    <2> SUFFICES ASSUME TypeOK, [Next]_vars
                 PROVE  TypeOK'
      OBVIOUS
    <2>1. CASE UNCHANGED vars
      BY <2>1 DEF TypeOK, Ids, vars, userVars, tables, locals, history
    <2> QED
      BY <2>1, TurnType, RequestType, LimitsAssumption DEF Next
  <1> QED
    BY <1>1, InitType, PTL DEF Spec

------------------------------------------------------------------------------
\* Messages stay in their session.

LEMMA OwnTurn ==
    ASSUME TypeOK, TypeOK', OwnSession, TablesOwn, NEW t \in Turns, Turn(t)
    PROVE  OwnSession' /\ TablesOwn'
  <1> USE DEF OwnSession, TablesOwn, Goto
  <1>0. /\ session[t] \in Sessions
        /\ \A s \in Sessions : log[s] \subseteq Ids
        /\ \A s \in Sessions : row[s] # NoRow => row[s].summary \subseteq Ids
        /\ \A u \in Turns : memory[u] \cup window[u] \cup chunk[u] \subseteq Ids
        /\ \A u \in Turns : session[u] \in Sessions
        /\ log \in [Sessions -> SUBSET Ids]
        /\ window \in [Turns -> SUBSET Ids]
    BY DEF TypeOK
  <1>1. CASE \E ofMonth \in BOOLEAN : Come(t, ofMonth)
    BY <1>1 DEF Come, tables
  <1>2. CASE LookAnyMonth(t)
    BY <1>2 DEF LookAnyMonth, tables, locals
  <1>3. CASE Forget(t)
    BY <1>3 DEF Forget, ClearMemory, locals
  <1>4. CASE Open(t)
    BY <1>4 DEF Open, GetOrCreate, Fresh, locals, TypeOK
  <1>5. ASSUME AddMessage(session[t]), UNCHANGED row
        PROVE  /\ TablesOwn'
               /\ \A m \in Ids : issued'[m] = issued[m]
               /\ issued'[NextId] = session[t]
    <2>1. /\ \A m \in Ids : issued'[m] = issued[m]
          /\ issued'[NextId] = session[t]
      BY <1>0, <1>5, NextIdFacts DEF AddMessage
    <2>2. log' = [log EXCEPT ![session[t]] = @ \cup {NextId}]
      BY <1>5 DEF AddMessage
    <2> QED
      BY <1>0, <1>5, <2>1, <2>2
  <1>6. CASE Ask(t)
    <2>1. TablesOwn' /\ \A m \in Ids : issued'[m] = issued[m]
      BY <1>5, <1>6 DEF Ask
    <2>2. /\ issued'[NextId] = session[t]
          /\ window' = [window EXCEPT ![t] = {NextId}]
          /\ UNCHANGED <<session, memory, chunk>>
      BY <1>5, <1>6 DEF Ask
    <2> QED
      BY <1>0, <2>1, <2>2
  <1>7. CASE ReadSession(t)
    BY <1>0, <1>7 DEF ReadSession, GetOrCreate, Summary, Fresh, TypeOK
  <1>8. CASE ReadRecent(t)
    BY <1>0, <1>8 DEF ReadRecent, LastOf, tables
  <1>9. CASE Reply(t)
    <2>1. TablesOwn' /\ \A m \in Ids : issued'[m] = issued[m]
      BY <1>5, <1>9 DEF Reply
    <2>2. UNCHANGED <<session, memory, window, chunk>>
      BY <1>9 DEF Reply, locals
    <2> QED
      BY <1>0, <2>1, <2>2
  <1>10. CASE CompactFrom(t)
    BY <1>10 DEF CompactFrom, GetOrCreate, Fresh, TypeOK
  <1>11. CASE ListForSummary(t)
    <2>1. Compactable(session[t], since[t]) \subseteq log[session[t]]
      BY DEF Compactable, FirstOf
    <2>2. UNCHANGED <<row, log, issued, session>>
      BY <1>11 DEF ListForSummary, tables
    <2>3. \A u \in Turns : /\ memory'[u] \subseteq memory[u]
                           /\ window'[u] \subseteq window[u]
                           /\ chunk'[u] \subseteq chunk[u] \cup log[session[t]]
                           /\ u # t => chunk'[u] = chunk[u]
      BY <1>11, <2>1 DEF ListForSummary, Return, TypeOK
    <2> QED
      BY <1>0, <2>2, <2>3
  <1>12. CASE UpdateSummary(t)
    <2>1. UNCHANGED <<log, issued, session>>
      BY <1>12 DEF UpdateSummary
    <2>2. \A u \in Turns : /\ memory'[u] \subseteq memory[u]
                           /\ window'[u] \subseteq window[u]
                           /\ chunk'[u] \subseteq chunk[u]
      BY <1>12 DEF UpdateSummary, Return, TypeOK
    <2>3. \A s \in Sessions : row'[s] # NoRow =>
              \/ row[s] # NoRow /\ row'[s].summary = row[s].summary
              \/ s = session[t] /\ row'[s].summary = memory[t] \cup chunk[t]
      BY <1>12 DEF UpdateSummary, TypeOK
    <2> QED
      BY <1>0, <2>1, <2>2, <2>3
  <1>13. CASE Stop(t)
    BY <1>13 DEF Stop, Return, tables, TypeOK
  <1> QED
    BY <1>1, <1>2, <1>3, <1>4, <1>6, <1>7, <1>8, <1>9, <1>10, <1>11, <1>12, <1>13 DEF Turn

LEMMA OwnRequest ==
    ASSUME TypeOK, OwnSession, TablesOwn,
           \/ \E s \in Sessions : ResetChat(s)
           \/ ClearTransactions \/ ClearChatMemory \/ ImportTransactions
    PROVE  OwnSession' /\ TablesOwn'
  <1> USE DEF OwnSession, TablesOwn
  <1>1. CASE \E s \in Sessions : ResetChat(s)
    BY <1>1 DEF ResetChat, locals, TypeOK
  <1>2. CASE ClearTransactions
    BY <1>2 DEF ClearTransactions, tables, locals
  <1>3. CASE ClearChatMemory
    BY <1>3 DEF ClearChatMemory, ClearMemory, locals
  <1>4. CASE ImportTransactions
    BY <1>4 DEF ImportTransactions, tables, locals
  <1> QED
    BY <1>1, <1>2, <1>3, <1>4

------------------------------------------------------------------------------
\* Two turns at once are on record.

LEMMA OverlapStep ==
    ASSUME TypeOK, OverlapKnown, [Next]_vars
    PROVE  OverlapKnown'
  <1> USE DEF OverlapKnown, Running
  <1>1. UNCHANGED session
    BY DEF Next, vars, Turn, Come, LookAnyMonth, Forget, Open, Ask, ReadSession, ReadRecent,
           Reply, CompactFrom, ListForSummary, UpdateSummary, Stop, ResetChat,
           ClearTransactions, ClearChatMemory, ImportTransactions
  <1>2. CASE \E t \in Turns, ofMonth \in BOOLEAN : Come(t, ofMonth)
    <2> PICK t \in Turns, ofMonth \in BOOLEAN : Come(t, ofMonth)
      BY <1>2
    <2>1. /\ \A u \in Turns : u # t => pc'[u] = pc[u]
          /\ overlapped \subseteq overlapped'
          /\ (\E u \in Turns : Running(u) /\ session[u] = session[t])
                => session[t] \in overlapped'
      BY DEF Come, Goto, TypeOK
    <2> QED
      BY <1>1, <2>1
  <1>3. CASE /\ UNCHANGED overlapped
             /\ \A u \in Turns : pc'[u] # pc[u] => Running(u)
    BY <1>1, <1>3
  <1>4. CASE \E t \in Turns : Turn(t) /\ ~\E ofMonth \in BOOLEAN : Come(t, ofMonth)
    <2> PICK t \in Turns : Turn(t) /\ ~\E ofMonth \in BOOLEAN : Come(t, ofMonth)
      BY <1>4
    <2>1. Running(t) /\ UNCHANGED overlapped
      BY DEF Turn, LookAnyMonth, Forget, Open, Ask, ReadSession, ReadRecent, Reply,
             CompactFrom, ListForSummary, UpdateSummary, Stop, history
    <2>2. \A u \in Turns : u # t => pc'[u] = pc[u]
      BY DEF Turn, LookAnyMonth, Forget, Open, Ask, ReadSession, ReadRecent, Reply,
             CompactFrom, ListForSummary, UpdateSummary, Stop, Goto, Return, TypeOK
    <2> QED
      BY <1>3, <2>1, <2>2
  <1>5. CASE UNCHANGED <<pc, overlapped>>
    BY <1>3, <1>5
  <1>6. CASE \/ UNCHANGED vars
             \/ \E s \in Sessions : ResetChat(s)
             \/ ClearTransactions \/ ClearChatMemory \/ ImportTransactions
    BY <1>5, <1>6 DEF vars, ResetChat, ClearTransactions, ClearChatMemory,
                      ImportTransactions, history
  <1> QED
    BY <1>2, <1>4, <1>6 DEF Next

------------------------------------------------------------------------------
\* What a turn read is still there.

Cleared(s) == row'[s] = NoRow /\ log'[s] = {}

\* A step of somebody else leaves the turn's session alone, or clears it.
LEMMA MemoryElsewhere ==
    ASSUME NEW t \in Turns, MemoryCurrent(t),
           pc'[t] = pc[t], session'[t] = session[t], memory'[t] = memory[t],
           since'[t] = since[t], chunk'[t] = chunk[t],
           \/ row'[session[t]] = row[session[t]] /\ log'[session[t]] = log[session[t]]
           \/ Cleared(session[t])
    PROVE  MemoryCurrent(t)'
  <1>1. CASE Cleared(session[t])
    BY <1>1 DEF MemoryCurrent, Cleared, AtMostOne
  <1>2. CASE row'[session[t]] = row[session[t]] /\ log'[session[t]] = log[session[t]]
    BY <1>2 DEF MemoryCurrent, AtMostOne
  <1> QED
    BY <1>1, <1>2

LEMMA FreshFacts ==
    Fresh # NoRow /\ Fresh.summary = {} /\ Fresh.through = 0
  BY NoRowAssumption DEF Fresh

\* The turn's own step keeps its MemoryCurrent when it is alone in its session.
LEMMA MemoryOwnStep ==
    ASSUME IInv, LimitsAssumption, NEW t \in Turns, Turn(t), session[t] \notin overlapped'
    PROVE  MemoryCurrent(t)'
  <1> DEFINE s == session[t]
  <1>0. /\ s \in Sessions
        /\ pc \in [Turns -> Labels]
        /\ row \in [Sessions -> {NoRow} \cup [summary : SUBSET Ids, through : 0 .. Len(issued)]]
        /\ log \in [Sessions -> SUBSET Ids]
        /\ memory \in [Turns -> SUBSET Ids]
        /\ since \in [Turns -> 0 .. Len(issued)]
        /\ chunk \in [Turns -> SUBSET Ids]
        /\ TypeOK
    BY DEF IInv, TypeOK, Labels
  <1>1. CASE \E ofMonth \in BOOLEAN : Come(t, ofMonth)
    BY <1>0, <1>1 DEF Come, Goto, MemoryCurrent
  <1>2. /\ ~(\E ofMonth \in BOOLEAN : Come(t, ofMonth)) => UNCHANGED overlapped
        /\ UNCHANGED session
    BY DEF Turn, Come, LookAnyMonth, Forget, Open, Ask, ReadSession, ReadRecent, Reply,
           CompactFrom, ListForSummary, UpdateSummary, Stop, history
  <1>3. CASE LookAnyMonth(t)
    BY <1>0, <1>3 DEF LookAnyMonth, Goto, MemoryCurrent
  <1>4. CASE Forget(t)
    BY <1>0, <1>4 DEF Forget, Goto, MemoryCurrent
  <1>5. CASE Open(t)
    BY <1>0, <1>5 DEF Open, Goto, MemoryCurrent
  <1>6. CASE Ask(t)
    BY <1>0, <1>6 DEF Ask, Goto, MemoryCurrent
  <1>7. CASE ReadSession(t)
    <2>1. /\ row'[s] # NoRow
          /\ row'[s].summary = memory'[t]
          /\ pc'[t] \in {"recent", "stream"}
      BY <1>0, <1>7, FreshFacts DEF ReadSession, GetOrCreate, Summary, Goto
    <2> QED
      BY <1>2, <2>1, <1>7 DEF MemoryCurrent, ReadSession
  <1>8. ASSUME s \notin overlapped
        PROVE  MemoryCurrent(t)
    BY <1>8 DEF IInv
  <1>9. CASE ReadRecent(t)
    <2>1. s \notin overlapped /\ pc'[t] = "stream" /\ pc[t] = "recent"
      BY <1>0, <1>2, <1>9 DEF ReadRecent, Goto, history
    <2> QED
      BY <1>8, <1>9, <2>1 DEF MemoryCurrent, ReadRecent, tables
  <1>10. CASE Reply(t)
    <2>1. /\ s \notin overlapped /\ pc'[t] = "compact" /\ pc[t] = "stream"
          /\ row' = row /\ log'[s] = log[s] \cup {NextId}
          /\ UNCHANGED <<session, memory>>
      BY <1>0, <1>2, <1>10 DEF Reply, Goto, AddMessage, history, locals
    <2>2. \/ row[s] # NoRow /\ row[s].summary = memory[t]
          \/ row[s] = NoRow /\ log[s] = {}
      BY <1>8, <2>1 DEF MemoryCurrent
    <2> QED
      BY <2>1, <2>2 DEF MemoryCurrent, AtMostOne
  <1>11. CASE CompactFrom(t)
    <2>1. /\ s \notin overlapped /\ pc'[t] = "list" /\ pc[t] = "compact"
          /\ UNCHANGED <<session, memory, log>>
      BY <1>0, <1>2, <1>11 DEF CompactFrom, Goto, history
    <2>2. \/ row[s] # NoRow /\ row[s].summary = memory[t]
          \/ row[s] = NoRow /\ AtMostOne(log[s])
      BY <1>8, <2>1 DEF MemoryCurrent
    <2>3. /\ row'[s] = IF row[s] = NoRow THEN Fresh ELSE row[s]
          /\ since'[t] = IF row[s] = NoRow THEN 0 ELSE row[s].through
      BY <1>0, <1>11 DEF CompactFrom, GetOrCreate
    <2>4. row'[s] # NoRow /\ since'[t] = row'[s].through
      BY <2>3, FreshFacts
    <2>5. \/ row'[s].summary = memory'[t]
          \/ AtMostOne(log'[s])
      BY <2>1, <2>2, <2>3 DEF AtMostOne
    <2> QED
      BY <2>1, <2>4, <2>5 DEF MemoryCurrent
  <1>12. CASE ListForSummary(t)
    <2> DEFINE C == Compactable(s, since[t])
    <2>1. CASE C = {}
      BY <1>0, <1>12, <2>1 DEF ListForSummary, Return, Goto, MemoryCurrent
    <2>2. CASE C # {}
      <3>1. /\ s \notin overlapped /\ pc'[t] = "summarize" /\ pc[t] = "list"
            /\ UNCHANGED <<session, memory, log, row>>
            /\ chunk'[t] = C
        BY <1>0, <1>2, <1>12, <2>2 DEF ListForSummary, Goto, history, tables
      <3>2. \/ row[s] = NoRow /\ log[s] = {}
            \/ /\ row[s] # NoRow
               /\ since[t] = row[s].through
               /\ (row[s].summary = memory[t]) \/ AtMostOne(log[s])
        BY <1>8, <3>1 DEF MemoryCurrent
      <3>3. since[t] \in Nat
        BY <1>0 DEF TypeOK
      <3>4. /\ C \subseteq log[s]
            /\ \A c \in C : c > since[t]
            /\ \A c \in C, m \in log[s] : m > since[t] /\ m <= c => m \in C
            /\ AtMostOne(log[s]) => C = {}
        BY <1>0, <3>3, CompactableFacts
      <3>5. /\ row[s] # NoRow
            /\ since[t] = row[s].through
            /\ row[s].summary = memory[t]
        BY <2>2, <3>2, <3>4
      <3>6. \A m \in log[s], c \in C : m <= c => m \in C \/ m <= row[s].through
        <4> HIDE DEF C
        <4> QED
          BY <1>0, <3>3, <3>4, <3>5 DEF Ids
      <3> HIDE DEF C
      <3> QED
        BY <3>1, <3>4, <3>5, <3>6 DEF MemoryCurrent
    <2> QED
      BY <2>1, <2>2
  <1>13. CASE UpdateSummary(t)
    BY <1>0, <1>13 DEF UpdateSummary, Return, Goto, MemoryCurrent
  <1>14. CASE Stop(t)
    BY <1>0, <1>14 DEF Stop, Return, Goto, MemoryCurrent
  <1> QED
    BY <1>1, <1>3, <1>4, <1>5, <1>6, <1>7, <1>9, <1>10, <1>11, <1>12, <1>13, <1>14 DEF Turn

\* What a step of a turn leaves alone of the other turns and sessions.
LEMMA TurnFrame ==
    ASSUME TypeOK, NEW t \in Turns, Turn(t)
    PROVE  /\ session' = session
           /\ overlapped \subseteq overlapped'
           /\ \A u \in Turns : u # t => /\ pc'[u] = pc[u] /\ memory'[u] = memory[u]
                                        /\ since'[u] = since[u] /\ chunk'[u] = chunk[u]
                                        /\ hasTxns'[u] = hasTxns[u] /\ window'[u] = window[u]
           /\ \A s \in Sessions : s # session[t] =>
                 \/ row'[s] = row[s] /\ log'[s] = log[s]
                 \/ Cleared(s)
  <1> USE DEF Goto, TypeOK, Cleared
  <1>1. CASE \E ofMonth \in BOOLEAN : Come(t, ofMonth)
    BY <1>1 DEF Come, tables
  <1>2. CASE LookAnyMonth(t)
    BY <1>2 DEF LookAnyMonth, tables, locals, history
  <1>3. CASE Forget(t)
    BY <1>3 DEF Forget, ClearMemory, locals, history
  <1>4. CASE Open(t)
    BY <1>4 DEF Open, GetOrCreate, locals, history
  <1>5. CASE Ask(t)
    BY <1>5 DEF Ask, AddMessage, history
  <1>6. CASE ReadSession(t)
    BY <1>6 DEF ReadSession, GetOrCreate, history
  <1>7. CASE ReadRecent(t)
    BY <1>7 DEF ReadRecent, tables, history
  <1>8. CASE Reply(t)
    BY <1>8 DEF Reply, AddMessage, locals, history
  <1>9. CASE CompactFrom(t)
    BY <1>9 DEF CompactFrom, GetOrCreate, history
  <1>10. CASE ListForSummary(t)
    BY <1>10 DEF ListForSummary, Return, tables, history
  <1>11. CASE UpdateSummary(t)
    BY <1>11 DEF UpdateSummary, Return, history
  <1>12. CASE Stop(t)
    BY <1>12 DEF Stop, Return, tables
  <1> QED
    BY <1>1, <1>2, <1>3, <1>4, <1>5, <1>6, <1>7, <1>8, <1>9, <1>10, <1>11, <1>12 DEF Turn

\* The user's other requests clear sessions and touch no turn.
LEMMA RequestFrame ==
    ASSUME TypeOK,
           \/ \E s \in Sessions : ResetChat(s)
           \/ ClearTransactions \/ ClearChatMemory \/ ImportTransactions
    PROVE  /\ UNCHANGED <<pc, session, locals, history>>
           /\ \A s \in Sessions : \/ row'[s] = row[s] /\ log'[s] = log[s]
                                  \/ Cleared(s)
  BY DEF TypeOK, Cleared, ResetChat, ClearTransactions, ClearChatMemory, ClearMemory,
         ImportTransactions, tables

LEMMA MemoryTurn ==
    ASSUME IInv, LimitsAssumption, NEW t \in Turns, Turn(t),
           NEW u \in Turns, session'[u] \notin overlapped'
    PROVE  MemoryCurrent(u)'
  <1>1. TypeOK /\ OverlapKnown /\ session' = session /\ overlapped \subseteq overlapped'
    BY TurnFrame DEF IInv
  <1>2. CASE u = t
    BY <1>1, <1>2, MemoryOwnStep
  <1>3. CASE u # t /\ ~Running(u)
    BY <1>1, <1>3, TurnFrame DEF MemoryCurrent, Running
  <1>4. CASE u # t /\ Running(u) /\ session[u] # session[t]
    <2>1. session[u] \in Sessions /\ MemoryCurrent(u)
      BY <1>1 DEF IInv, TypeOK
    <2>2. /\ pc'[u] = pc[u] /\ memory'[u] = memory[u]
          /\ since'[u] = since[u] /\ chunk'[u] = chunk[u]
          /\ \/ row'[session[u]] = row[session[u]] /\ log'[session[u]] = log[session[u]]
             \/ Cleared(session[u])
      BY <1>1, <1>4, <2>1, TurnFrame
    <2> QED
      BY <1>1, <2>1, <2>2, MemoryElsewhere
  <1>5. CASE u # t /\ Running(u) /\ session[u] = session[t]
    <2>1. session[t] \in overlapped'
      <3>1. CASE Running(t)
        BY <1>1, <1>5, <3>1 DEF OverlapKnown
      <3>2. CASE ~Running(t)
        <4>1. \E ofMonth \in BOOLEAN : Come(t, ofMonth)
          BY <3>2 DEF Running, Turn, LookAnyMonth, Forget, Open, Ask, ReadSession,
                      ReadRecent, Reply, CompactFrom, ListForSummary, UpdateSummary, Stop
        <4> QED
          BY <1>5, <4>1 DEF Come
      <3> QED
        BY <3>1, <3>2
    <2> QED
      BY <1>1, <1>5, <2>1
  <1> QED
    BY <1>2, <1>3, <1>4, <1>5

LEMMA MemoryRequest ==
    ASSUME IInv,
           \/ \E s \in Sessions : ResetChat(s)
           \/ ClearTransactions \/ ClearChatMemory \/ ImportTransactions,
           NEW u \in Turns, session'[u] \notin overlapped'
    PROVE  MemoryCurrent(u)'
  <1>1. /\ UNCHANGED <<pc, session, locals, history>>
        /\ session[u] \in Sessions
        /\ \/ row'[session[u]] = row[session[u]] /\ log'[session[u]] = log[session[u]]
           \/ Cleared(session[u])
    BY RequestFrame DEF IInv, TypeOK
  <1>2. MemoryCurrent(u)
    BY <1>1 DEF IInv, history
  <1> QED
    BY <1>1, <1>2, MemoryElsewhere DEF locals

------------------------------------------------------------------------------
\* The summaries.

\* What a session alone promises.
SummaryOk(s) ==
    row[s] # NoRow => /\ Summarized(s) \subseteq row[s].summary
                      /\ row[s].summary \subseteq log[s]

LEMMA SummaryElsewhere ==
    ASSUME NEW s \in Sessions, SummaryOk(s),
           \/ row'[s] = row[s] /\ log'[s] = log[s]
           \/ Cleared(s)
    PROVE  SummaryOk(s)'
  BY DEF SummaryOk, Summarized, Cleared

LEMMA SummaryCreated ==
    ASSUME TypeOK, NEW s \in Sessions, SummaryOk(s), log' = log,
           row'[s] = IF row[s] = NoRow THEN Fresh ELSE row[s]
    PROVE  SummaryOk(s)'
  <1>1. CASE row[s] = NoRow
    <2>1. row'[s].summary = {} /\ row'[s].through = 0
      BY <1>1, FreshFacts
    <2>2. \A m \in log[s] : ~(m <= 0)
      BY DEF TypeOK, Ids
    <2> QED
      BY <2>1, <2>2 DEF SummaryOk, Summarized
  <1>2. CASE row[s] # NoRow
    BY <1>2 DEF SummaryOk, Summarized
  <1> QED
    BY <1>1, <1>2

LEMMA SummaryAdded ==
    ASSUME TypeOK, NEW s \in Sessions, SummaryOk(s), row' = row,
           log'[s] = log[s] \cup {NextId}
    PROVE  SummaryOk(s)'
  <1>1. row[s] # NoRow => row[s].through \in 0 .. Len(issued)
    BY DEF TypeOK
  <1>2. Len(issued) \in Nat /\ NextId = Len(issued) + 1
    BY DEF TypeOK, NextId
  <1>3. row[s] # NoRow => ~(NextId <= row[s].through)
    BY <1>1, <1>2
  <1> QED
    BY <1>3 DEF SummaryOk, Summarized

\* The step all the others make possible.
LEMMA SummaryUpdated ==
    ASSUME TypeOK, NEW t \in Turns, UpdateSummary(t), MemoryCurrent(t), SummaryOk(session[t])
    PROVE  SummaryOk(session[t])'
  <1> DEFINE s == session[t]
             n == Newest(chunk[t])
  <1>1. /\ s \in Sessions /\ pc[t] = "summarize" /\ chunk[t] # {}
        /\ chunk[t] \in SUBSET (1 .. Len(issued)) /\ Len(issued) \in Nat
        /\ row[s] # NoRow => row[s].through \in Nat
        /\ log[s] \subseteq Nat
        /\ UNCHANGED <<session, log>>
    BY DEF TypeOK, UpdateSummary, Ids
  <1>2. n \in chunk[t] /\ n \in Nat /\ \A c \in chunk[t] : c <= n
    <2>1. Newest(chunk[t]) \in chunk[t] /\ \A c \in chunk[t] : c <= Newest(chunk[t])
      <3> HIDE DEF n
      <3> QED
        BY <1>1, NewestFacts
    <2> QED
      BY <1>1, <2>1
  <1>3. CASE row[s] = NoRow
    BY <1>1, <1>3 DEF UpdateSummary, SummaryOk, TypeOK
  <1>4. CASE row[s] # NoRow
    <2>1. /\ row[s].summary = memory[t]
          /\ chunk[t] \subseteq log[s]
          /\ \A m \in log[s], c \in chunk[t] : m <= c => m \in chunk[t] \/ m <= row[s].through
      BY <1>1, <1>4 DEF MemoryCurrent
    <2> HIDE DEF n
    <2>2. /\ row'[s].summary = memory[t] \cup chunk[t]
          /\ row'[s].through \in {row[s].through, n}
      BY <1>1, <1>4 DEF UpdateSummary, TypeOK, n
    <2>3. \A m \in log[s] : m <= row'[s].through => m \in memory[t] \cup chunk[t]
      <3> SUFFICES ASSUME NEW m \in log[s], m <= row'[s].through
                   PROVE  m \in memory[t] \cup chunk[t]
        OBVIOUS
      <3>1. CASE m <= row[s].through
        BY <1>4, <2>1, <3>1 DEF SummaryOk, Summarized
      <3>2. CASE m <= n
        BY <1>2, <2>1, <3>1, <3>2
      <3> QED
        BY <2>2, <3>1, <3>2
    <2>4. memory[t] \cup chunk[t] \subseteq log[s]
      BY <1>4, <2>1 DEF SummaryOk
    <2> QED
      BY <1>1, <2>2, <2>3, <2>4 DEF SummaryOk, Summarized
  <1> QED
    BY <1>3, <1>4

LEMMA SummaryTurn ==
    ASSUME IInv, NEW t \in Turns, Turn(t), NEW s \in Sessions \ overlapped'
    PROVE  SummaryOk(s)'
  <1>1. TypeOK /\ s \notin overlapped /\ UNCHANGED session
    BY TurnFrame DEF IInv
  <1>2. SummaryOk(s)
    BY <1>1 DEF IInv, DurableUnlessOverlapped, ForgottenUnlessOverlapped, SummaryOk
  <1>3. CASE s # session[t]
    BY <1>1, <1>2, <1>3, TurnFrame, SummaryElsewhere
  <1>4. CASE s = session[t]
    <2> USE DEF TypeOK
    <2>1. CASE \/ \E ofMonth \in BOOLEAN : Come(t, ofMonth)
               \/ LookAnyMonth(t) \/ ReadRecent(t) \/ ListForSummary(t) \/ Stop(t)
      BY <1>2, <2>1, SummaryElsewhere
         DEF Come, LookAnyMonth, ReadRecent, ListForSummary, Stop, tables
    <2>2. CASE Forget(t)
      BY <1>2, <2>2, SummaryElsewhere DEF Forget, ClearMemory, Cleared
    <2>3. CASE Open(t) \/ ReadSession(t) \/ CompactFrom(t)
      <3>1. log' = log /\ row'[s] = IF row[s] = NoRow THEN Fresh ELSE row[s]
        BY <1>1, <1>4, <2>3 DEF Open, ReadSession, CompactFrom, GetOrCreate
      <3> QED
        BY <1>1, <1>2, <3>1, SummaryCreated
    <2>4. CASE Ask(t) \/ Reply(t)
      <3>1. row' = row /\ log'[s] = log[s] \cup {NextId}
        BY <1>1, <1>4, <2>4 DEF Ask, Reply, AddMessage
      <3> QED
        BY <1>1, <1>2, <3>1, SummaryAdded
    <2>5. CASE UpdateSummary(t)
      BY <1>1, <1>2, <1>4, <2>5, SummaryUpdated DEF IInv
    <2> QED
      BY <2>1, <2>2, <2>3, <2>4, <2>5 DEF Turn
  <1> QED
    BY <1>3, <1>4

LEMMA SummaryRequest ==
    ASSUME IInv,
           \/ \E s \in Sessions : ResetChat(s)
           \/ ClearTransactions \/ ClearChatMemory \/ ImportTransactions,
           NEW s \in Sessions \ overlapped'
    PROVE  SummaryOk(s)'
  <1>1. TypeOK /\ s \notin overlapped
    BY RequestFrame DEF IInv, history
  <1>2. SummaryOk(s)
    BY <1>1 DEF IInv, DurableUnlessOverlapped, ForgottenUnlessOverlapped, SummaryOk
  <1> QED
    BY <1>1, <1>2, RequestFrame, SummaryElsewhere

------------------------------------------------------------------------------
\* The inductive invariant, and the properties it implies.

LEMMA InitIInv == Init => IInv
  <1> SUFFICES ASSUME Init
               PROVE  IInv
    OBVIOUS
  <1>1. TypeOK
    BY InitType
  <1>2. OwnSession /\ TablesOwn
    BY DEF Init, OwnSession, TablesOwn
  <1>3. OverlapKnown
    BY DEF Init, OverlapKnown, Running
  <1>4. \A t \in Turns : MemoryCurrent(t)
    BY DEF Init, MemoryCurrent
  <1>5. DurableUnlessOverlapped /\ ForgottenUnlessOverlapped
    BY DEF Init, DurableUnlessOverlapped, ForgottenUnlessOverlapped
  <1> QED
    BY <1>1, <1>2, <1>3, <1>4, <1>5 DEF IInv

LEMMA NextIInv == IInv /\ [Next]_vars => IInv'
  <1> SUFFICES ASSUME IInv, [Next]_vars
               PROVE  IInv'
    OBVIOUS
  <1> DEFINE Request == \/ \E s \in Sessions : ResetChat(s)
                        \/ ClearTransactions \/ ClearChatMemory \/ ImportTransactions
  <1>1. TypeOK /\ OwnSession /\ TablesOwn /\ OverlapKnown
    BY DEF IInv
  <1>2. OverlapKnown'
    BY <1>1, OverlapStep
  <1>3. CASE \E t \in Turns : Turn(t)
    <2> PICK t \in Turns : Turn(t)
      BY <1>3
    <2>1. TypeOK'
      BY <1>1, TurnType
    <2>2. OwnSession' /\ TablesOwn'
      BY <1>1, <2>1, OwnTurn
    <2>3. \A u \in Turns : session'[u] \notin overlapped' => MemoryCurrent(u)'
      BY MemoryTurn, LimitsAssumption
    <2>4. \A s \in Sessions \ overlapped' : SummaryOk(s)'
      BY SummaryTurn
    <2> QED
      BY <1>2, <2>1, <2>2, <2>3, <2>4
         DEF IInv, SummaryOk, DurableUnlessOverlapped, ForgottenUnlessOverlapped
  <1>4. CASE Request
    <2>1. TypeOK'
      BY <1>1, <1>4, RequestType, LimitsAssumption
    <2>2. OwnSession' /\ TablesOwn'
      BY <1>1, <1>4, OwnRequest
    <2>3. \A u \in Turns : session'[u] \notin overlapped' => MemoryCurrent(u)'
      BY <1>4, MemoryRequest
    <2>4. \A s \in Sessions \ overlapped' : SummaryOk(s)'
      BY <1>4, SummaryRequest
    <2> QED
      BY <1>2, <2>1, <2>2, <2>3, <2>4
         DEF IInv, SummaryOk, DurableUnlessOverlapped, ForgottenUnlessOverlapped
  <1>5. CASE UNCHANGED vars
    BY <1>5 DEF IInv, TypeOK, Ids, OwnSession, TablesOwn, OverlapKnown, Running, MemoryCurrent,
                AtMostOne, DurableUnlessOverlapped, ForgottenUnlessOverlapped, Summarized,
                vars, userVars, tables, locals, history
  <1> QED
    BY <1>3, <1>4, <1>5 DEF Next

\* The inductive invariant holds in every reachable state.
THEOREM Invariance == Spec => []IInv
  BY InitIInv, NextIInv, PTL DEF Spec

\* Whatever runs side by side, a turn shows and compacts only what was written to
\* its own session.
THEOREM NothingLeaks == Spec => []OwnSession
  <1>1. IInv => OwnSession
    BY DEF IInv
  <1> QED
    BY <1>1, Invariance, PTL

\* In a session whose turns never overlapped no message is passed over by the
\* summary, whatever failed or was cleared on the way.
THEOREM MemoryIsDurable == Spec => []DurableUnlessOverlapped
  <1>1. IInv => DurableUnlessOverlapped
    BY DEF IInv
  <1> QED
    BY <1>1, Invariance, PTL

\* In a session whose turns never overlapped what was cleared does not come back,
\* not even from a turn that was under way.
THEOREM ClearedIsForgotten == Spec => []ForgottenUnlessOverlapped
  <1>1. IInv => ForgottenUnlessOverlapped
    BY DEF IInv
  <1> QED
    BY <1>1, Invariance, PTL
------------------------------------------------------------------------------
\* What the model does not see.

\* What the proof assumes of the limits: two messages of a turn fit in a batch,
\* and a turn reads at most one message more than a compaction leaves.
LimitsFit == 2 <= Batch /\ Recent <= Keep + 1

Through(s) == IF row[s] = NoRow THEN 0 ELSE row[s].through
Unsummarized(s) == {m \in log[s] : m > Through(s)}

\* What is not in the summary, nor about to be.
Waiting(t) == Unsummarized(session[t]) \ (IF pc[t] = "summarize" THEN chunk[t] ELSE {})

\* The messages of the turn so far.
Written(t) ==
    IF pc[t] \in {"read", "recent", "stream"} THEN 1
    ELSE IF pc[t] \in {"compact", "list"} THEN 2 ELSE 0

TurnFits(t) ==
    Running(t) =>
        /\ Cardinality(Waiting(t)) <= Keep + Written(t)
        /\ pc[t] = "stream" /\ hasTxns[t] =>
              \/ log[session[t]] = {}
              \/ window[t] = LastOf(log[session[t]], Recent)
        /\ pc[t] = "summarize" /\ row[session[t]] = NoRow => log[session[t]] = {}

AtRest(s) == \A t \in Turns : session[t] = s => ~Running(t)

\* A session whose turns ended well is compacted as far as it can be.
Fits(s) ==
    /\ AtRest(s) => Cardinality(Unsummarized(s)) <= Keep
    /\ \A t \in Turns : session[t] = s => TurnFits(t)

FitsInv == \A s \in Sessions \ (overlapped \cup setback) : Fits(s)

\* The oldest of some ids.
LEMMA OldestFact ==
    ASSUME NEW S \in SUBSET Nat, S # {}
    PROVE  \E m \in S : \A x \in S : m <= x
  <1> DEFINE less == OpToRel(<, Nat)
  <1>1. \A x, y \in Nat : <<y, x>> \in less <=> y < x
    BY DEF OpToRel
  <1>2. IsWellFoundedOn(less, Nat)
    BY NatLessThanWellFounded
  <1> HIDE DEF less
  <1>3. PICK z \in S : TRUE
    OBVIOUS
  <1>4. \E m \in S : \A x \in S : ~(<<x, m>> \in less)
    BY <1>2, <1>3, WFMin, Zenon
  <1>5. PICK m \in S : \A x \in S : ~(<<x, m>> \in less)
    BY <1>4
  <1>6. \A x \in S : ~(x < m) /\ x \in Nat /\ m \in Nat
    BY <1>1, <1>5
  <1>7. \A x \in S : m <= x
    BY <1>6
  <1> QED
    BY <1>7

\* The last n are at most n, and what is before them leaves room for n.
LEMMA LastFacts ==
    ASSUME NEW k \in Nat, NEW S \in SUBSET (1 .. k), NEW n \in Nat \ {0},
           NEW R \in SUBSET S, R \cap LastOf(S, n) = {}
    PROVE  /\ Cardinality(LastOf(S, n)) <= n
           /\ R = {} \/ Cardinality(R) + n <= Cardinality(S)
  <1> DEFINE last == LastOf(S, n)
             after(m) == {x \in S : x > m}
  <1>0. IsFiniteSet(S) /\ S \subseteq Nat /\ R \subseteq Nat
    <2>1. IsFiniteSet(1 .. k)
      BY FS_Interval
    <2>2. IsFiniteSet(S)
      BY <2>1, FS_Subset
    <2>3. S \subseteq Nat
      OBVIOUS
    <2> QED
      BY <2>2, <2>3
  <1>1. IsFiniteSet(last) /\ last \subseteq S /\ IsFiniteSet(R)
    BY <1>0, FS_Subset DEF LastOf
  <1>2. \A m \in S : IsFiniteSet(after(m)) /\ Cardinality(after(m)) \in Nat
    BY <1>0, FS_Subset, FS_CardinalityType
  <1>3. Cardinality(last) \in Nat /\ Cardinality(R) \in Nat /\ Cardinality(S) \in Nat
    BY <1>0, <1>1, FS_CardinalityType
  <1>4. Cardinality(last) <= n
    <2>1. CASE last = {}
      BY <2>1, FS_EmptySet
    <2>2. CASE last # {}
      <3>1. PICK m \in last : \A x \in last : m <= x
        BY <1>0, <1>1, <2>2, OldestFact
      <3>2. m \in S /\ Cardinality(after(m)) < n
        BY DEF LastOf
      <3>3. last \subseteq after(m) \cup {m}
        <4> HIDE DEF last
        <4> QED
          BY <1>0, <1>1, <3>1
      <3>4. /\ IsFiniteSet(after(m) \cup {m})
            /\ Cardinality(after(m) \cup {m}) <= Cardinality(after(m)) + 1
            /\ Cardinality(after(m) \cup {m}) \in Nat
        <4> HIDE DEF after
        <4>1. IsFiniteSet(after(m)) /\ Cardinality(after(m)) \in Nat
          BY <1>2, <3>2
        <4>2. /\ IsFiniteSet(after(m) \cup {m})
              /\ Cardinality(after(m) \cup {m}) =
                   IF m \in after(m) THEN Cardinality(after(m)) ELSE Cardinality(after(m)) + 1
          BY <4>1, FS_AddElement
        <4> QED
          BY <4>1, <4>2
      <3>5. Cardinality(last) <= Cardinality(after(m) \cup {m})
        BY <3>3, <3>4, FS_Subset
      <3> HIDE DEF after, last
      <3> QED
        BY <1>2, <1>3, <3>2, <3>4, <3>5
    <2> QED
      BY <2>1, <2>2
  <1>5. ASSUME R # {}
        PROVE  Cardinality(R) + n <= Cardinality(S)
    <2>1. PICK m \in R : \A x \in R : x <= m
      <3>1. R \in SUBSET (1 .. k)
        OBVIOUS
      <3> QED
        BY <1>5, <3>1, NewestFacts
    <2>2. m \in S /\ ~(Cardinality(after(m)) < n)
      BY DEF LastOf
    <2>3. after(m) \cap R = {} /\ after(m) \cup R \subseteq S
      <3>1. \A x \in R : x \in Nat /\ m \in Nat /\ x <= m
        BY <1>0, <2>1
      <3>2. \A x \in R : ~(x > m)
        BY <3>1
      <3> QED
        BY <3>2
    <2> HIDE DEF after
    <2>4. /\ IsFiniteSet(after(m) \cup R)
          /\ Cardinality(after(m) \cup R) =
               Cardinality(after(m)) + Cardinality(R) - Cardinality(after(m) \cap R)
      BY <1>1, <1>2, <2>2, FS_Union
    <2>5. Cardinality(after(m) \cap R) = 0
      BY <2>3, FS_EmptySet
    <2>6. Cardinality(after(m) \cup R) <= Cardinality(S)
      BY <1>0, <2>3, FS_Subset
    <2> QED
      BY <1>2, <1>3, <2>2, <2>4, <2>5, <2>6
  <1> QED
    BY <1>4, <1>5

\* Of at most two messages more than Keep a compaction leaves Keep.
LEMMA CompactionCatchesUp ==
    ASSUME TypeOK, LimitsAssumption, LimitsFit, NEW s \in Sessions, NEW through \in Nat,
           Cardinality({m \in log[s] : m > through}) <= Keep + 2
    PROVE  Cardinality({m \in log[s] : m > through} \ Compactable(s, through)) <= Keep
  <1> DEFINE rows == {m \in log[s] : m > through}
             rest == rows \ LastOf(rows, Keep)
             before(m) == {x \in rest : x < m}
  <1>1. IsFiniteSet(log[s]) /\ log[s] \subseteq Nat \ {0}
    BY LogFinite
  <1>2. /\ IsFiniteSet(rows) /\ rows \in SUBSET Nat
        /\ Len(issued) \in Nat /\ rows \in SUBSET (1 .. Len(issued))
    <2>1. Len(issued) \in Nat /\ log[s] \subseteq 1 .. Len(issued)
      BY DEF TypeOK, Ids
    <2> QED
      BY <1>1, <2>1, FS_Subset
  <1>3. Compactable(s, through) = FirstOf(rest, Batch)
    BY DEF Compactable
  <1> HIDE DEF rows
  <1>4. IsFiniteSet(rest) /\ rest \in SUBSET rows /\ rest \in SUBSET Nat
    BY <1>2, FS_Subset
  <1>5. /\ Cardinality(LastOf(rows, Keep)) <= Keep
        /\ rest = {} \/ Cardinality(rest) + Keep <= Cardinality(rows)
    <2>1. Keep \in Nat \ {0} /\ rest \cap LastOf(rows, Keep) = {}
      BY LimitsAssumption
    <2> HIDE DEF rest
    <2> QED
      BY <1>2, <1>4, <2>1, LastFacts
  <1>6. /\ Cardinality(rows) \in Nat /\ Cardinality(rest) \in Nat
        /\ Keep \in Nat /\ Batch \in Nat
    BY <1>2, <1>4, FS_CardinalityType, LimitsAssumption
  <1>7. Cardinality(rest) <= 2
    <2>1. Cardinality({}) = 0 /\ Cardinality(rows) <= Keep + 2
      BY FS_EmptySet DEF rows
    <2> HIDE DEF rest
    <2> QED
      BY <1>5, <1>6, <2>1
  <1>8. ASSUME NEW m \in rest
        PROVE  Cardinality(before(m)) < Batch
    <2>1. before(m) \in SUBSET rest /\ m \notin before(m)
      BY <1>4
    <2>2. IsFiniteSet(before(m)) /\ Cardinality(before(m)) <= Cardinality(rest)
      BY <1>4, <2>1, FS_Subset
    <2>3. Cardinality(before(m)) # Cardinality(rest)
      BY <1>4, <2>1, FS_Subset
    <2>4. Cardinality(before(m)) \in Nat
      BY <2>2, FS_CardinalityType
    <2> HIDE DEF before, rest
    <2> QED
      BY <1>6, <1>7, <2>2, <2>3, <2>4 DEF LimitsFit
  <1>9. FirstOf(rest, Batch) = rest
    BY <1>8 DEF FirstOf
  <1>10. rows \ rest = LastOf(rows, Keep)
    BY DEF LastOf
  <1>11. Cardinality(rows \ Compactable(s, through)) <= Keep
    BY <1>3, <1>5, <1>9, <1>10
  <1> QED
    BY <1>11 DEF rows

LEMMA UnsummarizedFacts ==
    ASSUME TypeOK, NEW s \in Sessions
    PROVE  /\ IsFiniteSet(Unsummarized(s))
           /\ Cardinality(Unsummarized(s)) \in Nat
           /\ Through(s) \in Nat
  <1>1. IsFiniteSet(Unsummarized(s))
    BY LogFinite, FS_Subset DEF Unsummarized
  <1>2. Through(s) \in Nat
    BY DEF Through, TypeOK
  <1> QED
    BY <1>1, <1>2, FS_CardinalityType

LEMMA SmallerFits ==
    ASSUME NEW S, IsFiniteSet(S), NEW T \in SUBSET S, NEW n \in Nat, Cardinality(S) <= n
    PROVE  Cardinality(T) <= n
  <1>1. IsFiniteSet(T) /\ Cardinality(T) <= Cardinality(S)
    BY FS_Subset
  <1>2. Cardinality(T) \in Nat /\ Cardinality(S) \in Nat
    BY <1>1, FS_CardinalityType
  <1> QED
    BY <1>1, <1>2

\* A step of somebody else leaves the session alone, or clears it.
LEMMA FitsElsewhere ==
    ASSUME TypeOK, LimitsAssumption, NEW s \in Sessions, Fits(s), session' = session,
           \A u \in Turns : session[u] = s =>
              /\ pc'[u] = pc[u] /\ chunk'[u] = chunk[u]
              /\ window'[u] = window[u] /\ hasTxns'[u] = hasTxns[u],
           \/ row'[s] = row[s] /\ log'[s] = log[s]
           \/ Cleared(s)
    PROVE  Fits(s)'
  <1>1. CASE row'[s] = row[s] /\ log'[s] = log[s]
    <2>1. Unsummarized(s)' = Unsummarized(s)
      BY <1>1 DEF Unsummarized, Through
    <2>2. AtRest(s)' => AtRest(s)
      BY DEF AtRest, Running
    <2>3. ASSUME NEW u \in Turns, session[u] = s
          PROVE  TurnFits(u)'
      <3>1. TurnFits(u)
        BY <2>3 DEF Fits
      <3>2. Waiting(u)' = Waiting(u) /\ Written(u)' = Written(u)
        BY <2>1, <2>3 DEF Waiting, Written
      <3> QED
        BY <1>1, <2>3, <3>1, <3>2 DEF TurnFits, Running
    <2> QED
      BY <2>1, <2>2, <2>3 DEF Fits
  <1>2. CASE Cleared(s)
    <2>1. log'[s] = {} /\ Unsummarized(s)' = {}
      BY <1>2 DEF Unsummarized, Cleared
    <2>2. Cardinality({}) = 0 /\ Keep \in Nat
      BY FS_EmptySet, LimitsAssumption
    <2>3. ASSUME NEW u \in Turns, session[u] = s
          PROVE  TurnFits(u)'
      <3>1. Waiting(u)' = {} /\ Written(u)' \in Nat
        BY <2>1, <2>3 DEF Waiting, Written
      <3>2. Cardinality(Waiting(u)') <= Keep + Written(u)'
        BY <2>2, <3>1
      <3> QED
        BY <2>1, <2>3, <3>2 DEF TurnFits
    <2> QED
      BY <2>1, <2>2, <2>3 DEF Fits
  <1> QED
    BY <1>1, <1>2

\* The turn that takes a step is the only one of its session that runs.
LEMMA Alone ==
    ASSUME TypeOK, OverlapKnown, NEW t \in Turns, Turn(t), session[t] \notin overlapped',
           NEW u \in Turns, u # t, session[u] = session[t]
    PROVE  ~Running(u) /\ ~Running(u)'
  <1>1. overlapped \subseteq overlapped' /\ pc'[u] = pc[u]
    BY TurnFrame
  <1>2. CASE Running(t)
    BY <1>1, <1>2 DEF OverlapKnown, Running
  <1>3. CASE ~Running(t)
    <2>1. \E ofMonth \in BOOLEAN : Come(t, ofMonth)
      BY <1>3 DEF Running, Turn, LookAnyMonth, Forget, Open, Ask, ReadSession, ReadRecent,
                  Reply, CompactFrom, ListForSummary, UpdateSummary, Stop
    <2> QED
      BY <1>1, <2>1 DEF Come, Running
  <1> QED
    BY <1>2, <1>3

LEMMA FitsTurn ==
    ASSUME IInv, FitsInv, LimitsAssumption, LimitsFit, NEW t \in Turns, Turn(t),
           session[t] \notin overlapped' \cup setback'
    PROVE  Fits(session[t])'
  <1> DEFINE s == session[t]
             U == Unsummarized(s)
  <1>0. /\ s \in Sessions /\ TypeOK /\ OverlapKnown /\ Keep \in Nat
        /\ pc \in [Turns -> Labels]
        /\ row \in [Sessions -> {NoRow} \cup [summary : SUBSET Ids, through : 0 .. Len(issued)]]
        /\ log \in [Sessions -> SUBSET Ids]
        /\ chunk \in [Turns -> SUBSET Ids]
        /\ window \in [Turns -> SUBSET Ids]
        /\ hasTxns \in [Turns -> BOOLEAN]
    BY LimitsAssumption DEF IInv, TypeOK, Labels
  <1>1. /\ session' = session /\ s \notin overlapped /\ s \notin setback /\ ~Stop(t)
    <2>1. session' = session /\ s \notin overlapped
      BY <1>0, TurnFrame
    <2>2. setback \subseteq setback' /\ ~Stop(t)
      BY DEF Turn, Come, LookAnyMonth, Forget, Open, Ask, ReadSession, ReadRecent, Reply,
             CompactFrom, ListForSummary, UpdateSummary, Stop, history
    <2> QED
      BY <2>1, <2>2
  <1>2. \A u \in Turns : u # t /\ session[u] = s => ~Running(u) /\ ~Running(u)'
    BY <1>0, Alone
  <1>3. Fits(s) /\ MemoryCurrent(t)
    BY <1>0, <1>1 DEF FitsInv, IInv
  <1>4. /\ ~Running(t) => Cardinality(U) <= Keep
        /\ Running(t) => TurnFits(t)
    BY <1>2, <1>3 DEF Fits, AtRest
  <1>5. IsFiniteSet(U) /\ Cardinality(U) \in Nat /\ Through(s) \in Nat
    BY <1>0, UnsummarizedFacts
  <1>6. SUFFICES /\ Running(t)' => TurnFits(t)'
                 /\ ~Running(t)' => Cardinality(U') <= Keep
    <2>1. ASSUME NEW u \in Turns, session'[u] = s, Running(t)' => TurnFits(t)'
          PROVE  TurnFits(u)'
      BY <1>1, <1>2, <2>1 DEF TurnFits
    <2>2. ASSUME AtRest(s)'
          PROVE  ~Running(t)'
      BY <1>1, <2>2 DEF AtRest
    <2> QED
      BY <1>1, <2>1, <2>2 DEF Fits, AtRest, Unsummarized, Through
  <1>7. ASSUME log' = log, row'[s] = IF row[s] = NoRow THEN Fresh ELSE row[s]
        PROVE  U' = U
    BY <1>1, <1>7, FreshFacts DEF Unsummarized, Through
  <1>8. ASSUME log'[s] = log[s] \cup {NextId}, row' = row, NEW n \in Nat, Cardinality(U) <= n
        PROVE  Cardinality(U') <= n + 1
    <2>1. U' \subseteq U \cup {NextId}
      BY <1>1, <1>8 DEF Unsummarized, Through
    <2>2. /\ IsFiniteSet(U \cup {NextId})
          /\ Cardinality(U \cup {NextId}) =
               IF NextId \in U THEN Cardinality(U) ELSE Cardinality(U) + 1
      BY <1>5, FS_AddElement
    <2>3. Cardinality(U \cup {NextId}) <= n + 1
      BY <1>5, <1>8, <2>2
    <2> HIDE DEF U
    <2> QED
      BY <2>1, <2>2, <2>3, SmallerFits
  <1>9. CASE \E ofMonth \in BOOLEAN : Come(t, ofMonth)
    <2>1. /\ ~Running(t) /\ UNCHANGED <<log, row>>
          /\ pc'[t] \in {"open", "any", "forget"}
      BY <1>0, <1>9 DEF Come, Goto, tables, Running
    <2>2. U' = U
      BY <1>1, <2>1 DEF Unsummarized, Through
    <2>3. Waiting(t)' = U' /\ Written(t)' = 0
      BY <1>1, <2>1 DEF Waiting, Written, Unsummarized, Through
    <2> QED
      BY <1>0, <1>4, <1>5, <2>1, <2>2, <2>3 DEF TurnFits, Running
  <1>10. CASE LookAnyMonth(t) \/ Open(t)
    <2>1. /\ Running(t) /\ pc[t] \in {"any", "open"} /\ pc'[t] \in {"open", "forget", "ask"}
          /\ U' = U
      <3>1. CASE LookAnyMonth(t)
        BY <1>0, <1>1, <3>1 DEF LookAnyMonth, Goto, tables, Running, Unsummarized, Through
      <3>2. CASE Open(t)
        BY <1>0, <1>1, <1>7, <3>2 DEF Open, Goto, GetOrCreate, Running
      <3> QED
        BY <1>10, <3>1, <3>2
    <2>2. Waiting(t)' = U' /\ Written(t)' = 0 /\ Waiting(t) = U /\ Written(t) = 0
      BY <1>1, <2>1 DEF Waiting, Written, Unsummarized, Through
    <2> QED
      BY <1>4, <2>1, <2>2 DEF TurnFits, Running
  <1>11. CASE Forget(t)
    <2>1. U' = {} /\ pc'[t] = "open"
      BY <1>0, <1>1, <1>11 DEF Forget, ClearMemory, Goto, Unsummarized
    <2>2. Waiting(t)' = {} /\ Written(t)' = 0
      BY <1>1, <2>1 DEF Waiting, Written, Unsummarized, Through
    <2>3. Cardinality({}) = 0
      BY FS_EmptySet
    <2> QED
      BY <1>0, <2>1, <2>2, <2>3 DEF TurnFits, Running
  <1>12. CASE Ask(t) \/ Reply(t)
    <2>1. /\ Running(t) /\ row' = row /\ log'[s] = log[s] \cup {NextId}
          /\ \/ pc[t] = "ask" /\ pc'[t] = "read"
             \/ pc[t] = "stream" /\ pc'[t] = "compact"
      BY <1>0, <1>12 DEF Ask, Reply, AddMessage, Goto, Running
    <2>2. /\ Waiting(t)' = U' /\ Waiting(t) = U
          /\ Written(t) \in Nat /\ Written(t)' = Written(t) + 1
      BY <1>1, <2>1 DEF Waiting, Written, Unsummarized, Through
    <2>3. Cardinality(U) <= Keep + Written(t)
      BY <1>4, <2>1, <2>2 DEF TurnFits
    <2>4. Cardinality(U') <= Keep + Written(t) + 1
      BY <1>0, <1>8, <2>1, <2>2, <2>3
    <2>5. Cardinality(Waiting(t)') <= Keep + Written(t)'
      BY <1>0, <2>2, <2>4
    <2> QED
      BY <2>1, <2>5 DEF TurnFits, Running
  <1>13. CASE ReadSession(t) \/ ReadRecent(t)
    <2>1. /\ Running(t) /\ pc[t] \in {"read", "recent"} /\ pc'[t] \in {"recent", "stream"}
          /\ U' = U
      <3>1. CASE ReadSession(t)
        BY <1>0, <1>1, <1>7, <3>1 DEF ReadSession, GetOrCreate, Goto, Running
      <3>2. CASE ReadRecent(t)
        BY <1>0, <1>1, <3>2 DEF ReadRecent, Goto, tables, Running, Unsummarized, Through
      <3> QED
        BY <1>13, <3>1, <3>2
    <2>2. Waiting(t)' = U' /\ Written(t)' = 1 /\ Waiting(t) = U /\ Written(t) = 1
      BY <1>1, <2>1 DEF Waiting, Written, Unsummarized, Through
    <2>3. pc'[t] = "stream" /\ hasTxns'[t] => window'[t] = LastOf(log[s], Recent) /\ log' = log
      BY <1>0, <1>13 DEF ReadSession, ReadRecent, Goto, tables
    <2>4. pc'[t] = "stream" /\ hasTxns'[t] => window'[t] = LastOf(log'[s], Recent)
      BY <2>3 DEF LastOf
    <2> QED
      BY <1>1, <1>4, <2>1, <2>2, <2>4 DEF TurnFits, Running, LastOf
  <1>14. CASE CompactFrom(t)
    <2>1. Running(t) /\ pc[t] = "compact" /\ pc'[t] = "list" /\ U' = U
      BY <1>0, <1>1, <1>7, <1>14 DEF CompactFrom, GetOrCreate, Goto, Running
    <2>2. Waiting(t)' = U' /\ Written(t)' = 2 /\ Waiting(t) = U /\ Written(t) = 2
      BY <1>1, <2>1 DEF Waiting, Written, Unsummarized, Through
    <2> QED
      BY <1>4, <2>1, <2>2 DEF TurnFits, Running
  <1>15. CASE ListForSummary(t)
    <2> DEFINE C == Compactable(s, since[t])
    <2>1. Running(t) /\ pc[t] = "list" /\ UNCHANGED <<log, row>>
      BY <1>15 DEF ListForSummary, tables, Running
    <2>2. U' = U /\ Cardinality(U) <= Keep + 2
      <3>1. Waiting(t) = U /\ Written(t) = 2
        BY <2>1 DEF Waiting, Written
      <3> QED
        BY <1>1, <1>4, <2>1, <3>1 DEF TurnFits, Unsummarized, Through
    <2>3. /\ Cardinality(U \ C) <= Keep
          /\ row[s] = NoRow => C = {}
      <3>1. CASE row[s] = NoRow /\ log[s] = {}
        <4>1. U = {} /\ C = {}
          BY <3>1 DEF Unsummarized, Compactable, FirstOf
        <4>2. U \ C = {}
          BY <4>1
        <4> QED
          BY <1>0, <4>1, <4>2, FS_EmptySet
      <3>2. CASE row[s] # NoRow /\ since[t] = row[s].through
        <4>1. U = {m \in log[s] : m > since[t]} /\ since[t] \in Nat
          BY <1>5, <3>2 DEF Unsummarized, Through
        <4>2. Cardinality({m \in log[s] : m > since[t]}) <= Keep + 2
          BY <2>2, <4>1
        <4>3. Cardinality({m \in log[s] : m > since[t]} \ Compactable(s, since[t])) <= Keep
          <5> HIDE DEF s
          <5> QED
            BY <1>0, <4>1, <4>2, CompactionCatchesUp, LimitsAssumption
        <4> QED
          BY <3>2, <4>1, <4>3
      <3> QED
        BY <1>3, <2>1, <3>1, <3>2 DEF MemoryCurrent
    <2>4. CASE C = {}
      <3>1. pc'[t] = "done"
        BY <1>0, <1>15, <2>4 DEF ListForSummary, Return, Goto
      <3>2. U \ C = U
        BY <2>4
      <3> QED
        BY <2>2, <2>3, <3>1, <3>2 DEF Running
    <2>5. CASE C # {}
      <3>1. pc'[t] = "summarize" /\ chunk'[t] = C
        BY <1>0, <1>15, <2>5 DEF ListForSummary, Goto
      <3>2. Waiting(t)' = U \ C /\ Written(t)' = 0
        BY <1>1, <2>2, <3>1 DEF Waiting, Written, Unsummarized, Through
      <3>3. row'[s] # NoRow
        BY <2>1, <2>3, <2>5
      <3>4. Cardinality(Waiting(t)') <= Keep + Written(t)'
        <4> HIDE DEF U, C
        <4> QED
          BY <1>0, <2>3, <3>2
      <3>5. pc'[t] = "summarize" /\ row'[session'[t]] # NoRow
        BY <1>1, <3>1, <3>3
      <3>6. TurnFits(t)'
        <4> HIDE DEF C, U, s
        <4> QED
          BY <3>4, <3>5 DEF TurnFits
      <3> QED
        BY <3>5, <3>6 DEF Running
    <2> QED
      BY <2>4, <2>5
  <1>16. CASE UpdateSummary(t)
    <2>1. /\ Running(t) /\ pc[t] = "summarize" /\ pc'[t] = "done" /\ log' = log
          /\ chunk[t] # {} /\ chunk[t] \in SUBSET (1 .. Len(issued)) /\ Len(issued) \in Nat
      BY <1>0, <1>16 DEF UpdateSummary, Return, Goto, Running, TypeOK, Ids
    <2>2. Cardinality(U \ chunk[t]) <= Keep /\ (row[s] = NoRow => log[s] = {})
      <3>1. Waiting(t) = U \ chunk[t] /\ Written(t) = 0
        BY <2>1 DEF Waiting, Written
      <3> QED
        BY <1>0, <1>4, <2>1, <3>1 DEF TurnFits
    <2>3. U' \subseteq U \ chunk[t]
      <3>1. CASE row[s] = NoRow
        BY <1>1, <2>1, <2>2, <3>1 DEF Unsummarized
      <3>2. CASE row[s] # NoRow
        <4> DEFINE n == Newest(chunk[t])
                   old == row[s].through
        <4>1. \A c \in chunk[t] : c <= Newest(chunk[t])
          BY <2>1, NewestFacts
        <4>2. n \in Nat
          <5>1. Newest(chunk[t]) \in chunk[t]
            BY <2>1, NewestFacts
          <5> QED
            BY <2>1, <5>1
        <4>3. row'[s] # NoRow /\ row'[s].through = IF old > n THEN old ELSE n
          <5>1. row'[s] = [summary |-> memory[t] \cup chunk[t],
                           through |-> IF old > n THEN old ELSE n]
            BY <1>0, <1>16, <3>2 DEF UpdateSummary
          <5>2. memory[t] \cup chunk[t] \in SUBSET Nat
            BY <1>0 DEF TypeOK, Ids
          <5>3. old \in Nat
            BY <1>5, <3>2 DEF Through
          <5> HIDE DEF n, old
          <5>4. (IF old > n THEN old ELSE n) \in Nat
            BY <4>2, <5>3
          <5>5. row'[s] \in [summary : SUBSET Nat, through : Nat]
            BY <5>1, <5>2, <5>4
          <5> QED
            BY <5>1, <5>5, NoRowAssumption
        <4>4. old \in Nat /\ Through(s) = old /\ Through(s)' = row'[s].through
          BY <1>1, <1>5, <3>2, <4>3 DEF Through
        <4>5. U = {m \in log[s] : m > old} /\ U' = {m \in log[s] : m > row'[s].through}
          BY <1>1, <2>1, <4>4 DEF Unsummarized
        <4>6. log[s] \subseteq Nat /\ chunk[t] \subseteq Nat
          BY <1>0, <2>1 DEF Ids
        <4>7. \A c \in chunk[t] : c <= n
          BY <4>1
        <4> HIDE DEF n, old
        <4>8. ASSUME NEW m \in log[s], m > row'[s].through
              PROVE  m > old /\ m \notin chunk[t]
          BY <4>2, <4>3, <4>4, <4>6, <4>7, <4>8
        <4> HIDE DEF U
        <4> QED
          BY <4>5, <4>8
      <3> QED
        BY <3>1, <3>2
    <2>4. IsFiniteSet(U \ chunk[t])
      BY <1>5, FS_Subset
    <2> HIDE DEF U
    <2>5. Cardinality(U') <= Keep
      BY <1>0, <2>2, <2>3, <2>4, SmallerFits
    <2> QED
      BY <2>1, <2>5 DEF Running
  <1> QED
    BY <1>1, <1>9, <1>10, <1>11, <1>12, <1>13, <1>14, <1>15, <1>16 DEF Turn

LEMMA FitsStep ==
    ASSUME LimitsFit, IInv, FitsInv, [Next]_vars
    PROVE  FitsInv'
  <1>0. TypeOK /\ LimitsAssumption
    BY LimitsAssumption DEF IInv
  <1> SUFFICES ASSUME NEW s \in Sessions, s \notin overlapped' \cup setback'
               PROVE  Fits(s)'
    BY DEF FitsInv
  <1>1. CASE \E t \in Turns : Turn(t)
    <2> PICK t \in Turns : Turn(t)
      BY <1>1
    <2>1. CASE session[t] = s
      <3>1. session'[t] = s
        BY <1>0, <2>1, TurnFrame
      <3>2. Fits(session[t])'
        BY <1>0, <2>1, FitsTurn
      <3> QED
        BY <3>1, <3>2
    <2>2. CASE session[t] # s
      <3>1. /\ session' = session /\ overlapped \subseteq overlapped'
            /\ \A u \in Turns : u # t => /\ pc'[u] = pc[u] /\ chunk'[u] = chunk[u]
                                         /\ window'[u] = window[u] /\ hasTxns'[u] = hasTxns[u]
            /\ \/ row'[s] = row[s] /\ log'[s] = log[s]
               \/ Cleared(s)
        BY <1>0, <2>2, TurnFrame
      <3>2. setback \subseteq setback'
        BY DEF Turn, Come, LookAnyMonth, Forget, Open, Ask, ReadSession, ReadRecent, Reply,
               CompactFrom, ListForSummary, UpdateSummary, Stop, history
      <3>3. Fits(s)
        BY <3>1, <3>2 DEF FitsInv
      <3> QED
        BY <1>0, <2>2, <3>1, <3>3, FitsElsewhere
    <2> QED
      BY <2>1, <2>2
  <1>2. CASE \/ \E r \in Sessions : ResetChat(r)
             \/ ClearTransactions \/ ClearChatMemory \/ ImportTransactions
    <2>1. /\ UNCHANGED <<pc, session, locals, history>>
          /\ \/ row'[s] = row[s] /\ log'[s] = log[s]
             \/ Cleared(s)
      BY <1>0, <1>2, RequestFrame
    <2>2. Fits(s)
      BY <2>1 DEF FitsInv, history
    <2> QED
      BY <1>0, <2>1, <2>2, FitsElsewhere DEF locals
  <1>3. CASE UNCHANGED vars
    <2>1. UNCHANGED <<row, log, pc, session, locals, history>>
      BY <1>3 DEF vars, tables
    <2>2. Fits(s)
      BY <2>1 DEF FitsInv, history
    <2> QED
      BY <1>0, <2>1, <2>2, FitsElsewhere DEF locals
  <1> QED
    BY <1>1, <1>2, <1>3 DEF Next

LEMMA InitFits == Init => FitsInv
  <1> SUFFICES ASSUME Init, NEW s \in Sessions
               PROVE  Fits(s)
    BY DEF FitsInv
  <1>1. Unsummarized(s) = {}
    BY DEF Init, Unsummarized
  <1>2. Cardinality({}) = 0 /\ Keep \in Nat
    BY FS_EmptySet, LimitsAssumption
  <1>3. \A t \in Turns : ~Running(t)
    BY DEF Init, Running
  <1> QED
    BY <1>1, <1>2, <1>3 DEF Fits, TurnFits

\* The inductive invariant of the windows: a session whose turns ended well, one
\* after the other, is compacted as far as it can be.
THEOREM FitsInvariance == LimitsFit => (Spec => []FitsInv)
  <1> SUFFICES ASSUME LimitsFit
               PROVE  Spec => []FitsInv
    OBVIOUS
  <1>1. IInv /\ FitsInv /\ [Next]_vars => FitsInv'
    BY FitsStep
  <1> QED
    BY <1>1, InitFits, Invariance, PTL DEF Spec

\* Of a conversation whose turns ended well, one after the other, at most one
\* message more than Keep - Recent is hidden from the model.
THEOREM LittleIsHidden == LimitsFit => (Spec => []HiddenIsOneMessage)
  <1> SUFFICES ASSUME LimitsFit
               PROVE  Spec => []HiddenIsOneMessage
    OBVIOUS
  <1>1. IInv /\ FitsInv => HiddenIsOneMessage
    <2> SUFFICES ASSUME IInv, FitsInv, NEW t \in Turns,
                        pc[t] = "stream", hasTxns[t],
                        session[t] \notin overlapped \cup setback
                 PROVE  Cardinality(log[session[t]] \ (memory[t] \cup window[t])) + Recent <= Keep + 1
      BY DEF HiddenIsOneMessage
    <2> DEFINE s == session[t]
               H == log[s] \ (memory[t] \cup window[t])
               U == Unsummarized(s)
               k == Len(issued)
    <2>1. /\ TypeOK /\ s \in Sessions /\ k \in Nat /\ log[s] \in SUBSET (1 .. k)
          /\ Recent \in Nat \ {0} /\ Keep \in Nat /\ Recent <= Keep + 1
      BY LimitsAssumption DEF IInv, TypeOK, Ids, LimitsFit
    <2>2. Fits(s) /\ MemoryCurrent(t) /\ SummaryOk(s)
      BY <2>1 DEF FitsInv, IInv, SummaryOk, DurableUnlessOverlapped, ForgottenUnlessOverlapped
    <2>3. /\ Cardinality(U) <= Keep + 1
          /\ log[s] = {} \/ window[t] = LastOf(log[s], Recent)
      <3>1. TurnFits(t) /\ Running(t)
        BY <2>2 DEF Fits, Running
      <3>2. Waiting(t) = U /\ Written(t) = 1
        BY DEF Waiting, Written
      <3> QED
        BY <3>1, <3>2 DEF TurnFits
    <2>4. IsFiniteSet(U) /\ Cardinality(U) \in Nat
      BY <2>1, UnsummarizedFacts
    <2>5. CASE H = {}
      <3>1. Cardinality(H) = 0
        BY <2>5, FS_EmptySet
      <3> HIDE DEF H
      <3>2. Cardinality(H) + Recent <= Keep + 1
        BY <2>1, <3>1
      <3> QED
        BY <3>2 DEF H
    <2>6. CASE H # {}
      <3>1. /\ row[s] # NoRow /\ row[s].summary = memory[t]
            /\ window[t] = LastOf(log[s], Recent)
        BY <2>2, <2>3, <2>6 DEF MemoryCurrent
      <3>2. H \subseteq U
        BY <2>1, <2>2, <3>1 DEF SummaryOk, Summarized, Unsummarized, Through, TypeOK, Ids
      <3>3. H \cap LastOf(U, Recent) = {}
        <4>1. \A m \in U : {x \in U : x > m} = {x \in log[s] : x > m}
          BY <2>1, <2>4, UnsummarizedFacts DEF Unsummarized
        <4>2. \A m \in LastOf(U, Recent) : m \in LastOf(log[s], Recent)
          BY <4>1 DEF LastOf, Unsummarized
        <4> QED
          BY <3>1, <4>2
      <3>4. U \in SUBSET (1 .. k)
        BY <2>1 DEF Unsummarized
      <3> HIDE DEF H, U, k
      <3>5. Cardinality(H) + Recent <= Cardinality(U)
        BY <2>1, <2>6, <3>2, <3>3, <3>4, LastFacts
      <3>6. IsFiniteSet(H)
        BY <2>4, <3>2, FS_Subset
      <3>7. Cardinality(H) \in Nat
        BY <3>6, FS_CardinalityType
      <3>8. Cardinality(H) + Recent <= Keep + 1
        BY <2>1, <2>3, <2>4, <3>5, <3>7
      <3> QED
        BY <3>8 DEF H
    <2> QED
      BY <2>5, <2>6
  <1> QED
    BY <1>1, FitsInvariance, Invariance, PTL
=============================================================================
