-------------------------- MODULE IdempotencyProofs --------------------------
(***************************************************************************)
(* Theorems about Idempotency.  The parts of the invariant that need no    *)
(* bound on the days are in BInv; KInv adds what holds while no key that   *)
(* is looked at has expired.                                               *)
(***************************************************************************)
EXTENDS Idempotency, TLAPS

\* What the stage of a request says of it.
StageOK(r) ==
    /\ r \in txns => pc[r] \in {"putting", "replied", "broken"}
    /\ pc[r] = "putting" => r \in txns
    /\ pc[r] = "idle" => answered[r] = None /\ known[r] = {}
    /\ pc[r] # "idle" => key[r] \in Keys
    /\ answered[r] # None => pc[r] = "replied" /\ answered[r] <= today

\* A row of the table is a response that was given to a request of its key.
TableOK(k) ==
    table[k] # None =>
        LET s == table[k].response
        IN  key[s] = k /\ s \in txns /\ answered[s] = table[k].day

\* What was similar when a request came is there still, and it was confirmed.
StoredOK(r) ==
    /\ stored[r] \subseteq txns
    /\ pc[r] = "saving" \/ r \in txns =>
          confirm[r] \/ \A s \in stored[r] : ~Similar(r, s)

ConfirmedOK(r) == pc[r] = "replied" /\ confirm[r] => reply[r] \in txns

BInv ==
    /\ TypeOK
    /\ \A r \in Requests : StageOK(r)
    /\ \A k \in Keys : TableOK(k)
    /\ \A r \in Requests : StoredOK(r)
    /\ \A r \in Requests : ConfirmedOK(r)

\* While no key expires, a response once put is the row of its key.
AnsweredOK(s) == answered[s] # None => table[key[s]] # None

KnownOK(r) ==
    known[r] # {} =>
        /\ r \notin txns /\ pc[r] = "replied"
        /\ table[key[r]] # None /\ reply[r] = table[key[r]].response
        /\ reply[r] \in known[r]

KInv ==
    /\ BInv
    /\ \A r \in Requests : AnsweredOK(r)
    /\ \A r \in Requests : KnownOK(r)

\* Similarity is that of the keys' bodies.
LEMMA SameSimilar ==
    ASSUME NEW r, NEW s, key'[r] = key[r], key'[s] = key[s]
    PROVE  Similar(r, s)' <=> Similar(r, s)
BY DEF Similar

LEMMA InitBInv == Init => BInv
<1> SUFFICES ASSUME Init PROVE BInv
    OBVIOUS
<1>1. TypeOK
    BY DaysAssumption DEF Init, TypeOK
<1>2. \A r \in Requests : StageOK(r) /\ StoredOK(r) /\ ConfirmedOK(r)
    BY DEF Init, StageOK, StoredOK, ConfirmedOK
<1>3. \A k \in Keys : TableOK(k)
    BY DEF Init, TableOK
<1> QED
    BY <1>1, <1>2, <1>3 DEF BInv

LEMMA ComeType ==
    ASSUME TypeOK, NEW r \in Requests, NEW k \in Keys, NEW sure \in BOOLEAN, Come(r, k, sure)
    PROVE  TypeOK'
<1> DEFINE found == {s \in Requests : key[s] = k /\ answered[s] # None /\ today - answered[s] <= TtlDays}
<1>1. known' = [known EXCEPT ![r] = found] /\ found \in SUBSET Requests
    BY DEF Come
<1> HIDE DEF found
<1>2. known' \in [Requests -> SUBSET Requests]
    BY <1>1 DEF TypeOK
<1>3. confirm' \in [Requests -> BOOLEAN]
    BY DEF TypeOK, Come
<1>4. stored' \in [Requests -> SUBSET Requests]
    BY DEF TypeOK, Come
<1>5. key' \in [Requests -> Keys \cup {None}]
    BY DEF TypeOK, Come
<1>6. /\ pc' \in [Requests -> {"idle", "reading", "saving", "putting", "replied", "broken"}]
      /\ reply' \in [Requests -> Requests \cup {None, "warning"}]
  <2>1. CASE Cached(k)
    <3>1. table[k].response \in Requests
        BY <2>1 DEF Cached, TypeOK
    <3> QED
        BY <2>1, <3>1 DEF Come, TypeOK
  <2>2. CASE ~Cached(k)
    BY <2>2 DEF Come, TypeOK
  <2> QED
    BY <2>1, <2>2
<1> QED
    BY <1>2, <1>3, <1>4, <1>5, <1>6 DEF Come, TypeOK

LEMMA ComeBInv ==
    ASSUME BInv, NEW r \in Requests, NEW k \in Keys, NEW sure \in BOOLEAN, Come(r, k, sure)
    PROVE  BInv'
<1>1. TypeOK'
    BY ComeType DEF BInv
<1>2. /\ pc[r] = "idle" /\ r \notin txns /\ answered[r] = None
      /\ UNCHANGED <<today, txns, table, answered>>
    BY DEF Come, BInv, StageOK
<1>3. /\ pc'[r] \in {"reading", "replied"} /\ key'[r] = k
      /\ confirm'[r] = sure /\ stored'[r] = txns
    BY DEF Come, BInv, TypeOK
<1>4. \A q \in Requests : q # r =>
        /\ pc'[q] = pc[q] /\ key'[q] = key[q] /\ confirm'[q] = confirm[q]
        /\ known'[q] = known[q] /\ stored'[q] = stored[q] /\ reply'[q] = reply[q]
    BY DEF Come, BInv, TypeOK
<1>5. \A q \in Requests : StageOK(q)'
    BY <1>2, <1>3, <1>4 DEF BInv, StageOK
<1>6. ASSUME NEW i \in Keys PROVE TableOK(i)'
  <2>1. table[i] # None => table[i].response \in Requests
    BY DEF BInv, TypeOK
  <2> QED
    BY <1>2, <1>4, <2>1 DEF BInv, TableOK
<1>7. ASSUME NEW q \in Requests PROVE StoredOK(q)'
  <2>1. CASE q = r
    BY <1>2, <1>3, <2>1 DEF StoredOK
  <2>2. CASE q # r
    <3>1. \A s \in stored[q] : Similar(q, s)' <=> Similar(q, s)
      <4> SUFFICES ASSUME NEW s \in stored[q] PROVE Similar(q, s)' <=> Similar(q, s)
        OBVIOUS
      <4>1. s \in Requests /\ s # r
        BY <1>2 DEF BInv, StoredOK, TypeOK
      <4> QED
        BY <1>4, <2>2, <4>1, SameSimilar
    <3> QED
        BY <1>2, <1>4, <2>2, <3>1 DEF BInv, StoredOK
  <2> QED
    BY <2>1, <2>2
<1>8. ASSUME NEW q \in Requests PROVE ConfirmedOK(q)'
  <2>1. CASE q = r /\ Cached(k)
    <3>1. reply'[r] = table[k].response /\ table[k] # None
        BY <2>1 DEF Come, Cached, BInv, TypeOK
    <3> QED
        BY <1>2, <2>1, <3>1 DEF BInv, TableOK, ConfirmedOK
  <2>2. CASE q = r /\ ~Cached(k)
    BY <2>2 DEF Come, BInv, TypeOK, ConfirmedOK
  <2>3. CASE q # r
    BY <1>2, <1>4, <2>3 DEF BInv, ConfirmedOK
  <2> QED
    BY <2>1, <2>2, <2>3
<1> QED
    BY <1>1, <1>5, <1>6, <1>7, <1>8 DEF BInv

LEMMA CheckBInv ==
    ASSUME BInv, NEW r \in Requests, Check(r)
    PROVE  BInv'
<1>1. TypeOK'
    BY DEF Check, BInv, TypeOK
<1>2. /\ pc[r] = "reading" /\ pc'[r] \in {"saving", "replied"} /\ r \notin txns
      /\ answered[r] = None
      /\ UNCHANGED <<today, key, confirm, txns, table, known, stored, answered>>
    BY DEF Check, BInv, TypeOK, StageOK
<1>3. \A q \in Requests : q # r => pc'[q] = pc[q] /\ reply'[q] = reply[q]
    BY DEF Check, BInv, TypeOK
<1>4. \A q \in Requests : StageOK(q)'
    BY <1>2, <1>3 DEF BInv, StageOK
<1>5. \A k \in Keys : TableOK(k)'
    BY <1>2 DEF BInv, TableOK
<1>6. \A q, s : Similar(q, s)' <=> Similar(q, s)
    BY <1>2, SameSimilar
<1>7. ASSUME NEW q \in Requests PROVE StoredOK(q)'
  <2>1. CASE q = r
    <3>1. pc'[r] = "saving" => confirm[r] \/ \A s \in txns : ~Similar(r, s)
        BY DEF Check, BInv, TypeOK
    <3>2. stored[r] \subseteq txns
        BY DEF BInv, StoredOK
    <3> QED
        BY <1>2, <1>6, <2>1, <3>1, <3>2 DEF StoredOK
  <2>2. CASE q # r
    BY <1>2, <1>3, <1>6, <2>2 DEF BInv, StoredOK
  <2> QED
    BY <2>1, <2>2
<1>8. ASSUME NEW q \in Requests PROVE ConfirmedOK(q)'
  <2>1. CASE q = r
    BY <1>2, <2>1 DEF Check, ConfirmedOK, BInv, TypeOK
  <2>2. CASE q # r
    BY <1>2, <1>3, <2>2 DEF BInv, ConfirmedOK
  <2> QED
    BY <2>1, <2>2
<1> QED
    BY <1>1, <1>4, <1>5, <1>7, <1>8 DEF BInv

LEMMA SaveBInv ==
    ASSUME BInv, NEW r \in Requests, Save(r)
    PROVE  BInv'
<1>1. TypeOK'
    BY DEF Save, BInv, TypeOK
<1>2. /\ pc[r] = "saving" /\ pc'[r] = "putting" /\ txns' = txns \cup {r}
      /\ UNCHANGED <<today, key, confirm, reply, table, known, stored, answered>>
    BY DEF Save, BInv, TypeOK
<1>3. \A q \in Requests : q # r => pc'[q] = pc[q]
    BY DEF Save, BInv, TypeOK
<1>4. \A q \in Requests : StageOK(q)'
    BY <1>2, <1>3 DEF BInv, StageOK
<1>5. \A k \in Keys : TableOK(k)'
    BY <1>2 DEF BInv, TableOK
<1>6. \A q, s : Similar(q, s)' <=> Similar(q, s)
    BY <1>2, SameSimilar
<1>7. \A q \in Requests : StoredOK(q)'
    BY <1>2, <1>3, <1>6 DEF BInv, StoredOK
<1>8. \A q \in Requests : ConfirmedOK(q)'
    BY <1>2, <1>3 DEF BInv, ConfirmedOK
<1> QED
    BY <1>1, <1>4, <1>5, <1>7, <1>8 DEF BInv

\* What idempotency_put leaves of the rows of a table.
LEMMA RowsAfterPut ==
    ASSUME TypeOK, NEW k \in Keys, NEW r \in Requests, NEW i \in Keys
    PROVE  /\ AfterPut(k, r)[i] \in {None, table[i], [response |-> r, day |-> today]}
           /\ AfterPut(k, r)[i] = [response |-> r, day |-> today]
                 => i = k \/ AfterPut(k, r)[i] = table[i] \/ AfterPut(k, r)[i] = None
           /\ MaxDay <= TtlDays =>
                 AfterPut(k, r)[i] = IF i = k /\ table[k] = None
                                     THEN [response |-> r, day |-> today] ELSE table[i]
<1> DEFINE new == [response |-> r, day |-> today]
           inserted == [table EXCEPT ![k] = IF @ = None THEN new ELSE @]
<1>1. AfterPut(k, r)[i] = IF inserted[i] # None /\ today - inserted[i].day > TtlDays
                          THEN None ELSE inserted[i]
    BY DEF AfterPut
<1>2. inserted[i] = IF i = k /\ table[k] = None THEN new ELSE table[i]
    BY DEF TypeOK
<1>3. inserted[i] = None \/ inserted[i].day \in 0 .. MaxDay
  <2>1. new.day \in 0 .. MaxDay
    BY DEF TypeOK
  <2>2. table[i] = None \/ table[i].day \in 0 .. MaxDay
    BY DEF TypeOK
  <2> HIDE DEF new, inserted
  <2> QED
    BY <1>2, <2>1, <2>2
<1>4. today \in 0 .. MaxDay
    BY DEF TypeOK
<1> HIDE DEF inserted
<1>5. MaxDay <= TtlDays => AfterPut(k, r)[i] = inserted[i]
  <2>1. CASE inserted[i] = None
    BY <1>1, <2>1
  <2>2. CASE inserted[i] # None
    <3> DEFINE d == inserted[i].day
    <3>1. d \in 0 .. MaxDay
        BY <1>3, <2>2
    <3> HIDE DEF d
    <3>2. MaxDay <= TtlDays => ~(today - d > TtlDays)
        BY <1>4, <3>1, DaysAssumption
    <3> QED
        BY <1>1, <3>2 DEF d
  <2> QED
    BY <2>1, <2>2
<1>6. AfterPut(k, r)[i] \in {None, inserted[i]}
    BY <1>1
<1> HIDE DEF new
<1>7. /\ AfterPut(k, r)[i] \in {None, table[i], new}
      /\ AfterPut(k, r)[i] = new =>
            i = k \/ AfterPut(k, r)[i] = table[i] \/ AfterPut(k, r)[i] = None
      /\ MaxDay <= TtlDays =>
            AfterPut(k, r)[i] = IF i = k /\ table[k] = None THEN new ELSE table[i]
    BY <1>2, <1>5, <1>6
<1> QED
    BY <1>7 DEF new

LEMMA PutBInv ==
    ASSUME BInv, NEW r \in Requests, Put(r)
    PROVE  BInv'
<1> DEFINE new == [response |-> r, day |-> today]
<1>1. /\ pc[r] = "putting" /\ pc'[r] = "replied" /\ reply'[r] = r /\ answered'[r] = today
      /\ UNCHANGED <<today, key, confirm, txns, known, stored>>
    BY DEF Put, BInv, TypeOK
<1>2. \A q \in Requests : q # r =>
        pc'[q] = pc[q] /\ reply'[q] = reply[q] /\ answered'[q] = answered[q]
    BY DEF Put, BInv, TypeOK
<1>3. r \in txns /\ key[r] \in Keys /\ answered[r] = None /\ today \in 0 .. MaxDay
    BY <1>1 DEF BInv, StageOK, TypeOK
<1>4. table' = AfterPut(key[r], r)
    BY DEF Put
<1>5. \A i \in Keys : /\ table'[i] \in {None, table[i], new}
                      /\ table'[i] = new => i = key[r] \/ table'[i] = table[i] \/ table'[i] = None
    BY <1>3, <1>4, RowsAfterPut DEF BInv
<1>6. TypeOK'
  <2>1. new \in [response : Requests, day : 0 .. MaxDay]
    BY <1>3
  <2>2. DOMAIN table' = Keys /\ table' = [i \in Keys |-> table'[i]]
    BY <1>4 DEF AfterPut
  <2>3. \A i \in Keys : table'[i] \in {None} \cup [response : Requests, day : 0 .. MaxDay]
    <3> HIDE DEF new
    <3> QED
        BY <1>5, <2>1 DEF BInv, TypeOK
  <2>4. table' \in [Keys -> {None} \cup [response : Requests, day : 0 .. MaxDay]]
    BY <2>2, <2>3
  <2>5. /\ pc' \in [Requests -> {"idle", "reading", "saving", "putting", "replied", "broken"}]
        /\ reply' \in [Requests -> Requests \cup {None, "warning"}]
    BY DEF Put, BInv, TypeOK
  <2>6. answered' \in [Requests -> {None} \cup 0 .. MaxDay]
    BY <1>3 DEF Put, BInv, TypeOK
  <2> QED
    BY <1>1, <2>4, <2>5, <2>6 DEF BInv, TypeOK
<1>7. \A q \in Requests : StageOK(q)'
    BY <1>1, <1>2, <1>3 DEF BInv, StageOK
<1>8. ASSUME NEW i \in Keys PROVE TableOK(i)'
  <2>1. CASE table'[i] = None
    BY <2>1 DEF TableOK
  <2>2. CASE table'[i] = table[i] /\ table[i] # None
    <3>1. table[i].response \in Requests /\ table[i].response # r
      <4>1. table[i].response \in Requests /\ table[i].day \in Nat
        BY <2>2 DEF BInv, TypeOK
      <4>2. answered[table[i].response] = table[i].day
        BY <2>2 DEF BInv, TableOK
      <4> QED
        BY <1>3, <4>1, <4>2, NoneAssumption
    <3> QED
        BY <1>1, <1>2, <2>2, <3>1 DEF BInv, TableOK
  <2>3. CASE table'[i] = new /\ i = key[r]
    <3>1. table'[i].response = r /\ table'[i].day = today
        BY <2>3
    <3> QED
        BY <1>1, <1>3, <2>3, <3>1 DEF TableOK
  <2> QED
    BY <1>5, <2>1, <2>2, <2>3
<1>9. \A q, s : Similar(q, s)' <=> Similar(q, s)
    BY <1>1, SameSimilar
<1>10. \A q \in Requests : StoredOK(q)'
    BY <1>1, <1>2, <1>3, <1>9 DEF BInv, StoredOK
<1>11. \A q \in Requests : ConfirmedOK(q)'
    BY <1>1, <1>2, <1>3 DEF BInv, ConfirmedOK
<1> QED
    BY <1>6, <1>7, <1>8, <1>10, <1>11 DEF BInv

LEMMA BreakBInv ==
    ASSUME BInv, NEW r \in Requests, Break(r)
    PROVE  BInv'
<1>1. TypeOK'
    BY DEF Break, requestVars, BInv, TypeOK
<1>2. /\ pc[r] \in {"reading", "saving", "putting"} /\ pc'[r] = "broken"
      /\ UNCHANGED <<today, key, confirm, reply, txns, table, known, stored, answered>>
    BY DEF Break, BInv, TypeOK
<1>3. \A q \in Requests : q # r => pc'[q] = pc[q]
    BY DEF Break, BInv, TypeOK
<1>4. \A q \in Requests : StageOK(q)'
    BY <1>2, <1>3 DEF BInv, StageOK
<1>5. \A k \in Keys : TableOK(k)'
    BY <1>2 DEF BInv, TableOK
<1>6. \A q, s : Similar(q, s)' <=> Similar(q, s)
    BY <1>2, SameSimilar
<1>7. \A q \in Requests : StoredOK(q)'
    BY <1>2, <1>3, <1>6 DEF BInv, StoredOK
<1>8. \A q \in Requests : ConfirmedOK(q)'
    BY <1>2, <1>3 DEF BInv, ConfirmedOK
<1> QED
    BY <1>1, <1>4, <1>5, <1>7, <1>8 DEF BInv

LEMMA NextDayBInv ==
    ASSUME BInv, NextDay
    PROVE  BInv'
<1>1. /\ today < MaxDay /\ today' = today + 1 /\ today \in 0 .. MaxDay
      /\ UNCHANGED <<pc, key, confirm, reply, txns, table, known, stored, answered>>
    BY DEF NextDay, requestVars, BInv, TypeOK
<1>2. TypeOK'
  <2>1. today' \in 0 .. MaxDay
    BY <1>1, DaysAssumption
  <2> QED
    BY <1>1, <2>1 DEF BInv, TypeOK
<1>3. ASSUME NEW q \in Requests PROVE StageOK(q)'
  <2>1. answered[q] # None => answered[q] <= today'
    <3>1. answered[q] # None => answered[q] \in 0 .. MaxDay /\ answered[q] <= today
        BY DEF BInv, TypeOK, StageOK
    <3> QED
        BY <1>1, <3>1, DaysAssumption
  <2> QED
    BY <1>1, <2>1 DEF BInv, StageOK
<1>4. \A k \in Keys : TableOK(k)'
    BY <1>1 DEF BInv, TableOK
<1>5. \A q, s : Similar(q, s)' <=> Similar(q, s)
    BY <1>1, SameSimilar
<1>6. \A q \in Requests : StoredOK(q)'
    BY <1>1, <1>5 DEF BInv, StoredOK
<1>7. \A q \in Requests : ConfirmedOK(q)'
    BY <1>1 DEF BInv, ConfirmedOK
<1> QED
    BY <1>2, <1>3, <1>4, <1>6, <1>7 DEF BInv

LEMMA NextBInv == BInv /\ [Next]_vars => BInv'
<1> SUFFICES ASSUME BInv, [Next]_vars PROVE BInv'
    OBVIOUS
<1>1. CASE UNCHANGED vars
  <2>1. UNCHANGED <<today, pc, key, confirm, reply, txns, table, known, stored, answered>>
    BY <1>1 DEF vars, requestVars
  <2>2. \A q, s : Similar(q, s)' <=> Similar(q, s)
    BY <2>1, SameSimilar
  <2> QED
    BY <2>1, <2>2 DEF BInv, TypeOK, StageOK, TableOK, StoredOK, ConfirmedOK
<1> QED
    BY <1>1, ComeBInv, CheckBInv, SaveBInv, PutBInv, BreakBInv, NextDayBInv DEF Next

(***************************************************************************)
(* Within the TTL.                                                         *)
(***************************************************************************)

LEMMA ComeKInv ==
    ASSUME MaxDay <= TtlDays, KInv,
           NEW r \in Requests, NEW k \in Keys, NEW sure \in BOOLEAN, Come(r, k, sure)
    PROVE  \A q \in Requests : AnsweredOK(q)' /\ KnownOK(q)'
<1>1. /\ pc[r] = "idle" /\ r \notin txns /\ answered[r] = None
      /\ UNCHANGED <<today, txns, table, answered>>
    BY DEF Come, KInv, BInv, StageOK
<1>2. \A q \in Requests : q # r =>
        /\ pc'[q] = pc[q] /\ key'[q] = key[q] /\ known'[q] = known[q] /\ reply'[q] = reply[q]
    BY DEF Come, KInv, BInv, TypeOK
<1>3. key'[r] = k
    BY DEF Come, KInv, BInv, TypeOK
<1>4. known'[r] = {s \in Requests :
           key[s] = k /\ answered[s] # None /\ today - answered[s] <= TtlDays}
    BY DEF Come, KInv, BInv, TypeOK
<1>5. table[k] # None => /\ Cached(k)
                         /\ table[k].response \in known'[r]
  <2> SUFFICES ASSUME table[k] # None PROVE Cached(k) /\ table[k].response \in known'[r]
    OBVIOUS
  <2> DEFINE s == table[k].response
             d == table[k].day
  <2>1. s \in Requests /\ d \in 0 .. MaxDay
    BY DEF KInv, BInv, TypeOK
  <2>2. key[s] = k /\ answered[s] = d
    BY DEF KInv, BInv, TableOK
  <2>3. today \in 0 .. MaxDay
    BY DEF KInv, BInv, TypeOK
  <2> HIDE DEF s, d
  <2>4. today - d <= TtlDays /\ d # None
    BY <2>1, <2>3, DaysAssumption, NoneAssumption
  <2>5. s \in known'[r]
    BY <1>4, <2>1, <2>2, <2>4
  <2> QED
    BY <2>4, <2>5 DEF Cached, s, d
<1>6. ASSUME NEW q \in Requests PROVE AnsweredOK(q)'
    BY <1>1, <1>2 DEF KInv, AnsweredOK
<1>7. KnownOK(r)'
  <2>1. CASE table[k] # None
    <3>1. reply'[r] = table[k].response /\ pc'[r] = "replied"
        BY <1>5, <2>1 DEF Come, KInv, BInv, TypeOK
    <3> QED
        BY <1>1, <1>3, <1>5, <2>1, <3>1 DEF KnownOK
  <2>2. CASE table[k] = None
    <3>1. known'[r] = {}
        BY <1>4, <2>2 DEF KInv, AnsweredOK
    <3> QED
        BY <3>1 DEF KnownOK
  <2> QED
    BY <2>1, <2>2
<1>8. ASSUME NEW q \in Requests, q # r PROVE KnownOK(q)'
    BY <1>1, <1>2, <1>8 DEF KInv, KnownOK
<1> QED
    BY <1>6, <1>7, <1>8

\* A step of a request that waits, and so knew of no response.
LEMMA WaitingKInv ==
    ASSUME KInv, NEW r \in Requests, pc[r] \in {"reading", "saving", "putting"},
           UNCHANGED <<key, table, known, answered>>,
           \A q \in Requests : q # r =>
              pc'[q] = pc[q] /\ reply'[q] = reply[q] /\ (q \in txns' <=> q \in txns)
    PROVE  \A q \in Requests : AnsweredOK(q)' /\ KnownOK(q)'
<1>1. known[r] = {}
    BY DEF KInv, KnownOK
<1>2. \A q \in Requests : AnsweredOK(q)'
    BY DEF KInv, AnsweredOK
<1>3. KnownOK(r)'
    BY <1>1 DEF KnownOK
<1>4. \A q \in Requests : q # r => KnownOK(q)'
    BY DEF KInv, KnownOK
<1> QED
    BY <1>2, <1>3, <1>4

LEMMA PutKInv ==
    ASSUME MaxDay <= TtlDays, KInv, NEW r \in Requests, Put(r)
    PROVE  \A q \in Requests : AnsweredOK(q)' /\ KnownOK(q)'
<1> DEFINE new == [response |-> r, day |-> today]
<1>1. /\ pc[r] = "putting" /\ known[r] = {} /\ key[r] \in Keys
      /\ UNCHANGED <<key, txns, known>>
    BY DEF Put, KInv, KnownOK, BInv, StageOK
<1>2. \A q \in Requests : q # r =>
        pc'[q] = pc[q] /\ reply'[q] = reply[q] /\ answered'[q] = answered[q]
    BY DEF Put, KInv, BInv, TypeOK
<1>3. \A i \in Keys : table'[i] = IF i = key[r] /\ table[key[r]] = None THEN new ELSE table[i]
    BY <1>1, RowsAfterPut DEF Put, KInv, BInv
<1>4. new # None
    BY NoneAssumption DEF KInv, BInv, TypeOK
<1> HIDE DEF new
<1>5. \A i \in Keys : table[i] # None => table'[i] = table[i]
    BY <1>3
<1>6. table'[key[r]] # None
    BY <1>1, <1>3, <1>4
<1>7. \A q \in Requests : (answered[q] # None => key[q] \in Keys) /\ (known[q] # {} => key[q] \in Keys)
    BY DEF KInv, BInv, StageOK
<1>8. ASSUME NEW q \in Requests PROVE AnsweredOK(q)'
  <2>1. CASE q = r
    BY <1>1, <1>6, <2>1 DEF AnsweredOK
  <2>2. CASE q # r
    BY <1>1, <1>2, <1>5, <1>7, <2>2 DEF KInv, AnsweredOK
  <2> QED
    BY <2>1, <2>2
<1>9. ASSUME NEW q \in Requests PROVE KnownOK(q)'
  <2>1. CASE q = r
    BY <1>1, <2>1 DEF KnownOK
  <2>2. CASE q # r
    BY <1>1, <1>2, <1>5, <1>7, <2>2 DEF KInv, KnownOK
  <2> QED
    BY <2>1, <2>2
<1> QED
    BY <1>8, <1>9

LEMMA NextKInv ==
    ASSUME MaxDay <= TtlDays
    PROVE  KInv /\ [Next]_vars => KInv'
<1> SUFFICES ASSUME KInv, [Next]_vars PROVE KInv'
    OBVIOUS
<1>1. BInv'
    BY NextBInv DEF KInv
<1>2. \A q \in Requests : AnsweredOK(q)' /\ KnownOK(q)'
  <2>1. CASE UNCHANGED vars \/ NextDay
    <3>1. UNCHANGED <<pc, key, reply, txns, table, known, answered>>
        BY <2>1 DEF vars, requestVars, NextDay
    <3> QED
        BY <3>1 DEF KInv, AnsweredOK, KnownOK
  <2>2. ASSUME NEW r \in Requests, Check(r) PROVE \A q \in Requests : AnsweredOK(q)' /\ KnownOK(q)'
    <3>1. /\ pc[r] = "reading" /\ UNCHANGED <<key, table, known, answered>>
          /\ \A q \in Requests : q # r =>
                pc'[q] = pc[q] /\ reply'[q] = reply[q] /\ (q \in txns' <=> q \in txns)
        BY <2>2 DEF Check, KInv, BInv, TypeOK
    <3> QED
        BY <3>1, WaitingKInv
  <2>3. ASSUME NEW r \in Requests, Save(r) PROVE \A q \in Requests : AnsweredOK(q)' /\ KnownOK(q)'
    <3>1. /\ pc[r] = "saving" /\ UNCHANGED <<key, table, known, answered>>
          /\ \A q \in Requests : q # r =>
                pc'[q] = pc[q] /\ reply'[q] = reply[q] /\ (q \in txns' <=> q \in txns)
        BY <2>3 DEF Save, KInv, BInv, TypeOK
    <3> QED
        BY <3>1, WaitingKInv
  <2>4. ASSUME NEW r \in Requests, Break(r) PROVE \A q \in Requests : AnsweredOK(q)' /\ KnownOK(q)'
    <3>1. /\ pc[r] \in {"reading", "saving", "putting"}
          /\ UNCHANGED <<key, table, known, answered>>
          /\ \A q \in Requests : q # r =>
                pc'[q] = pc[q] /\ reply'[q] = reply[q] /\ (q \in txns' <=> q \in txns)
        BY <2>4 DEF Break, KInv, BInv, TypeOK
    <3> QED
        BY <3>1, WaitingKInv
  <2> QED
    BY <2>1, <2>2, <2>3, <2>4, ComeKInv, PutKInv DEF Next
<1> QED
    BY <1>1, <1>2 DEF KInv

(***************************************************************************)
(* The theorems.                                                           *)
(***************************************************************************)

\* The tables and the requests keep their types, and the parts of BInv hold, over
\* any number of days.
THEOREM Invariance == Spec => []BInv
<1> QED
    BY InitBInv, NextBInv, PTL DEF Spec

\* The variables of the requests and the tables keep their types.
THEOREM TypeCorrect == Spec => []TypeOK
<1>1. BInv => TypeOK
    BY DEF BInv
<1> QED
    BY <1>1, Invariance, PTL

\* A confirmed request that was answered has its transaction stored: a warning is
\* never cached and replayed to it, over any number of days.
THEOREM ConfirmationSaves == Spec => []ConfirmedIsSaved
<1>1. BInv => ConfirmedIsSaved
    BY DEF BInv, ConfirmedOK, ConfirmedIsSaved
<1> QED
    BY <1>1, Invariance, PTL

\* A transaction that is similar to one there was when its request came was
\* confirmed, whatever ran beside it, over any number of days.
THEOREM DoublesAreConfirmed == Spec => []DoubledOnlyWhenConfirmed
<1>1. BInv => DoubledOnlyWhenConfirmed
    BY DEF BInv, TypeOK, StoredOK, DoubledOnlyWhenConfirmed
<1> QED
    BY <1>1, Invariance, PTL

\* While no key expires, a response is the row of its key from then on.
THEOREM KeptInvariance == MaxDay <= TtlDays => (Spec => []KInv)
<1> SUFFICES ASSUME MaxDay <= TtlDays PROVE Spec => []KInv
    OBVIOUS
<1>1. Init => KInv
    BY InitBInv DEF KInv, Init, AnsweredOK, KnownOK
<1>2. KInv /\ [Next]_vars => KInv'
    BY NextKInv
<1> QED
    BY <1>1, <1>2, PTL DEF Spec

\* While no key expires, a request whose key was answered before it came saves
\* nothing and gets one of those answers.
THEOREM ReplaysHold == MaxDay <= TtlDays => (Spec => []Replayed)
<1> SUFFICES ASSUME MaxDay <= TtlDays PROVE Spec => []Replayed
    OBVIOUS
<1>1. KInv => Replayed
    BY DEF KInv, KnownOK, Replayed
<1> QED
    BY <1>1, KeptInvariance, PTL

\* While no key expires, all such requests of a key get the same answer.
THEOREM ReplaysAgreeHolds == MaxDay <= TtlDays => (Spec => []ReplaysAgree)
<1> SUFFICES ASSUME MaxDay <= TtlDays PROVE Spec => []ReplaysAgree
    OBVIOUS
<1>1. KInv => ReplaysAgree
    BY DEF KInv, KnownOK, ReplaysAgree
<1> QED
    BY <1>1, KeptInvariance, PTL
=============================================================================
