---------------------------- MODULE Idempotency -----------------------------
(***************************************************************************)
(* POST /transaction with an Idempotency-Key: the route of app.py,         *)
(* services.create_transaction with its duplicate warning, and the cache   *)
(* of responses (idempotency.py over the idempotency table).               *)
(*                                                                         *)
(* The requests of one user run in several API tasks: the key is looked up *)
(* before the body is awaited, and each later store call is a transaction  *)
(* of its own.  A request is the id of the transaction it saves.  A client *)
(* uses a key for one body only.                                           *)
(***************************************************************************)
EXTENDS Dedup

CONSTANTS Requests,
          Keys,
          BodyOf,      \* the transaction each key is used for
          None,        \* no reply, no row of the table
          WarnDays,    \* dedup_manual_warn_days
          TtlDays,     \* idempotency_ttl_days
          MaxDay       \* bound: the last day looked at

ASSUME DaysAssumption == WarnDays \in Nat /\ TtlDays \in Nat \ {0} /\ MaxDay \in Nat
ASSUME RequestAssumption == None \notin Requests /\ "warning" \notin Requests
ASSUME NoneAssumption == None \notin Nat /\ None \notin [response : Requests, day : 0 .. MaxDay]

VARIABLES
    today,
    pc,        \* where each request stands
    key,       \* its Idempotency-Key
    confirm,   \* its ?confirm=
    reply,     \* what the client was answered: the transaction saved, or "warning"
    txns,      \* the transactions, by the request that saved them
    table,     \* idempotency: for each key its row, a response and the day it was put
    known,     \* history: for each request, those of its key answered and within
               \* the TTL when it came
    stored,    \* history: the transactions there were when it came
    answered   \* history: for each request, the day its own saving was answered

requestVars == <<pc, key, confirm, reply>>
vars == <<today, requestVars, txns, table, known, stored, answered>>

Cached(k) == table[k] # None /\ today - table[k].day <= TtlDays

Init ==
    /\ today = 0
    /\ pc = [r \in Requests |-> "idle"]
    /\ key = [r \in Requests |-> None]
    /\ confirm = [r \in Requests |-> FALSE]
    /\ reply = [r \in Requests |-> None]
    /\ txns = {}
    /\ table = [k \in Keys |-> None]
    /\ known = [r \in Requests |-> {}]
    /\ stored = [r \in Requests |-> {}]
    /\ answered = [r \in Requests |-> None]

\* Mutant: the key is not looked up.
ComeNoLookup(r, k, sure) ==
    /\ pc[r] = "idle"
    /\ key' = [key EXCEPT ![r] = k]
    /\ confirm' = [confirm EXCEPT ![r] = sure]
    /\ known' = [known EXCEPT ![r] = {s \in Requests :
           key[s] = k /\ answered[s] # None /\ today - answered[s] <= TtlDays}]
    /\ stored' = [stored EXCEPT ![r] = txns]
    /\ pc' = [pc EXCEPT ![r] = "reading"]
    /\ UNCHANGED <<today, reply, txns, table, answered>>

\* idempotency.get; a miss goes on to await the body.
Come(r, k, sure) ==
    /\ pc[r] = "idle"
    /\ key' = [key EXCEPT ![r] = k]
    /\ confirm' = [confirm EXCEPT ![r] = sure]
    /\ known' = [known EXCEPT ![r] = {s \in Requests :
           key[s] = k /\ answered[s] # None /\ today - answered[s] <= TtlDays}]
    /\ stored' = [stored EXCEPT ![r] = txns]
    /\ IF Cached(k)
       THEN /\ reply' = [reply EXCEPT ![r] = table[k].response]
            /\ pc' = [pc EXCEPT ![r] = "replied"]
       ELSE /\ pc' = [pc EXCEPT ![r] = "reading"]
            /\ UNCHANGED reply
    /\ UNCHANGED <<today, txns, table, answered>>

\* check_manual_warning, unless confirmed: a transaction of the same fingerprint
\* within the window answers with a warning, which is not cached.
Similar(r, s) ==
    LET a == BodyOf[key[r]]
        b == BodyOf[key[s]]
    IN  /\ TransactionFingerprint(a) = TransactionFingerprint(b)
        /\ WithinDays(b.date, a.date, WarnDays)

\* Mutant: the warning is cached like any response.
CheckCaches(r) ==
    /\ pc[r] = "reading"
    /\ \/ /\ ~confirm[r] /\ \E s \in txns : Similar(r, s)
          /\ reply' = [reply EXCEPT ![r] = "warning"]
          /\ table' = [table EXCEPT ![key[r]] =
                 IF @ = None THEN [response |-> "warning", day |-> today] ELSE @]
          /\ pc' = [pc EXCEPT ![r] = "replied"]
       \/ /\ confirm[r] \/ \A s \in txns : ~Similar(r, s)
          /\ pc' = [pc EXCEPT ![r] = "saving"]
          /\ UNCHANGED <<reply, table>>
    /\ UNCHANGED <<today, key, confirm, txns, known, stored, answered>>

\* Mutant: the window of the imports, not the one of the warning.
CheckTol(r) ==
    /\ pc[r] = "reading"
    /\ \/ /\ ~confirm[r] /\ \E s \in txns : Same(BodyOf[key[r]], BodyOf[key[s]])
          /\ reply' = [reply EXCEPT ![r] = "warning"]
          /\ pc' = [pc EXCEPT ![r] = "replied"]
       \/ /\ confirm[r] \/ \A s \in txns : ~Same(BodyOf[key[r]], BodyOf[key[s]])
          /\ pc' = [pc EXCEPT ![r] = "saving"]
          /\ UNCHANGED reply
    /\ UNCHANGED <<today, key, confirm, txns, table, known, stored, answered>>

Check(r) ==
    /\ pc[r] = "reading"
    /\ \/ /\ ~confirm[r] /\ \E s \in txns : Similar(r, s)
          /\ reply' = [reply EXCEPT ![r] = "warning"]
          /\ pc' = [pc EXCEPT ![r] = "replied"]
       \/ /\ confirm[r] \/ \A s \in txns : ~Similar(r, s)
          /\ pc' = [pc EXCEPT ![r] = "saving"]
          /\ UNCHANGED reply
    /\ UNCHANGED <<today, key, confirm, txns, table, known, stored, answered>>

\* add_transaction.
Save(r) ==
    /\ pc[r] = "saving"
    /\ txns' = txns \cup {r}
    /\ pc' = [pc EXCEPT ![r] = "putting"]
    /\ UNCHANGED <<today, key, confirm, reply, table, known, stored, answered>>

\* The table after idempotency_put: an insert that leaves a row that is there,
\* then the deletion of every expired row, the one just left included.
AfterPut(k, response) ==
    LET inserted == [table EXCEPT ![k] =
                        IF @ = None THEN [response |-> response, day |-> today] ELSE @]
    IN  [i \in Keys |-> IF inserted[i] # None /\ today - inserted[i].day > TtlDays
                        THEN None ELSE inserted[i]]

\* Mutant: the last response replaces the first.
PutLast(r) ==
    /\ pc[r] = "putting"
    /\ table' = [AfterPut(key[r], r) EXCEPT ![key[r]] = [response |-> r, day |-> today]]
    /\ reply' = [reply EXCEPT ![r] = r]
    /\ answered' = [answered EXCEPT ![r] = today]
    /\ pc' = [pc EXCEPT ![r] = "replied"]
    /\ UNCHANGED <<today, key, confirm, txns, known, stored>>

\* idempotency.put, and the response.
Put(r) ==
    /\ pc[r] = "putting"
    /\ table' = AfterPut(key[r], r)
    /\ reply' = [reply EXCEPT ![r] = r]
    /\ answered' = [answered EXCEPT ![r] = today]
    /\ pc' = [pc EXCEPT ![r] = "replied"]
    /\ UNCHANGED <<today, key, confirm, txns, known, stored>>

\* An error response (an invalid body, a failing store), or the task dies.
Break(r) ==
    /\ pc[r] \in {"reading", "saving", "putting"}
    /\ pc' = [pc EXCEPT ![r] = "broken"]
    /\ UNCHANGED <<today, key, confirm, reply, txns, table, known, stored, answered>>

NextDay ==
    /\ today < MaxDay
    /\ today' = today + 1
    /\ UNCHANGED <<requestVars, txns, table, known, stored, answered>>

Next ==
    \/ \E r \in Requests, k \in Keys, sure \in BOOLEAN : Come(r, k, sure)
    \/ \E r \in Requests : Check(r) \/ Save(r) \/ Put(r) \/ Break(r)
    \/ NextDay

Spec == Init /\ [][Next]_vars
-----------------------------------------------------------------------------
\* The types of the requests and the tables.
TypeOK ==
    /\ today \in 0 .. MaxDay
    /\ pc \in [Requests -> {"idle", "reading", "saving", "putting", "replied", "broken"}]
    /\ key \in [Requests -> Keys \cup {None}]
    /\ confirm \in [Requests -> BOOLEAN]
    /\ reply \in [Requests -> Requests \cup {None, "warning"}]
    /\ txns \subseteq Requests
    /\ table \in [Keys -> {None} \cup [response : Requests, day : 0 .. MaxDay]]
    /\ known \in [Requests -> SUBSET Requests]
    /\ stored \in [Requests -> SUBSET Requests]
    /\ answered \in [Requests -> {None} \cup 0 .. MaxDay]

\* A replay "returns the first successful response verbatim": a request whose key
\* was answered before it came, within the TTL, gets one of those answers, and
\* saves nothing.
Replayed ==
    \A r \in Requests : known[r] # {} =>
        /\ r \notin txns
        /\ pc[r] = "replied" => reply[r] \in known[r]

\* All later replays agree: the first response stays the response of the key.
ReplaysAgree ==
    \A r, s \in Requests :
        /\ pc[r] = "replied" /\ pc[s] = "replied" /\ key[r] = key[s]
        /\ known[r] # {} /\ known[s] # {}
        => reply[r] = reply[s]

\* The client that confirms is never warned: "Save anyway" with the key of the
\* request that was warned does save, or replays a saving.
ConfirmedIsSaved ==
    \A r \in Requests : pc[r] = "replied" /\ confirm[r] => reply[r] \in txns

\* A transaction that doubles one there was when its request came was confirmed.
DoubledOnlyWhenConfirmed ==
    \A r \in txns : \A s \in stored[r] : Similar(r, s) => confirm[r]

=============================================================================
