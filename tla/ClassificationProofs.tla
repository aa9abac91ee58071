------------------------ MODULE ClassificationProofs ------------------------
(***************************************************************************)
(* Proofs about Classification for any uploads, statements and limits.     *)
(*                                                                         *)
(* An upload touches what the others read in two ways only, by recording   *)
(* an answer in the catalog and a cost in the log.  The first is harmless  *)
(* to an upload that runs alone; the second is bounded because an upload   *)
(* that is let through sets aside, in Spending, what it may come to cost.  *)
(***************************************************************************)
EXTENDS Classification, FiniteSetTheorems, TLAPS

CatalogEntries == [category : Categories, sum : Nat, count : Nat \ {0}]

LEMMA FileFacts ==
    ASSUME FileAssumption, NEW u \in Uploads
    PROVE  /\ Len(file[u]) \in Nat
           /\ DOMAIN file[u] = 1 .. Len(file[u])
           /\ \A i \in DOMAIN file[u] : /\ file[u][i] \in Row
                                        /\ file[u][i].merchant \in Merchants
  <1>1. file[u] \in Seq(Row)
    BY FileAssumption DEF FileAssumption
  <1>2. \A r \in Row : r.merchant \in Merchants
    BY DEF Row
  <1>3. Len(file[u]) \in Nat /\ DOMAIN file[u] = 1 .. Len(file[u])
    BY <1>1
  <1>4. \A i \in DOMAIN file[u] : file[u][i] \in Row
    BY <1>1
  <1> QED
    BY <1>2, <1>3, <1>4

\* Every way of answering gives an entry, and none of them is the catalog's.
LEMMA AnswerTypes ==
    ASSUME CategoriesAssumption, RepliesAssumption, NEW r \in Row
    PROVE  /\ ByRule(r) \in Entries
           /\ r.keyword # NoMatch => ByKeyword(r) \in Entries
           /\ ByFallback(r) \in Entries
           /\ \A reply \in Replies : validate_classification(reply, "llm") \in Entries
  <1>1. \A c \in Confidences : Score(c) \in Nat
    BY DEF Confidences, Score
  <1>2. categorize(r) \in [category : Categories, confidence : {"medium", "low"}]
    BY CategoriesAssumption DEF categorize, Row, CategoriesAssumption
  <1>3. \A reply \in [category : Categories \cup {Unknown}, confidence : {"high", "medium", "low"}],
           source \in {"llm", "rule"} :
           IF reply.category = Unknown
           THEN Entry("Other", reply.confidence, TRUE, source) \in Entries
           ELSE Entry(reply.category, reply.confidence, Score(reply.confidence) < 60, source) \in Entries
    BY <1>1, CategoriesAssumption DEF Entries, Entry, Confidences, CategoriesAssumption
  <1>4. \A source \in {"llm", "rule"} : Entry("Other", "low", TRUE, source) \in Entries
    BY CategoriesAssumption DEF Entries, Entry, Confidences, CategoriesAssumption
  <1>5. ByRule(r) \in Entries
    BY <1>2, <1>3, <1>4 DEF ByRule, validate_classification
  <1>6. r.keyword # NoMatch => ByKeyword(r) \in Entries
    BY DEF ByKeyword, Entry, Entries, Confidences, Row
  <1>7. ByFallback(r) \in Entries
    BY <1>2 DEF ByFallback, Entry, Entries, Confidences
  <1>8. \A reply \in Replies : validate_classification(reply, "llm") \in Entries
    BY <1>3, <1>4, RepliesAssumption DEF validate_classification, RepliesAssumption
  <1> QED
    BY <1>5, <1>6, <1>7, <1>8

\* What recording does to an entry of the catalog.
LEMMA RecordedFacts ==
    ASSUME LimitsAssumption, NEW e \in {None} \cup CatalogEntries, NEW answer \in Entries
    PROVE  /\ Recorded(e, answer) \in {None} \cup CatalogEntries
           /\ Recorded(e, answer) # e => Score(answer.confidence) >= MinConfidence
           /\ Score(answer.confidence) >= MinConfidence =>
                 /\ Recorded(e, answer) \in CatalogEntries
                 /\ Recorded(e, answer).category = answer.category
                 /\ \/ Recorded(e, answer).count = 1
                    \/ /\ e # None
                       /\ e.category = answer.category
                       /\ Recorded(e, answer).count = e.count + 1
           /\ Score(answer.confidence) < MinConfidence => Recorded(e, answer) = e
  <1>1. Score(answer.confidence) \in Nat
    BY DEF Score, Entries, Confidences
  <1>2. CASE Score(answer.confidence) < MinConfidence
    BY <1>1, <1>2 DEF Recorded, LimitsAssumption
  <1>3. CASE Score(answer.confidence) >= MinConfidence /\ e # None /\ e.category = answer.category
    <2>1. e \in CatalogEntries /\ e.sum + Score(answer.confidence) \in Nat /\ e.count + 1 \in Nat \ {0}
      BY <1>1, <1>3 DEF CatalogEntries
    <2>2. Recorded(e, answer) = [category |-> answer.category,
              sum |-> e.sum + Score(answer.confidence), count |-> e.count + 1]
      BY <1>1, <1>3 DEF Recorded, LimitsAssumption
    <2> QED
      BY <1>1, <1>3, <2>1, <2>2 DEF CatalogEntries, Entries, LimitsAssumption
  <1>4. CASE Score(answer.confidence) >= MinConfidence /\ ~(e # None /\ e.category = answer.category)
    <2>1. Recorded(e, answer) = [category |-> answer.category,
              sum |-> Score(answer.confidence), count |-> 1]
      BY <1>1, <1>4 DEF Recorded, LimitsAssumption
    <2> QED
      BY <1>1, <1>4, <2>1 DEF CatalogEntries, Entries, LimitsAssumption
  <1> QED
    BY <1>1, <1>2, <1>3, <1>4 DEF LimitsAssumption

\* The numbers of two rows asked about differ, so an answer read by number is the
\* answer given of the row.
LEMMA AnswersAligned ==
    ASSUME NEW asked \in SUBSET Nat, IsFiniteSet(asked),
           NEW answers \in [asked -> Replies], NEW k \in asked
    PROVE  Answer(asked, answers, LocalIdx(asked, k)) = answers[k]
  <1> DEFINE upTo(j) == {i \in asked : i <= j}
  <1>1. ASSUME NEW i \in asked, NEW j \in asked, i < j
        PROVE  Cardinality(upTo(i)) # Cardinality(upTo(j))
    <2>1. i \in Nat /\ j \in Nat
      OBVIOUS
    <2>2. \A x \in asked : x \in Nat
      OBVIOUS
    <2>3. upTo(i) \subseteq upTo(j) /\ upTo(j) \subseteq asked
      <3>1. \A x \in asked : x <= i => x <= j
        BY <1>1, <2>1, <2>2
      <3> QED
        BY <3>1, Zenon
    <2>4. j \in upTo(j) /\ j \notin upTo(i)
      BY <1>1, <2>1
    <2>5. IsFiniteSet(upTo(j))
      BY <2>3, FS_Subset
    <2> HIDE DEF upTo
    <2> QED
      BY <2>3, <2>4, <2>5, FS_Subset
  <1>2. \A i, j \in asked : PromptNumber(asked, i) = PromptNumber(asked, j) => i = j
    <2> SUFFICES ASSUME NEW i \in asked, NEW j \in asked, i # j
                 PROVE  Cardinality(upTo(i)) # Cardinality(upTo(j))
      BY DEF PromptNumber
    <2>1. i < j \/ j < i
      OBVIOUS
    <2> QED
      BY <1>1, <2>1
  <1>3. LocalIdx(asked, k) = PromptNumber(asked, k)
    BY DEF LocalIdx, PromptNumber
  <1> QED
    BY <1>2, <1>3 DEF Answer

------------------------------------------------------------------------------
\* An upload that makes no step is as it was.
LEMMA Frame ==
    ASSUME NEW v \in Uploads, UploadOK(v),
           pc'[v] = pc[v], forced'[v] = forced[v], results'[v] = results[v],
           row'[v] = row[v], order'[v] = order[v], out'[v] = out[v],
           usage'[v] = usage[v], told'[v] = told[v], said'[v] = said[v],
           v \in overlapped => v \in overlapped',
           catalog' = catalog \/ ~Running(v) \/ v \in overlapped'
    PROVE  UploadOK(v)'
  <1> USE DEF Running, Answered, RowAt
  <1>1. StageOK(v)'
    BY DEF UploadOK, StageOK
  <1>2. OrderOK(v)'
    BY DEF UploadOK, OrderOK
  <1>3. NotSaidYet(v)'
    BY DEF UploadOK, NotSaidYet
  <1>4. UsageOK(v)'
    BY DEF UploadOK, UsageOK
  <1>5. Running(v) => OutOK(v)'
    BY DEF UploadOK, OutOK
  <1>6. Running(v) => ResultsOK(v)'
    BY DEF UploadOK, ResultsOK
  <1>7. ASSUME Running(v), v \notin overlapped'
        PROVE  CatalogUnchanged(v)'
    <2>1. catalog' = catalog /\ Answered(v)' = Answered(v)
      BY <1>7
    <2>2. CatalogUnchanged(v)
      BY <1>7 DEF UploadOK
    <2> HIDE DEF Answered, Running
    <2>3. pc'[v] \in {"lookup", "classify"} =>
             \A i \in DOMAIN file[v] : i < row'[v] =>
                 LET e == catalog'[file[v][i].merchant]
                 IN  results'[v][i] = IF IsConfident(e)
                                      THEN Entry(e.category, "high", FALSE, "cache") ELSE None
      BY <2>1, <2>2 DEF CatalogUnchanged
    <2>4. pc'[v] \in {"record", "save"} =>
             \A i, j \in DOMAIN file[v] :
                 file[v][i].merchant = file[v][j].merchant => results'[v][i] = results'[v][j]
      BY <2>1, <2>2 DEF CatalogUnchanged
    <2>5. \A k \in DOMAIN order'[v] :
             Answered(v)' < k => ~IsConfident(catalog'[RowAt(v, k)'.merchant])
      BY <2>1, <2>2 DEF CatalogUnchanged
    <2> QED
      BY <2>3, <2>4, <2>5 DEF CatalogUnchanged, IsConfident
  <1> HIDE DEF Answered, RowAt
  <1>8. Running(v)' = Running(v)
    OBVIOUS
  <1> QED
    BY <1>1, <1>2, <1>3, <1>4, <1>5, <1>6, <1>7, <1>8 DEF UploadOK

\* What holds of an upload that is not running holds of it when it has returned.
LEMMA Returned ==
    ASSUME TypeOK, NEW u \in Uploads, Return(u), UNCHANGED said
    PROVE  UploadOK(u)'
  <1>1. /\ pc'[u] = "done"
        /\ forced'[u] = FALSE
        /\ row'[u] = 1
        /\ order'[u] = <<>>
        /\ out'[u] = <<>>
        /\ usage'[u] = 0
    <2>1. /\ pc' = [pc EXCEPT ![u] = "done"]
          /\ usage' = [usage EXCEPT ![u] = 0]
          /\ forced' = [forced EXCEPT ![u] = FALSE]
          /\ row' = [row EXCEPT ![u] = 1]
      BY DEF Return, Goto
    <2>2. pc \in [Uploads -> {"idle", "lookup", "classify", "record", "save", "done"}]
          /\ forced \in [Uploads -> BOOLEAN] /\ row \in [Uploads -> Nat \ {0}]
          /\ usage \in [Uploads -> 0 .. MaxCalls]
          /\ order \in [Uploads -> Seq(Nat \ {0})]
          /\ out \in [Uploads -> Seq(Entries)]
      BY DEF TypeOK
    <2> QED
      BY <2>1, <2>2 DEF Return
  <1>2. ~Running(u)'
    BY <1>1 DEF Running
  <1>3. StageOK(u)'
    BY <1>1, <1>2 DEF StageOK
  <1>4. OrderOK(u)'
    BY <1>1 DEF OrderOK
  <1>5. NotSaidYet(u)'
    BY <1>1 DEF NotSaidYet
  <1>6. UsageOK(u)'
    BY <1>1 DEF UsageOK
  <1> QED
    BY <1>2, <1>3, <1>4, <1>5, <1>6 DEF UploadOK

\* A row for each row of the statement.
LEMMA RowsOf ==
    ASSUME FileAssumption, NEW u \in Uploads, NEW T, NEW f, f \in [DOMAIN file[u] -> T]
    PROVE  f \in Seq(T) /\ Len(f) = Len(file[u]) /\ DOMAIN f = 1 .. Len(file[u])
  <1>1. Len(file[u]) \in Nat /\ DOMAIN file[u] = 1 .. Len(file[u])
    BY FileFacts
  <1> QED
    BY <1>1

\* What a sequence is with one element more, and with one of its elements replaced.
LEMMA OneMore ==
    ASSUME NEW S, NEW s \in Seq(S), NEW x \in S
    PROVE  /\ Append(s, x) \in Seq(S)
           /\ Len(s) \in Nat
           /\ Len(Append(s, x)) = Len(s) + 1
           /\ DOMAIN s = 1 .. Len(s)
           /\ DOMAIN Append(s, x) = 1 .. Len(s) + 1
           /\ \A k \in 1 .. Len(s) : Append(s, x)[k] = s[k]
           /\ Append(s, x)[Len(s) + 1] = x
  OBVIOUS

LEMMA OneReplaced ==
    ASSUME NEW S, NEW s \in Seq(S), NEW x \in S, NEW i \in DOMAIN s
    PROVE  /\ [s EXCEPT ![i] = x] \in Seq(S)
           /\ Len([s EXCEPT ![i] = x]) = Len(s)
           /\ [s EXCEPT ![i] = x][i] = x
           /\ \A k \in DOMAIN s : k # i => [s EXCEPT ![i] = x][k] = s[k]
  OBVIOUS

LEMMA GuardStep ==
    ASSUME FileAssumption, TypeOK, NEW u \in Uploads, UploadOK(u), Guard(u)
    PROVE  TypeOK' /\ UploadOK(u)'
  <1> DEFINE blank == [i \in DOMAIN file[u] |-> None]
  <1>1. /\ blank \in Seq(Entries \cup {None})
        /\ Len(blank) = Len(file[u])
        /\ \A i \in DOMAIN file[u] : blank[i] = None
        /\ Len(file[u]) \in Nat
        /\ DOMAIN file[u] = 1 .. Len(file[u])
        /\ file[u] = <<>> <=> Len(file[u]) = 0
    <2>1. file[u] \in Seq(Row)
      BY FileAssumption DEF FileAssumption
    <2>2. blank \in [DOMAIN file[u] -> Entries \cup {None}]
      OBVIOUS
    <2> HIDE DEF blank
    <2>3. blank \in Seq(Entries \cup {None}) /\ Len(blank) = Len(file[u])
      BY <2>2, RowsOf
    <2>4. \A i \in DOMAIN file[u] : blank[i] = None
      BY DEF blank
    <2> QED
      BY <2>1, <2>3, <2>4
  <1> HIDE DEF blank
  <1>2. /\ pc' = [pc EXCEPT ![u] = IF file[u] = <<>> THEN "save" ELSE "lookup"]
        /\ results' = [results EXCEPT ![u] = blank]
        /\ told' = [told EXCEPT ![u] = blank]
        /\ UNCHANGED <<row, order, out, usage, said, catalog, today, spent, byUploads, other>>
        /\ forced' = [forced EXCEPT ![u] = OverRequest(u) \/ OverDay(spent)]
        /\ pc[u] = "idle"
        /\ overlapped' \subseteq Uploads
    BY DEF Guard, Goto, costs, blank, TypeOK
  <1>3. OverRequest(u) \/ OverDay(spent) \in BOOLEAN
    BY DEF OverRequest, OverDay
  <1>4. /\ pc'[u] = IF file[u] = <<>> THEN "save" ELSE "lookup"
        /\ results'[u] = blank
        /\ told'[u] = blank
        /\ order'[u] = <<>> /\ out'[u] = <<>> /\ usage'[u] = 0 /\ row'[u] = 1
        /\ \A m \in Merchants : said'[u][m] = None
    BY <1>2 DEF TypeOK, UploadOK, StageOK, NotSaidYet, Running
  <1>5. TypeOK'
    <2>1. \A v \in Uploads : Running(v)' => /\ Len(results'[v]) = Len(file[v])
                                             /\ Len(told'[v]) = Len(file[v])
      BY <1>1, <1>2, <1>4 DEF TypeOK, Running
    <2>2. forced' \in [Uploads -> BOOLEAN]
      BY <1>2, <1>3, Zenon DEF TypeOK
    <2> QED
      BY <1>1, <1>2, <2>1, <2>2 DEF TypeOK
  <1>6. StageOK(u)'
    BY <1>1, <1>4 DEF StageOK, Running
  <1>7. OrderOK(u)'
    BY <1>4 DEF OrderOK
  <1>8. NotSaidYet(u)'
    BY <1>4 DEF NotSaidYet
  <1>9. UsageOK(u)'
    BY <1>4 DEF UsageOK
  <1>10. OutOK(u)'
    BY <1>4 DEF OutOK, Answered
  <1>11. ResultsOK(u)'
    BY <1>1, <1>4 DEF ResultsOK
  <1>12. CatalogUnchanged(u)'
    <2>1. \A i \in DOMAIN file[u] : ~(i < row'[u])
      BY <1>1, <1>4
    <2>2. pc'[u] \in {"record", "save"} => \A i \in DOMAIN file[u] : FALSE
      BY <1>1, <1>4
    <2>3. \A k \in DOMAIN order'[u] : FALSE
      BY <1>4
    <2> QED
      BY <2>1, <2>2, <2>3, Zenon DEF CatalogUnchanged
  <1> QED
    BY <1>5, <1>6, <1>7, <1>8, <1>9, <1>10, <1>11, <1>12 DEF UploadOK

\* Looking up a row, whether the catalog answers, or the merchant waits already, or
\* is put in the order.
LEMMA LookupStep ==
    ASSUME LimitsAssumption, FileAssumption, NoneAssumption, TypeOK,
           NEW u \in Uploads, UploadOK(u), Lookup(u)
    PROVE  TypeOK' /\ UploadOK(u)'
  <1> DEFINE i == row[u]
             m == file[u][i].merchant
             e == catalog[m]
             hit == Entry(e.category, "high", FALSE, "cache")
             n == Len(file[u])
  <1>1. /\ pc[u] = "lookup" /\ Running(u)
        /\ i \in DOMAIN file[u] /\ i \in Nat \ {0}
        /\ n \in Nat /\ DOMAIN file[u] = 1 .. n
        /\ \A j \in DOMAIN file[u] : file[u][j].merchant \in Merchants
        /\ out[u] = <<>>
        /\ usage[u] = 0
        /\ Answered(u) = 0
    <2>1. pc[u] = "lookup" /\ Running(u)
      BY DEF Lookup, Running
    <2>2. i \in Nat \ {0} /\ i <= n /\ out[u] = <<>> /\ usage[u] = 0
      BY <2>1 DEF TypeOK, UploadOK, StageOK
    <2>3. i \in DOMAIN file[u] /\ n \in Nat /\ DOMAIN file[u] = 1 .. n
      BY <2>2, FileFacts
    <2> QED
      BY <2>1, <2>2, <2>3, FileFacts DEF Answered
  <1>2. /\ results[u] \in Seq(Entries \cup {None}) /\ Len(results[u]) = n
        /\ told[u] \in Seq(Entries \cup {None}) /\ Len(told[u]) = n
        /\ order[u] \in Seq(Nat \ {0})
        /\ m \in Merchants /\ e \in {None} \cup CatalogEntries
    BY <1>1 DEF TypeOK, CatalogEntries
  <1> HIDE DEF i, m, e, n, hit
  <1>3. IsConfident(e) => hit \in Entries /\ hit # None /\ hit.source = "cache"
    <2>1. IsConfident(e) => e \in CatalogEntries
      BY <1>2 DEF IsConfident
    <2>2. hit = [category |-> e.category, confidence |-> "high", needs_review |-> FALSE,
                 source |-> "cache"]
      BY DEF Entry, hit
    <2>3. IsConfident(e) => hit \in Entries
      BY <2>1, <2>2 DEF CatalogEntries, Entries, Confidences
    <2>4. None \notin Entries
      BY NoneAssumption DEF NoneAssumption, Entries
    <2> QED
      BY <2>2, <2>3, <2>4
  <1>4. /\ row' = [row EXCEPT ![u] = i + 1]
        /\ UNCHANGED <<catalog, today, spent, byUploads, other, forced, out, usage, told, said,
                       overlapped>>
        /\ row'[u] = i + 1
    BY DEF Lookup, costs, TypeOK, i
  <1>5. /\ pc' = [pc EXCEPT ![u] = IF i < n THEN "lookup"
                                   ELSE IF order'[u] = <<>> THEN "save" ELSE "classify"]
        /\ pc'[u] = IF i < n THEN "lookup" ELSE IF order'[u] = <<>> THEN "save" ELSE "classify"
    BY DEF Lookup, Goto, TypeOK, i, n
  <1> DEFINE waiting == \E k \in DOMAIN order[u] : RowAt(u, k).merchant = m
  <1>6. /\ IsConfident(e) => /\ results' = [results EXCEPT ![u] = [results[u] EXCEPT ![i] = hit]]
                             /\ order' = order
        /\ ~IsConfident(e) => /\ results' = results
                              /\ waiting => order' = order
                              /\ ~waiting => order' = [order EXCEPT ![u] = Append(order[u], i)]
    BY DEF Lookup, hit, RowAt, i, m, e
  <1>8. /\ results \in [Uploads -> Seq(Entries \cup {None})]
        /\ order \in [Uploads -> Seq(Nat \ {0})]
    BY DEF TypeOK
  <1> HIDE DEF waiting
  <1>7. /\ results'[u] \in Seq(Entries \cup {None}) /\ Len(results'[u]) = n
        /\ \A j \in 1 .. n : j # i => results'[u][j] = results[u][j]
        /\ IsConfident(e) => results'[u][i] = hit
        /\ ~IsConfident(e) => results'[u][i] = results[u][i]
        /\ results' = [results EXCEPT ![u] = results'[u]]
    <2>1. CASE IsConfident(e)
      <3>1. results'[u] = [results[u] EXCEPT ![i] = hit]
        BY <1>6, <1>8, <2>1
      <3>2. i \in DOMAIN results[u] /\ DOMAIN results[u] = 1 .. n
        BY <1>1, <1>2
      <3>3. hit \in Entries \cup {None} /\ results[u] \in Seq(Entries \cup {None})
        BY <1>2, <1>3, <2>1
      <3>4. /\ results'[u] \in Seq(Entries \cup {None})
            /\ Len(results'[u]) = Len(results[u])
            /\ results'[u][i] = hit
            /\ \A k \in DOMAIN results[u] : k # i => results'[u][k] = results[u][k]
        <4> DEFINE T == Entries \cup {None}
                   r == results[u]
        <4>1. r \in Seq(T) /\ hit \in T /\ i \in DOMAIN r
          BY <3>2, <3>3
        <4> HIDE DEF T, r
        <4>2. /\ [r EXCEPT ![i] = hit] \in Seq(T)
              /\ Len([r EXCEPT ![i] = hit]) = Len(r)
              /\ [r EXCEPT ![i] = hit][i] = hit
              /\ \A k \in DOMAIN r : k # i => [r EXCEPT ![i] = hit][k] = r[k]
          BY <4>1, OneReplaced
        <4>3. results'[u] = [r EXCEPT ![i] = hit]
          BY <3>1 DEF r
        <4> QED
          BY <4>2, <4>3 DEF T, r
      <3>5. /\ Len(results'[u]) = n
            /\ \A k \in 1 .. n : k # i => results'[u][k] = results[u][k]
        BY <1>2, <3>2, <3>4
      <3> QED
        BY <1>6, <2>1, <3>1, <3>4, <3>5
    <2>2. CASE ~IsConfident(e)
      BY <1>2, <1>6, <1>8, <2>2
    <2> QED
      BY <2>1, <2>2
  <1>9. /\ order'[u] \in Seq(Nat \ {0})
        /\ order' = [order EXCEPT ![u] = order'[u]]
        /\ Len(order[u]) \in Nat
        /\ DOMAIN order[u] = 1 .. Len(order[u])
        /\ DOMAIN order'[u] = 1 .. Len(order'[u])
        /\ Len(order'[u]) \in {Len(order[u]), Len(order[u]) + 1}
        /\ \A k \in DOMAIN order[u] : k \in DOMAIN order'[u] /\ order'[u][k] = order[u][k]
        /\ \A k \in DOMAIN order'[u] : k \notin DOMAIN order[u] =>
              /\ k = Len(order[u]) + 1
              /\ order'[u][k] = i
              /\ ~IsConfident(e) /\ ~waiting
        /\ ~IsConfident(e) /\ ~waiting =>
              /\ Len(order[u]) + 1 \in DOMAIN order'[u]
              /\ order'[u][Len(order[u]) + 1] = i
              /\ Len(order'[u]) = Len(order[u]) + 1
    <2>1. CASE IsConfident(e) \/ waiting
      <3>1. order' = order
        BY <1>6, <2>1
      <3> QED
        BY <1>2, <1>8, <2>1, <3>1
    <2>2. CASE ~IsConfident(e) /\ ~waiting
      <3>1. order' = [order EXCEPT ![u] = Append(order[u], i)] /\ order'[u] = Append(order[u], i)
        BY <1>6, <1>8, <2>2
      <3>2. /\ order'[u] \in Seq(Nat \ {0})
            /\ Len(order[u]) \in Nat
            /\ Len(order'[u]) = Len(order[u]) + 1
            /\ DOMAIN order[u] = 1 .. Len(order[u])
            /\ DOMAIN order'[u] = 1 .. Len(order[u]) + 1
            /\ \A k \in 1 .. Len(order[u]) : order'[u][k] = order[u][k]
            /\ order'[u][Len(order[u]) + 1] = i
        <4>1. order[u] \in Seq(Nat \ {0}) /\ i \in Nat \ {0}
          BY <1>1, <1>2
        <4> QED
          BY ONLY <3>1, <4>1, OneMore
      <3>3. \A k \in DOMAIN order[u] : k \in DOMAIN order'[u]
        BY <3>2
      <3>4. \A k \in DOMAIN order'[u] : k \notin DOMAIN order[u] => k = Len(order[u]) + 1
        BY <3>2
      <3>5. Len(order[u]) + 1 \in DOMAIN order'[u]
        BY <3>2
      <3> QED
        BY <2>2, <3>1, <3>2, <3>3, <3>4, <3>5
    <2> QED
      BY <2>1, <2>2
  <1>10. TypeOK'
    <2>1. \A v \in Uploads : Running(v)' => /\ Len(results'[v]) = Len(file[v])
                                             /\ Len(told'[v]) = Len(file[v])
      <3> SUFFICES ASSUME NEW v \in Uploads, Running(v)'
                   PROVE  Len(results'[v]) = Len(file[v]) /\ Len(told'[v]) = Len(file[v])
        OBVIOUS
      <3>1. CASE v = u
        BY <1>2, <1>4, <1>7, <3>1 DEF n
      <3>2. CASE v # u
        <4>1. results'[v] = results[v] /\ told'[v] = told[v] /\ pc'[v] = pc[v]
          BY <1>4, <1>5, <1>7, <1>8, <3>2 DEF TypeOK
        <4> QED
          BY <4>1 DEF TypeOK, Running
      <3> QED
        BY <3>1, <3>2
    <2>2. pc' \in [Uploads -> {"idle", "lookup", "classify", "record", "save", "done"}]
      BY <1>5 DEF TypeOK
    <2>3. row' \in [Uploads -> Nat \ {0}]
      BY <1>1, <1>4 DEF TypeOK
    <2>4. results' \in [Uploads -> Seq(Entries \cup {None})]
      BY <1>7, <1>8
    <2>5. order' \in [Uploads -> Seq(Nat \ {0})]
      BY <1>9, <1>8
    <2> QED
      BY <1>4, <2>1, <2>2, <2>3, <2>4, <2>5 DEF TypeOK
  <1>11. Answered(u)' = 0
    <2>1. order'[u] = <<>> => Len(order'[u]) = 0
      BY <1>9
    <2> QED
      BY <1>1, <1>4, <1>5, <2>1 DEF Answered
  <1>12. StageOK(u)'
    <2>1. order'[u] # <<>> => Len(order'[u]) > 0
      BY <1>9
    <2> QED
      BY <1>1, <1>4, <1>5, <2>1 DEF StageOK, Running
  <1>13. OrderOK(u)'
    <2>1. Len(order[u]) < i /\ \A k \in DOMAIN order[u] : order[u][k] < i /\ order[u][k] \in Nat
      BY <1>2 DEF UploadOK, OrderOK, i
    <2>2. \A k \in DOMAIN order'[u] : order'[u][k] < i + 1
      <3> SUFFICES ASSUME NEW k \in DOMAIN order'[u]
                   PROVE  order'[u][k] < i + 1
        OBVIOUS
      <3>1. order'[u][k] \in Nat /\ (order'[u][k] < i \/ order'[u][k] = i)
        BY <1>1, <1>9, <2>1
      <3> QED
        BY <1>1, <3>1
    <2>3. \A k, l \in DOMAIN order[u] : RowAt(u, k).merchant = RowAt(u, l).merchant => k = l
      BY DEF UploadOK, OrderOK
    <2>4. \A k, l \in DOMAIN order'[u] : RowAt(u, k)'.merchant = RowAt(u, l)'.merchant => k = l
      <3> SUFFICES ASSUME NEW k \in DOMAIN order'[u], NEW l \in DOMAIN order'[u],
                          file[u][order'[u][k]].merchant = file[u][order'[u][l]].merchant
                   PROVE  k = l
        BY DEF RowAt
      <3>1. CASE k \in DOMAIN order[u] /\ l \in DOMAIN order[u]
        BY <1>9, <2>3, <3>1 DEF RowAt
      <3>2. CASE k \notin DOMAIN order[u] /\ l \notin DOMAIN order[u]
        BY <1>9, <3>2
      <3>3. ASSUME NEW x \in DOMAIN order[u], NEW y \in DOMAIN order'[u], y \notin DOMAIN order[u]
            PROVE  file[u][order'[u][x]].merchant # file[u][order'[u][y]].merchant
        <4>1. order'[u][x] = order[u][x] /\ order'[u][y] = i /\ ~waiting
          BY <1>9, <3>3
        <4>2. RowAt(u, x).merchant # m
          BY <4>1 DEF waiting
        <4> QED
          BY <4>1, <4>2 DEF RowAt, m
      <3> QED
        BY <3>1, <3>2, <3>3
    <2> QED
      BY <1>1, <1>4, <1>9, <2>1, <2>2, <2>4 DEF OrderOK
  <1>14. NotSaidYet(u)'
    <2>1. \A x \in Merchants : said[u][x] = None
      BY <1>1 DEF UploadOK, NotSaidYet
    <2>2. \A k \in DOMAIN order'[u] : RowAt(u, k)'.merchant \in Merchants
      <3>1. \A k \in DOMAIN order'[u] : order'[u][k] \in DOMAIN file[u]
        <4>1. \A k \in DOMAIN order[u] : order[u][k] < i /\ order[u][k] \in Nat \ {0}
          BY <1>2 DEF UploadOK, OrderOK, i
        <4>2. i \in 1 .. n
          BY <1>1
        <4>3. \A j \in Nat \ {0} : j < i => j \in 1 .. n
          BY <1>1, <4>2
        <4>4. \A k \in DOMAIN order'[u] : order'[u][k] \in 1 .. n
          BY <1>9, <4>1, <4>2, <4>3
        <4> QED
          BY <1>1, <4>4
      <3> QED
        BY <1>1, <3>1 DEF RowAt
    <2> QED
      BY <1>4, <2>1, <2>2 DEF NotSaidYet
  <1>15. UsageOK(u)'
    <2>1. out'[u] = <<>> /\ usage'[u] = 0
      BY <1>1, <1>4
    <2>2. usage'[u] * BatchSize = 0 /\ Len(out'[u]) = 0
      BY <2>1, LimitsAssumption DEF LimitsAssumption
    <2> QED
      BY <2>1, <2>2 DEF UsageOK
  <1>16. OutOK(u)'
    BY <1>1, <1>4, <1>11 DEF OutOK
  <1>17. ResultsOK(u)'
    <2> SUFFICES ASSUME NEW j \in DOMAIN file[u]
                 PROVE  IF j >= i + 1 THEN results'[u][j] = None
                        ELSE \/ results'[u][j] # None /\ results'[u][j].source = "cache"
                             \/ \E k \in DOMAIN order'[u] :
                                   /\ file[u][order'[u][k]].merchant = file[u][j].merchant
                                   /\ order'[u][k] <= j
                                   /\ results'[u][j] = None
      <3>1. \A k \in DOMAIN order'[u] : ~(k <= 0)
        BY <1>9
      <3> QED
        BY <1>4, <1>11, <3>1 DEF ResultsOK, RowAt
    <2>1. IF j >= i THEN results[u][j] = None
          ELSE \/ results[u][j] # None /\ results[u][j].source = "cache"
               \/ \E k \in DOMAIN order[u] :
                     /\ file[u][order[u][k]].merchant = file[u][j].merchant
                     /\ order[u][k] <= j
                     /\ results[u][j] = None
      <3>1. \A k \in DOMAIN order[u] : ~(k <= 0)
        BY <1>9
      <3> QED
        BY <1>1, <3>1 DEF UploadOK, ResultsOK, RowAt, i
    <2>2. j \in Nat /\ i \in Nat
      BY <1>1
    <2>3. CASE j > i
      <3>1. j >= i + 1 /\ j >= i /\ j # i /\ j \in 1 .. n
        BY <1>1, <2>2, <2>3
      <3> QED
        BY <1>7, <2>1, <3>1
    <2>4. CASE j < i
      <3>1. ~(j >= i) /\ ~(j >= i + 1) /\ results'[u][j] = results[u][j]
        BY <1>1, <1>7, <2>2, <2>4
      <3>2. CASE \E k \in DOMAIN order[u] :
                     /\ file[u][order[u][k]].merchant = file[u][j].merchant
                     /\ order[u][k] <= j
                     /\ results[u][j] = None
        <4>1. PICK k \in DOMAIN order[u] :
                     /\ file[u][order[u][k]].merchant = file[u][j].merchant
                     /\ order[u][k] <= j
                     /\ results[u][j] = None
          BY <3>2
        <4>2. k \in DOMAIN order'[u] /\ order'[u][k] = order[u][k]
          BY <1>9
        <4> QED
          BY <3>1, <4>1, <4>2
      <3> QED
        BY <2>1, <3>1, <3>2
    <2>5. CASE j = i /\ IsConfident(e)
      <3>1. ~(j >= i + 1)
        BY <2>2, <2>5
      <3> QED
        BY <1>1, <1>3, <1>7, <2>5, <3>1
    <2>6. CASE j = i /\ ~IsConfident(e)
      <3>1. ~(j >= i + 1) /\ j >= i /\ results'[u][j] = None
        BY <1>1, <1>7, <2>1, <2>2, <2>6
      <3>2. \E k \in DOMAIN order'[u] : file[u][order'[u][k]].merchant = m /\ order'[u][k] <= i
        <4>1. CASE waiting
          <5>1. PICK k \in DOMAIN order[u] : RowAt(u, k).merchant = m
            BY <4>1 DEF waiting
          <5>2. order[u][k] < i /\ order[u][k] \in Nat
            BY <1>2 DEF UploadOK, OrderOK, i
          <5>3. order[u][k] <= i
            BY <2>2, <5>2
          <5> QED
            BY <1>9, <5>1, <5>3 DEF RowAt
        <4>2. CASE ~waiting
          <5>1. order'[u][Len(order[u]) + 1] = i /\ Len(order[u]) + 1 \in DOMAIN order'[u]
            BY <1>9, <2>6, <4>2
          <5>2. i <= i
            BY <2>2
          <5> QED
            BY <5>1, <5>2 DEF m
        <4> QED
          BY <4>1, <4>2
      <3> QED
        BY <2>6, <3>1, <3>2 DEF m
    <2> QED
      BY <2>2, <2>3, <2>4, <2>5, <2>6
  <1>18. ASSUME u \notin overlapped'
         PROVE  CatalogUnchanged(u)'
    <2>1. u \notin overlapped
      BY <1>4, <1>18
    <2> DEFINE answer(j) == IF IsConfident(catalog[file[u][j].merchant])
                            THEN Entry(catalog[file[u][j].merchant].category, "high", FALSE, "cache")
                            ELSE None
    <2>2. \A j \in DOMAIN file[u] : j < i => results[u][j] = answer(j)
      BY <1>1, <2>1, Zenon DEF UploadOK, CatalogUnchanged, i
    <2>3. results[u][i] = None
      BY <1>1 DEF UploadOK, ResultsOK, i
    <2>4. answer(i) = IF IsConfident(e) THEN hit ELSE None
      BY DEF hit, e, m
    <2>5. results'[u][i] = answer(i)
      BY <1>7, <2>3, <2>4
    <2>6. \A j \in DOMAIN file[u] : j < i + 1 => j = i \/ j < i
      BY <1>1
    <2>7. \A j \in DOMAIN file[u] : j < i => results'[u][j] = results[u][j]
      BY <1>1, <1>7
    <2>8. \A j \in DOMAIN file[u] : j < i + 1 => results'[u][j] = answer(j)
      BY <2>2, <2>5, <2>6, <2>7, Zenon
    <2>9. \A k \in DOMAIN order[u] : ~IsConfident(catalog[RowAt(u, k).merchant])
      <3>1. \A k \in DOMAIN order[u] : 0 < k
        BY <1>9
      <3> QED
        BY <1>1, <2>1, <3>1 DEF UploadOK, CatalogUnchanged
    <2>10. \A k \in DOMAIN order'[u] : ~IsConfident(catalog[RowAt(u, k)'.merchant])
      BY <1>9, <2>9 DEF RowAt, e, m
    <2>11. pc'[u] \in {"record", "save"} => \A j, l \in DOMAIN file[u] :
              file[u][j].merchant = file[u][l].merchant => results'[u][j] = results'[u][l]
      <3>1. pc'[u] \in {"record", "save"} => i = n
        BY <1>1, <1>5
      <3>2. i = n => \A j \in DOMAIN file[u] : results'[u][j] = answer(j)
        <4>1. i = n => \A j \in DOMAIN file[u] : j < i + 1
          BY <1>1
        <4> QED
          BY <2>8, <4>1, Zenon
      <3> QED
        BY <3>1, <3>2, Zenon
    <2> HIDE DEF answer
    <2>12. pc'[u] \in {"lookup", "classify"} =>
              \A j \in DOMAIN file[u] : j < row'[u] => results'[u][j] = answer(j)
      BY <1>4, <2>8
    <2> QED
      BY <1>4, <2>10, <2>11, <2>12, Zenon DEF CatalogUnchanged, answer, IsConfident
  <1> QED
    BY <1>10, <1>12, <1>13, <1>14, <1>15, <1>16, <1>17, <1>18 DEF UploadOK
------------------------------------------------------------------------------
\* The merchants in the order, each by a row of the statement.
LEMMA OrderFacts ==
    ASSUME FileAssumption, TypeOK, NEW u \in Uploads, UploadOK(u), Running(u), pc[u] # "lookup"
    PROVE  /\ Len(order[u]) \in Nat
           /\ DOMAIN order[u] = 1 .. Len(order[u])
           /\ Len(order[u]) <= Len(file[u])
           /\ row[u] = Len(file[u]) + 1
           /\ \A k \in DOMAIN order[u] : /\ order[u][k] \in DOMAIN file[u]
                                         /\ RowAt(u, k) \in Row
                                         /\ RowAt(u, k).merchant \in Merchants
           /\ \A k, l \in DOMAIN order[u] : order[u][k] = order[u][l] => k = l
  <1>1. order[u] \in Seq(Nat \ {0})
    BY DEF TypeOK
  <1>2. Len(order[u]) \in Nat /\ DOMAIN order[u] = 1 .. Len(order[u])
    BY <1>1
  <1>3. row[u] = Len(file[u]) + 1
    BY DEF UploadOK, StageOK, Running, TypeOK
  <1>4. \A k \in DOMAIN order[u] : order[u][k] \in Nat \ {0} /\ order[u][k] < row[u]
    BY <1>1 DEF UploadOK, OrderOK
  <1>5. Len(order[u]) < row[u]
    BY DEF UploadOK, OrderOK
  <1>6. Len(file[u]) \in Nat /\ DOMAIN file[u] = 1 .. Len(file[u])
    BY FileFacts
  <1>7. \A k \in DOMAIN order[u] : order[u][k] \in DOMAIN file[u]
    BY <1>3, <1>4, <1>6
  <1>8. \A k \in DOMAIN order[u] : RowAt(u, k) \in Row /\ RowAt(u, k).merchant \in Merchants
    BY <1>7, FileFacts DEF RowAt
  <1>9. \A k, l \in DOMAIN order[u] : order[u][k] = order[u][l] => k = l
    BY DEF UploadOK, OrderOK, RowAt
  <1> QED
    BY <1>2, <1>3, <1>5, <1>6, <1>7, <1>8, <1>9

\* The next batch begins where the batches before it end, and is not empty.
LEMMA BatchFacts ==
    ASSUME LimitsAssumption, FileAssumption, TypeOK, NEW u \in Uploads, UploadOK(u),
           pc[u] = "classify"
    PROVE  /\ Len(out[u]) \in Nat
           /\ DOMAIN out[u] = 1 .. Len(out[u])
           /\ BatchEnd(u) \in Nat
           /\ Len(out[u]) < BatchEnd(u)
           /\ BatchEnd(u) <= Len(order[u])
           /\ BatchEnd(u) < Len(order[u]) => BatchEnd(u) = Len(out[u]) + BatchSize
           /\ NextBatch(u) = Len(out[u]) + 1 .. BatchEnd(u)
           /\ NextBatch(u) \subseteq DOMAIN order[u]
           /\ NextBatch(u) \subseteq Nat
           /\ IsFiniteSet(NextBatch(u))
  <1>1. Running(u)
    BY DEF Running
  <1>2. Len(order[u]) \in Nat /\ DOMAIN order[u] = 1 .. Len(order[u])
    BY <1>1, OrderFacts
  <1>3. Len(out[u]) \in Nat /\ DOMAIN out[u] = 1 .. Len(out[u])
    BY DEF TypeOK
  <1>4. Len(out[u]) < Len(order[u])
    BY DEF UploadOK, StageOK
  <1>5. BatchSize \in Nat \ {0}
    BY DEF LimitsAssumption
  <1>6. /\ BatchEnd(u) \in Nat
        /\ Len(out[u]) < BatchEnd(u)
        /\ BatchEnd(u) <= Len(order[u])
        /\ BatchEnd(u) < Len(order[u]) => BatchEnd(u) = Len(out[u]) + BatchSize
    BY <1>2, <1>3, <1>4, <1>5 DEF BatchEnd
  <1>7. NextBatch(u) = Len(out[u]) + 1 .. BatchEnd(u)
    BY DEF NextBatch
  <1>8. NextBatch(u) \subseteq DOMAIN order[u] /\ NextBatch(u) \subseteq Nat
    BY <1>2, <1>3, <1>6, <1>7
  <1>9. IsFiniteSet(NextBatch(u))
    <2>1. Len(out[u]) + 1 \in Int /\ BatchEnd(u) \in Int
      BY <1>3, <1>6
    <2>2. IsFiniteSet(Len(out[u]) + 1 .. BatchEnd(u))
      BY <2>1, FS_Interval
    <2> QED
      BY <1>7, <2>2
  <1> QED
    BY <1>3, <1>6, <1>7, <1>8, <1>9

\* An upload makes no more calls than its file has batches.
LEMMA CallsBounded ==
    ASSUME LimitsAssumption, NEW w \in Nat, NEW n \in Nat,
           n <= MaxCalls * BatchSize, w = 0 \/ (w - 1) * BatchSize < n
    PROVE  w \in 0 .. MaxCalls
  <1>1. MaxCalls \in Nat /\ BatchSize \in Nat \ {0}
    BY DEF LimitsAssumption
  <1>2. ASSUME w > MaxCalls
        PROVE  FALSE
    <2>1. PICK d \in Nat : w - 1 = MaxCalls + d
      <3>1. w - 1 - MaxCalls \in Nat /\ w - 1 = MaxCalls + (w - 1 - MaxCalls)
        BY <1>1, <1>2
      <3> QED
        BY <3>1
    <2>2. (MaxCalls + d) * BatchSize = MaxCalls * BatchSize + d * BatchSize
      BY <1>1
    <2>3. d * BatchSize \in Nat /\ MaxCalls * BatchSize \in Nat
      BY <1>1
    <2>4. (w - 1) * BatchSize < n
      BY <1>1, <1>2
    <2> QED
      BY <2>1, <2>2, <2>3, <2>4
  <1> QED
    BY <1>1, <1>2
\* A batch is classified: entry is what the engine answered of its merchants, and w the
\* calls it has made.
LEMMA ClassifiedStep ==
    ASSUME LimitsAssumption, FileAssumption, NoneAssumption, TypeOK,
           NEW u \in Uploads, UploadOK(u), pc[u] = "classify",
           NEW entry \in [NextBatch(u) -> Entries], Classified(u, entry, entry),
           NEW w \in {usage[u], usage[u] + 1},
           usage' = [usage EXCEPT ![u] = w],
           forced[u] => w = usage[u],
           UNCHANGED <<catalog, costs, forced, results, row, order, said, overlapped>>
    PROVE  TypeOK' /\ UploadOK(u)'
  <1> DEFINE L == Len(order[u])
             o == Len(out[u])
             e == BatchEnd(u)
             n == Len(file[u])
             newOut == [k \in 1 .. e |-> IF k \in NextBatch(u) THEN entry[k] ELSE out[u][k]]
             newTold == [i \in DOMAIN file[u] |->
                            IF \E k \in NextBatch(u) : order[u][k] = i
                            THEN entry[CHOOSE k \in NextBatch(u) : order[u][k] = i]
                            ELSE told[u][i]]
             label == IF e < L THEN "classify" ELSE "record"
  <1>1. /\ out' = [out EXCEPT ![u] = newOut]
        /\ told' = [told EXCEPT ![u] = newTold]
        /\ pc' = [pc EXCEPT ![u] = label]
    BY DEF Classified, Goto
  <1>2. UNCHANGED <<catalog, today, spent, byUploads, other, forced, results, row, order, said,
                    overlapped>>
    BY DEF costs
  <1>3. Running(u)
    BY DEF Running
  <1>4. /\ out'[u] = newOut /\ told'[u] = newTold /\ pc'[u] = label /\ usage'[u] = w
    BY <1>1 DEF TypeOK
  <1>5. /\ L \in Nat /\ DOMAIN order[u] = 1 .. L /\ L <= n /\ row[u] = n + 1
        /\ \A k \in DOMAIN order[u] : order[u][k] \in DOMAIN file[u]
        /\ \A k, l \in DOMAIN order[u] : order[u][k] = order[u][l] => k = l
    BY <1>3, OrderFacts
  <1>6. /\ o \in Nat /\ DOMAIN out[u] = 1 .. o /\ e \in Nat /\ o < e /\ e <= L
        /\ e < L => e = o + BatchSize
        /\ NextBatch(u) = o + 1 .. e
        /\ NextBatch(u) \subseteq DOMAIN order[u]
    BY BatchFacts
  <1>7. n \in Nat /\ DOMAIN file[u] = 1 .. n
    BY FileFacts
  <1>8. /\ told[u] \in Seq(Entries \cup {None}) /\ Len(told[u]) = n
        /\ out[u] \in Seq(Entries)
        /\ usage[u] \in Nat
    BY <1>3, LimitsAssumption DEF TypeOK, LimitsAssumption
  <1>9. \A k \in 1 .. e : newOut[k] \in Entries /\ (k \notin NextBatch(u) => newOut[k] = out[u][k])
    <2> SUFFICES ASSUME NEW k \in 1 .. e
                 PROVE  newOut[k] \in Entries /\ (k \notin NextBatch(u) => newOut[k] = out[u][k])
      OBVIOUS
    <2>1. k \notin NextBatch(u) => k \in 1 .. o
      BY <1>6
    <2>2. k \in 1 .. o => out[u][k] \in Entries
      BY <1>6, <1>8
    <2> QED
      BY <2>1, <2>2
  <1>10. newOut \in Seq(Entries) /\ Len(newOut) = e /\ DOMAIN newOut = 1 .. e
    <2>1. newOut \in [1 .. e -> Entries]
      BY <1>9
    <2>2. e \in Nat
      BY <1>6
    <2> HIDE DEF newOut, e
    <2> QED
      BY ONLY <2>1, <2>2
  <1>11. \A k \in NextBatch(u) : newTold[order[u][k]] = entry[k]
    <2> SUFFICES ASSUME NEW k \in NextBatch(u)
                 PROVE  newTold[order[u][k]] = entry[k]
      OBVIOUS
    <2>1. k \in DOMAIN order[u] /\ order[u][k] \in DOMAIN file[u]
      BY <1>5, <1>6
    <2>2. (CHOOSE l \in NextBatch(u) : order[u][l] = order[u][k]) = k
      BY <1>5, <1>6, <2>1
    <2> QED
      BY <2>1, <2>2
  <1>12. \A k \in DOMAIN order[u] : k \notin NextBatch(u) =>
            newTold[order[u][k]] = told[u][order[u][k]]
    <2> SUFFICES ASSUME NEW k \in DOMAIN order[u], k \notin NextBatch(u)
                 PROVE  newTold[order[u][k]] = told[u][order[u][k]]
      OBVIOUS
    <2>1. order[u][k] \in DOMAIN file[u] /\ ~\E l \in NextBatch(u) : order[u][l] = order[u][k]
      BY <1>5, <1>6
    <2> QED
      BY <2>1
  <1>13. newTold \in Seq(Entries \cup {None}) /\ Len(newTold) = n
    <2>1. \A i \in DOMAIN file[u] : newTold[i] \in Entries \cup {None}
      <3> SUFFICES ASSUME NEW i \in DOMAIN file[u]
                   PROVE  newTold[i] \in Entries \cup {None}
        OBVIOUS
      <3>1. CASE \E k \in NextBatch(u) : order[u][k] = i
        BY <1>11, <3>1
      <3>2. CASE ~\E k \in NextBatch(u) : order[u][k] = i
        <4>1. told[u][i] \in Entries \cup {None}
          BY <1>7, <1>8
        <4> QED
          BY <3>2, <4>1
      <3> QED
        BY <3>1, <3>2
    <2>2. newTold \in [DOMAIN file[u] -> Entries \cup {None}]
      BY <2>1
    <2> HIDE DEF newTold
    <2> QED
      BY <2>2, RowsOf
  <1> HIDE DEF L, o, e, n, newOut, newTold
  <1>14. /\ Answered(u) = 0 /\ Answered(u)' = 0 /\ Running(u)'
         /\ pc'[u] \in {"classify", "record"}
         /\ pc'[u] = "classify" => e < L
    <2>1. Len(out'[u]) = e /\ Len(order'[u]) = L
      BY <1>2, <1>4, <1>10 DEF L
    <2>2. label = "record" => e = L
      BY <1>5, <1>6
    <2> QED
      BY <1>4, <1>5, <1>6, <2>1, <2>2 DEF Answered, Running
  <1>15. UsageOK(u)' /\ w \in 0 .. MaxCalls
    <2>1. /\ forced[u] => usage[u] = 0
          /\ usage[u] = 0 \/ (usage[u] - 1) * BatchSize < L
          /\ usage[u] * BatchSize <= o
      BY DEF UploadOK, UsageOK, L, o
    <2>2. BatchSize \in Nat \ {0}
      BY DEF LimitsAssumption
    <2>3. w \in Nat /\ (w = 0 \/ (w - 1) * BatchSize < L)
      <3>1. CASE w = usage[u]
        BY <1>8, <2>1, <3>1
      <3>2. CASE w = usage[u] + 1
        <4>1. w - 1 = usage[u]
          BY <1>8, <3>2
        <4>2. usage[u] * BatchSize \in Nat
          BY <1>8, <2>2
        <4>3. usage[u] * BatchSize < L
          BY <1>5, <1>6, <2>1, <4>2
        <4>4. w \in Nat
          BY <1>8, <3>2
        <4> QED
          BY <4>1, <4>3, <4>4
      <3> QED
        BY <3>1, <3>2
    <2>4. e < L => w * BatchSize <= e
      <3>1. CASE w = usage[u]
        <4>1. w * BatchSize \in Nat
          BY <1>8, <2>2, <3>1
        <4> QED
          BY <1>6, <2>1, <3>1, <4>1
      <3>2. CASE w = usage[u] + 1
        <4>1. w * BatchSize = usage[u] * BatchSize + BatchSize
          BY <1>8, <2>2, <3>2
        <4>2. usage[u] * BatchSize \in Nat
          BY <1>8, <2>2
        <4> QED
          BY <1>6, <2>1, <2>2, <4>1, <4>2
      <3> QED
        BY <3>1, <3>2
    <2>5. n <= MaxCalls * BatchSize
      BY DEF FileAssumption, n
    <2>6. w = 0 \/ (w - 1) * BatchSize < n
      <3>1. w # 0 => (w - 1) * BatchSize \in Int
        BY <2>2, <2>3
      <3> QED
        BY <1>5, <1>7, <2>3, <3>1
    <2>7. w \in 0 .. MaxCalls
      BY <1>7, <2>3, <2>5, <2>6, CallsBounded
    <2>8. forced'[u] => usage'[u] = 0
      BY <1>2, <1>4, <2>1
    <2>9. usage'[u] = 0 \/ (usage'[u] - 1) * BatchSize < Len(order'[u])
      BY <1>2, <1>4, <2>3 DEF L
    <2>10. pc'[u] = "classify" => usage'[u] * BatchSize <= Len(out'[u])
      BY <1>4, <1>10, <1>14, <2>4
    <2> QED
      BY <2>7, <2>8, <2>9, <2>10 DEF UsageOK
  <1>16. TypeOK'
    <2>1. \A v \in Uploads : Running(v)' => /\ Len(results'[v]) = Len(file[v])
                                             /\ Len(told'[v]) = Len(file[v])
      <3> SUFFICES ASSUME NEW v \in Uploads, Running(v)'
                   PROVE  Len(results'[v]) = Len(file[v]) /\ Len(told'[v]) = Len(file[v])
        OBVIOUS
      <3>1. CASE v = u
        BY <1>2, <1>3, <1>4, <1>13, <3>1 DEF TypeOK, n
      <3>2. CASE v # u
        BY <1>1, <1>2, <3>2 DEF TypeOK, Running
      <3> QED
        BY <3>1, <3>2
    <2>2. usage' \in [Uploads -> 0 .. MaxCalls]
      BY <1>15 DEF TypeOK
    <2>3. out' \in [Uploads -> Seq(Entries)]
      BY <1>1, <1>10 DEF TypeOK
    <2>4. told' \in [Uploads -> Seq(Entries \cup {None})]
      BY <1>1, <1>13 DEF TypeOK
    <2>5. pc' \in [Uploads -> {"idle", "lookup", "classify", "record", "save", "done"}]
      BY <1>1 DEF TypeOK
    <2> QED
      BY <1>2, <2>1, <2>2, <2>3, <2>4, <2>5 DEF TypeOK
  <1>17. StageOK(u)'
    <2>1. out'[u] # <<>>
      BY <1>4, <1>6, <1>10
    <2>2. Len(out'[u]) <= Len(order'[u]) /\ (e < L => Len(out'[u]) < Len(order'[u]))
      BY <1>2, <1>4, <1>6, <1>10 DEF L
    <2> QED
      BY <1>2, <1>5, <1>14, <2>1, <2>2 DEF StageOK, n
  <1>18. OrderOK(u)'
    BY <1>2 DEF UploadOK, OrderOK, RowAt
  <1>19. NotSaidYet(u)'
    BY <1>2, <1>14 DEF UploadOK, NotSaidYet, RowAt
  <1>20. OutOK(u)'
    <2>1. \A k \in 1 .. e : newTold[order[u][k]] = newOut[k]
      <3> SUFFICES ASSUME NEW k \in 1 .. e
                   PROVE  newTold[order[u][k]] = newOut[k]
        OBVIOUS
      <3>1. CASE k \in NextBatch(u)
        <4>1. newOut[k] = entry[k]
          BY <3>1 DEF newOut
        <4> QED
          BY <1>11, <3>1, <4>1
      <3>2. CASE k \notin NextBatch(u)
        <4>1. k \in 1 .. o /\ k \in DOMAIN order[u]
          BY <1>5, <1>6, <3>2
        <4>2. told[u][order[u][k]] = out[u][k]
          BY <1>3, <1>14, <4>1 DEF UploadOK, OutOK, o
        <4> QED
          BY <1>9, <1>12, <3>2, <4>1, <4>2
      <3> QED
        BY <3>1, <3>2
    <2>2. \A k \in 1 .. Len(out'[u]) : told'[u][order'[u][0 + k]] = out'[u][k]
      BY <1>2, <1>4, <1>10, <2>1
    <2> QED
      BY <1>14, <2>2 DEF OutOK
  <1>21. ResultsOK(u)'
    <2>1. \A k \in DOMAIN order[u] : ~(k <= 0)
      BY <1>5
    <2> QED
      BY <1>2, <1>3, <1>14, <2>1 DEF UploadOK, ResultsOK, RowAt
  <1>22. ASSUME u \notin overlapped'
         PROVE  CatalogUnchanged(u)'
    <2>1. CatalogUnchanged(u)
      BY <1>2, <1>3, <1>22 DEF UploadOK
    <2>2. \A i \in DOMAIN file[u] : i < row[u]
      BY <1>5, <1>7
    <2>3. \A i, j \in DOMAIN file[u] :
             file[u][i].merchant = file[u][j].merchant => results[u][i] = results[u][j]
      BY <2>1, <2>2 DEF CatalogUnchanged
    <2>4. \A k \in DOMAIN order[u] : 0 < k => ~IsConfident(catalog[RowAt(u, k).merchant])
      BY <1>14, <2>1 DEF CatalogUnchanged
    <2>5. pc'[u] \in {"lookup", "classify"} => CatalogUnchanged(u)'
      <3>1. pc[u] \in {"lookup", "classify"}
        OBVIOUS
      <3>2. \A i \in DOMAIN file[u] : i < row[u] =>
               results[u][i] = IF IsConfident(catalog[file[u][i].merchant])
                               THEN Entry(catalog[file[u][i].merchant].category,
                                          "high", FALSE, "cache")
                               ELSE None
        BY <2>1, <3>1 DEF CatalogUnchanged
      <3> QED
        BY <1>2, <1>14, <2>4, <3>2 DEF CatalogUnchanged, RowAt, IsConfident
    <2>6. pc'[u] \in {"record", "save"} => CatalogUnchanged(u)'
      <3> SUFFICES ASSUME pc'[u] \in {"record", "save"}
                   PROVE  CatalogUnchanged(u)'
        OBVIOUS
      <3>1. ~(pc'[u] \in {"lookup", "classify"})
        OBVIOUS
      <3>2. \A i, j \in DOMAIN file[u] :
               file[u][i].merchant = file[u][j].merchant => results'[u][i] = results'[u][j]
        BY <1>2, <2>3
      <3>3. \A k \in DOMAIN order'[u] :
               Answered(u)' < k => ~IsConfident(catalog'[RowAt(u, k)'.merchant])
        BY <1>2, <1>14, <2>4 DEF RowAt
      <3> QED
        BY <3>1, <3>2, <3>3, Zenon DEF CatalogUnchanged, IsConfident
    <2> QED
      BY <1>14, <2>5, <2>6
  <1> QED
    BY <1>14, <1>15, <1>16, <1>17, <1>18, <1>19, <1>20, <1>21, <1>22 DEF UploadOK
\* The three ways a batch is classified are such a step.
LEMMA ClassifyStep ==
    ASSUME LimitsAssumption, FileAssumption, NoneAssumption, CategoriesAssumption,
           RepliesAssumption, TypeOK, NEW u \in Uploads, UploadOK(u),
           ClassifyByRule(u) \/ ClassifyByModel(u) \/ FallBack(u)
    PROVE  TypeOK' /\ UploadOK(u)'
  <1>1. pc[u] = "classify" /\ Running(u)
    BY DEF ClassifyByRule, ClassifyByModel, FallBack, Running
  <1>2. \A k \in NextBatch(u) : RowAt(u, k) \in Row
    BY <1>1, BatchFacts, OrderFacts
  <1>3. usage \in [Uploads -> 0 .. MaxCalls] /\ usage = [usage EXCEPT ![u] = usage[u]]
    BY DEF TypeOK
  <1>4. \A k \in NextBatch(u) :
           /\ ByRule(RowAt(u, k)) \in Entries
           /\ ByFallback(RowAt(u, k)) \in Entries
           /\ k \notin Ambiguous(u) => ByKeyword(RowAt(u, k)) \in Entries
    <2> SUFFICES ASSUME NEW k \in NextBatch(u)
                 PROVE  /\ ByRule(RowAt(u, k)) \in Entries
                        /\ ByFallback(RowAt(u, k)) \in Entries
                        /\ k \notin Ambiguous(u) => ByKeyword(RowAt(u, k)) \in Entries
      OBVIOUS
    <2>1. k \notin Ambiguous(u) => RowAt(u, k).keyword # NoMatch
      BY DEF Ambiguous, RowAt
    <2> QED
      BY <1>2, <2>1, AnswerTypes
  <1>5. CASE ClassifyByRule(u)
    <2> DEFINE entry == [k \in NextBatch(u) |-> ByRule(RowAt(u, k))]
    <2>1. entry \in [NextBatch(u) -> Entries]
      BY <1>4
    <2>2. /\ Classified(u, entry, entry)
          /\ usage' = usage
          /\ UNCHANGED <<catalog, costs, forced, results, row, order, said, overlapped>>
      BY <1>5 DEF ClassifyByRule
    <2> HIDE DEF entry
    <2> QED
      BY <1>1, <1>3, <2>1, <2>2, ClassifiedStep
  <1>6. CASE ClassifyByModel(u)
    <2> DEFINE asked == Ambiguous(u)
               read(answers) == [k \in NextBatch(u) |->
                   IF k \in asked
                   THEN validate_classification(Answer(asked, answers, LocalIdx(asked, k)), "llm")
                   ELSE ByKeyword(RowAt(u, k))]
               given(answers) == [k \in NextBatch(u) |->
                   IF k \in asked THEN validate_classification(answers[k], "llm")
                   ELSE ByKeyword(RowAt(u, k))]
               w == usage[u] + IF asked = {} THEN 0 ELSE 1
    <2>1. PICK answers \in [asked -> Replies] : Classified(u, read(answers), given(answers))
      BY <1>6 DEF ClassifyByModel
    <2>2. /\ ~forced[u]
          /\ usage' = [usage EXCEPT ![u] = w]
          /\ UNCHANGED <<catalog, costs, forced, results, row, order, said, overlapped>>
      BY <1>6 DEF ClassifyByModel
    <2>3. asked \subseteq NextBatch(u) /\ asked \in SUBSET Nat /\ IsFiniteSet(asked)
      <3>1. asked \subseteq NextBatch(u)
        BY DEF Ambiguous
      <3>2. NextBatch(u) \subseteq Nat /\ IsFiniteSet(NextBatch(u))
        BY <1>1, BatchFacts
      <3> QED
        BY <3>1, <3>2, FS_Subset
    <2>4. \A k \in asked : answers[k] \in Replies
      BY <2>1
    <2>5. \A k \in asked : validate_classification(answers[k], "llm") \in Entries
      BY <1>2, <2>3, <2>4, AnswerTypes
    <2>6. \A k \in asked : Answer(asked, answers, LocalIdx(asked, k)) = answers[k]
      <3> HIDE DEF asked
      <3> QED
        BY <2>3, AnswersAligned
    <2>7. read(answers) = given(answers)
      BY <2>6
    <2>8. given(answers) \in [NextBatch(u) -> Entries]
      BY <1>4, <2>5
    <2>9. Classified(u, given(answers), given(answers))
      BY <2>1, <2>7
    <2>10. w \in {usage[u], usage[u] + 1}
      BY <1>3, LimitsAssumption DEF LimitsAssumption
    <2> HIDE DEF given, w
    <2> QED
      BY <1>1, <2>2, <2>8, <2>9, <2>10, ClassifiedStep
  <1>7. CASE FallBack(u)
    <2> DEFINE entry == [k \in NextBatch(u) |->
                   IF k \in Ambiguous(u) THEN ByFallback(RowAt(u, k)) ELSE ByKeyword(RowAt(u, k))]
    <2>1. entry \in [NextBatch(u) -> Entries]
      BY <1>4
    <2>2. /\ Classified(u, entry, entry)
          /\ ~forced[u]
          /\ usage' = usage \/ usage' = [usage EXCEPT ![u] = usage[u] + 1]
          /\ UNCHANGED <<catalog, costs, forced, results, row, order, said, overlapped>>
      BY <1>7 DEF FallBack
    <2>3. PICK w \in {usage[u], usage[u] + 1} : usage' = [usage EXCEPT ![u] = w]
      BY <1>3, <2>2
    <2> HIDE DEF entry
    <2> QED
      BY <1>1, <2>1, <2>2, <2>3, ClassifiedStep
  <1> QED
    BY <1>5, <1>6, <1>7
------------------------------------------------------------------------------
\* The merchant whose answer is recorded next.
Turn(u) == Len(order[u]) - Len(out[u]) + 1

LEMMA TurnFacts ==
    ASSUME LimitsAssumption, FileAssumption, TypeOK, NEW u \in Uploads, UploadOK(u),
           pc[u] = "record"
    PROVE  /\ Turn(u) \in DOMAIN order[u]
           /\ Answered(u) = Turn(u) - 1
           /\ Turn(u) \in Nat
           /\ Len(out[u]) \in Nat \ {0}
           /\ RowAt(u, Turn(u)).merchant \in Merchants
           /\ Head(out[u]) \in Entries
           /\ Head(out[u]) = told[u][order[u][Turn(u)]]
           /\ said[u][RowAt(u, Turn(u)).merchant] = None
           /\ Score(Head(out[u]).confidence) \in Nat
  <1>1. Running(u)
    BY DEF Running
  <1>2. out[u] \in Seq(Entries) /\ out[u] # <<>> /\ Len(out[u]) <= Len(order[u])
    BY DEF TypeOK, UploadOK, StageOK
  <1>3. Len(out[u]) \in Nat \ {0} /\ Head(out[u]) = out[u][1] /\ Head(out[u]) \in Entries
    BY <1>2
  <1>4. Len(order[u]) \in Nat /\ DOMAIN order[u] = 1 .. Len(order[u])
    BY <1>1, OrderFacts
  <1>5. Turn(u) \in Nat /\ Turn(u) \in DOMAIN order[u]
    <2>1. \A a \in Nat, b \in Nat \ {0} : b <= a => a - b + 1 \in Nat /\ a - b + 1 \in 1 .. a
      OBVIOUS
    <2> QED
      BY <1>2, <1>3, <1>4, <2>1 DEF Turn
  <1>6. Answered(u) = Turn(u) - 1 /\ Answered(u) + 1 = Turn(u) /\ Answered(u) < Turn(u)
    <2>1. Answered(u) = Len(order[u]) - Len(out[u])
      BY DEF Answered
    <2>2. \A a \in Nat, b \in Nat \ {0} : /\ a - b = (a - b + 1) - 1
                                           /\ a - b < a - b + 1
      OBVIOUS
    <2> QED
      BY <1>3, <1>4, <2>1, <2>2 DEF Turn
  <1>7. RowAt(u, Turn(u)).merchant \in Merchants
    BY <1>1, <1>5, OrderFacts
  <1>8. told[u][order[u][Answered(u) + 1]] = out[u][1]
    BY <1>1, <1>3 DEF UploadOK, OutOK
  <1>9. said[u][RowAt(u, Turn(u)).merchant] = None
    BY <1>5, <1>6 DEF UploadOK, NotSaidYet
  <1>10. Score(Head(out[u]).confidence) \in Nat
    BY <1>3 DEF Score, Entries, Confidences
  <1> QED
    BY <1>3, <1>5, <1>6, <1>7, <1>8, <1>9, <1>10

\* An answer is fanned out to the rows of its merchant, and recorded.
LEMMA RecordStep ==
    ASSUME LimitsAssumption, FileAssumption, NoneAssumption, TypeOK,
           NEW u \in Uploads, UploadOK(u), RecordAnswer(u)
    PROVE  TypeOK' /\ UploadOK(u)'
  <1> DEFINE k == Turn(u)
             m == RowAt(u, k).merchant
             answer == Head(out[u])
             n == Len(file[u])
             L == Len(order[u])
             newResults == [i \in DOMAIN file[u] |->
                               IF i \in Members(u, k) THEN answer ELSE results[u][i]]
  <1>1. pc[u] = "record" /\ Running(u)
    BY DEF RecordAnswer, Running
  <1>2. /\ results' = [results EXCEPT ![u] = newResults]
        /\ catalog' = [catalog EXCEPT ![m] = Recorded(catalog[m], answer)]
        /\ said' = IF Score(answer.confidence) < MinConfidence THEN said
                   ELSE [said EXCEPT ![u][m] = answer]
        /\ out' = [out EXCEPT ![u] = Tail(out[u])]
        /\ pc' = [pc EXCEPT ![u] = IF Len(out[u]) > 1 THEN "record" ELSE "save"]
        /\ UNCHANGED <<today, spent, byUploads, other, forced, row, order, usage, told, overlapped>>
    BY DEF RecordAnswer, Goto, Turn, costs
  <1>3. /\ k \in DOMAIN order[u] /\ k \in Nat /\ Answered(u) = k - 1
        /\ Len(out[u]) \in Nat \ {0}
        /\ m \in Merchants
        /\ answer \in Entries
        /\ answer = told[u][order[u][k]]
        /\ Score(answer.confidence) \in Nat
    BY <1>1, TurnFacts
  <1>4. /\ L \in Nat /\ DOMAIN order[u] = 1 .. L /\ row[u] = n + 1
        /\ n \in Nat /\ DOMAIN file[u] = 1 .. n
    BY <1>1, OrderFacts, FileFacts
  <1>5. \A l \in DOMAIN order[u] : l # k => RowAt(u, l).merchant # m
    BY <1>3 DEF UploadOK, OrderOK
  <1>6. answer # None
    <2>1. None \notin Entries
      BY NoneAssumption DEF NoneAssumption, Entries
    <2> QED
      BY <1>3, <2>1
  <1>7. /\ results'[u] = newResults /\ out'[u] = Tail(out[u])
        /\ pc'[u] = IF Len(out[u]) > 1 THEN "record" ELSE "save"
    BY <1>2 DEF TypeOK
  <1>8. \A i \in DOMAIN file[u] :
           newResults[i] = IF results[u][i] = None /\ file[u][i].merchant = m
                           THEN answer ELSE results[u][i]
    BY DEF Members
  <1>9. newResults \in Seq(Entries \cup {None}) /\ Len(newResults) = n
    <2>1. results[u] \in Seq(Entries \cup {None}) /\ Len(results[u]) = n
      BY <1>1 DEF TypeOK
    <2>2. \A i \in DOMAIN file[u] : results[u][i] \in Entries \cup {None}
      BY <1>4, <2>1
    <2>3. newResults \in [DOMAIN file[u] -> Entries \cup {None}]
      BY <1>3, <2>2
    <2> HIDE DEF newResults
    <2> QED
      BY <2>3, RowsOf
  <1>10. /\ out'[u] \in Seq(Entries)
         /\ Len(out'[u]) = Len(out[u]) - 1
         /\ \A l \in 1 .. Len(out'[u]) : out'[u][l] = out[u][l + 1]
    <2>1. out[u] \in Seq(Entries) /\ out[u] # <<>>
      BY <1>3 DEF TypeOK
    <2> QED
      BY <1>7, <2>1
  <1>11. \A x \in Merchants : x # m => catalog'[x] = catalog[x] /\ said'[u][x] = said[u][x]
    BY <1>2, <1>3 DEF TypeOK
  <1> HIDE DEF m, answer, newResults, n, L, k
  <1>12. /\ Answered(u)' = k
         /\ Running(u)' /\ pc'[u] \in {"record", "save"}
         /\ pc'[u] = "record" => out'[u] # <<>>
         /\ pc'[u] = "save" => out'[u] = <<>>
    <2>1. k = L - Len(out[u]) + 1
      BY DEF k, L, Turn
    <2>2. L - Len(out'[u]) = k
      BY <1>3, <1>4, <1>10, <2>1
    <2>3. order'[u] = order[u] /\ pc'[u] \in {"record", "save"}
      BY <1>2, <1>7
    <2>4. Answered(u)' = L - Len(out'[u])
      BY <2>3 DEF Answered, L
    <2>5. /\ pc'[u] = "record" => Len(out'[u]) > 0
          /\ pc'[u] = "save" => Len(out'[u]) = 0
      <3> DEFINE c == Len(out[u])
      <3>0. c \in Nat \ {0} /\ Len(out'[u]) = c - 1
        BY <1>3, <1>10
      <3> HIDE DEF c
      <3>1. c > 1 => Len(out'[u]) > 0
        BY ONLY <3>0
      <3>2. ~(c > 1) => Len(out'[u]) = 0
        BY ONLY <3>0
      <3>3. pc'[u] = IF c > 1 THEN "record" ELSE "save"
        BY <1>7 DEF c
      <3> QED
        BY <3>1, <3>2, <3>3
    <2>7. (Len(out'[u]) > 0 => out'[u] # <<>>) /\ (Len(out'[u]) = 0 => out'[u] = <<>>)
      <3>1. \A s \in Seq(Entries) : (Len(s) > 0 => s # <<>>) /\ (Len(s) = 0 => s = <<>>)
        OBVIOUS
      <3> QED
        BY <1>10, <3>1
    <2> QED
      BY <2>2, <2>3, <2>4, <2>5, <2>7 DEF Running
  <1>13. TypeOK'
    <2>1. \A v \in Uploads : Running(v)' => /\ Len(results'[v]) = Len(file[v])
                                             /\ Len(told'[v]) = Len(file[v])
      <3> SUFFICES ASSUME NEW v \in Uploads, Running(v)'
                   PROVE  Len(results'[v]) = Len(file[v]) /\ Len(told'[v]) = Len(file[v])
        OBVIOUS
      <3>1. CASE v = u
        BY <1>1, <1>2, <1>7, <1>9, <3>1 DEF TypeOK, n
      <3>2. CASE v # u
        BY <1>2, <3>2 DEF TypeOK, Running
      <3> QED
        BY <3>1, <3>2
    <2>2. catalog' \in [Merchants -> {None} \cup CatalogEntries]
      <3>1. catalog \in [Merchants -> {None} \cup CatalogEntries]
        BY DEF TypeOK, CatalogEntries
      <3>2. catalog[m] \in {None} \cup CatalogEntries
        BY <1>3, <3>1
      <3>3. Recorded(catalog[m], answer) \in {None} \cup CatalogEntries
        BY <1>3, <3>2, RecordedFacts
      <3> QED
        BY <1>2, <3>1, <3>3
    <2>3. said' \in [Uploads -> [Merchants -> Entries \cup {None}]]
      BY <1>2, <1>3 DEF TypeOK
    <2>4. out' \in [Uploads -> Seq(Entries)]
      BY <1>2, <1>7, <1>10 DEF TypeOK
    <2>5. results' \in [Uploads -> Seq(Entries \cup {None})]
      BY <1>2, <1>9 DEF TypeOK
    <2>6. pc' \in [Uploads -> {"idle", "lookup", "classify", "record", "save", "done"}]
      BY <1>2 DEF TypeOK
    <2>7. /\ today' \in 0 .. MaxDay /\ spent' \in Nat /\ byUploads' \in Nat
          /\ other' \in 0 .. MaxOther
          /\ forced' \in [Uploads -> BOOLEAN]
          /\ row' \in [Uploads -> Nat \ {0}]
          /\ usage' \in [Uploads -> 0 .. MaxCalls]
          /\ told' \in [Uploads -> Seq(Entries \cup {None})]
          /\ order' \in [Uploads -> Seq(Nat \ {0})]
          /\ overlapped' \subseteq Uploads
      BY <1>2 DEF TypeOK
    <2>8. catalog' \in [Merchants -> {None} \cup
                            [category : Categories, sum : Nat, count : Nat \ {0}]]
      BY <2>2 DEF CatalogEntries
    <2> QED
      BY <2>1, <2>3, <2>4, <2>5, <2>6, <2>7, <2>8, Zenon DEF TypeOK
  <1>14. StageOK(u)'
    <2>1. Len(out'[u]) <= Len(order'[u])
      <3>1. Len(out[u]) <= L
        BY <1>1 DEF UploadOK, StageOK, L
      <3>2. \A c \in Nat \ {0} : c <= L => c - 1 <= L
        BY <1>4
      <3>3. order'[u] = order[u]
        BY <1>2
      <3> QED
        BY <1>3, <1>10, <3>1, <3>2, <3>3 DEF L
    <2> QED
      BY <1>2, <1>4, <1>12, <2>1 DEF StageOK, n
  <1>15. OrderOK(u)'
    BY <1>2 DEF UploadOK, OrderOK, RowAt
  <1>16. NotSaidYet(u)'
    <2> SUFFICES ASSUME NEW l \in DOMAIN order[u], k < l
                 PROVE  said'[u][RowAt(u, l).merchant] = None
      BY <1>2, <1>12 DEF NotSaidYet, RowAt
    <2>1. l # k /\ Answered(u) < l
      BY <1>3, <1>4
    <2>2. RowAt(u, l).merchant # m /\ RowAt(u, l).merchant \in Merchants
      BY <1>1, <1>5, <2>1, OrderFacts
    <2> QED
      BY <1>11, <2>1, <2>2 DEF UploadOK, NotSaidYet
  <1>17. UsageOK(u)'
    BY <1>2, <1>12 DEF UploadOK, UsageOK
  <1>18. OutOK(u)'
    <2>1. \A l \in 1 .. Len(out'[u]) : told[u][order[u][k + l]] = out'[u][l]
      <3> SUFFICES ASSUME NEW l \in 1 .. Len(out'[u])
                   PROVE  told[u][order[u][k + l]] = out'[u][l]
        OBVIOUS
      <3>1. l + 1 \in 1 .. Len(out[u]) /\ Answered(u) + (l + 1) = k + l
        BY <1>3, <1>10
      <3>2. told[u][order[u][Answered(u) + (l + 1)]] = out[u][l + 1]
        BY <1>1, <3>1 DEF UploadOK, OutOK
      <3> QED
        BY <1>10, <3>1, <3>2
    <2>2. \A l \in 1 .. k : told[u][order[u][l]] # None
      <3>1. \A l \in 1 .. k : l = k \/ l \in 1 .. Answered(u)
        BY <1>3
      <3>2. \A l \in 1 .. Answered(u) : told[u][order[u][l]] # None
        BY <1>1 DEF UploadOK, OutOK
      <3> QED
        BY <1>3, <1>6, <3>1, <3>2
    <2> QED
      BY <1>2, <1>12, <2>1, <2>2 DEF OutOK
  <1>19. ResultsOK(u)'
    <2> SUFFICES ASSUME NEW i \in DOMAIN file[u]
                 PROVE  \/ newResults[i] # None /\ newResults[i].source = "cache"
                        \/ \E l \in DOMAIN order[u] :
                              /\ RowAt(u, l).merchant = file[u][i].merchant
                              /\ order[u][l] <= i
                              /\ newResults[i] = IF l <= k THEN told[u][order[u][l]] ELSE None
      <3>1. \A i \in DOMAIN file[u] : ~(i >= row[u])
        BY <1>4
      <3> QED
        BY <1>2, <1>7, <1>12, <3>1 DEF ResultsOK, RowAt
    <2>1. ~(i >= row[u])
      BY <1>4
    <2>2. \/ results[u][i] # None /\ results[u][i].source = "cache"
          \/ \E l \in DOMAIN order[u] :
                /\ RowAt(u, l).merchant = file[u][i].merchant
                /\ order[u][l] <= i
                /\ results[u][i] = IF l <= Answered(u) THEN told[u][order[u][l]] ELSE None
      BY <1>1, <2>1 DEF UploadOK, ResultsOK
    <2>3. CASE results[u][i] # None /\ results[u][i].source = "cache"
      BY <1>8, <2>3
    <2>4. CASE \E l \in DOMAIN order[u] :
                /\ RowAt(u, l).merchant = file[u][i].merchant
                /\ order[u][l] <= i
                /\ results[u][i] = IF l <= Answered(u) THEN told[u][order[u][l]] ELSE None
      <3>1. PICK l \in DOMAIN order[u] :
                /\ RowAt(u, l).merchant = file[u][i].merchant
                /\ order[u][l] <= i
                /\ results[u][i] = IF l <= Answered(u) THEN told[u][order[u][l]] ELSE None
        BY <2>4
      <3>2. newResults[i] = IF l <= k THEN told[u][order[u][l]] ELSE None
        <4>1. CASE l <= Answered(u)
          <5>1. l \in 1 .. Answered(u) /\ l <= k
            BY <1>3, <1>4, <4>1
          <5>2. told[u][order[u][l]] # None
            BY <1>1, <5>1 DEF UploadOK, OutOK
          <5> QED
            BY <1>8, <3>1, <4>1, <5>1, <5>2
        <4>2. CASE l = k
          <5>1. ~(l <= Answered(u)) /\ l <= k
            BY <1>3, <4>2
          <5>2. file[u][i].merchant = m /\ results[u][i] = None
            BY <3>1, <4>2, <5>1 DEF m
          <5> QED
            BY <1>3, <1>8, <4>2, <5>1, <5>2
        <4>3. CASE l > k
          <5>1. ~(l <= Answered(u)) /\ ~(l <= k) /\ l # k
            BY <1>3, <1>4, <4>3
          <5>2. file[u][i].merchant # m /\ results[u][i] = None
            BY <1>5, <3>1, <5>1
          <5> QED
            BY <1>8, <5>1, <5>2
        <4>4. l <= Answered(u) \/ l = k \/ l > k
          BY <1>3, <1>4
        <4> QED
          BY <4>1, <4>2, <4>3, <4>4
      <3> QED
        BY <3>1, <3>2
    <2> QED
      BY <2>2, <2>3, <2>4
  <1>20. ASSUME u \notin overlapped'
         PROVE  CatalogUnchanged(u)'
    <2>1. CatalogUnchanged(u)
      BY <1>1, <1>2, <1>20 DEF UploadOK
    <2>2. \A i, j \in DOMAIN file[u] :
             file[u][i].merchant = file[u][j].merchant => results[u][i] = results[u][j]
      BY <1>1, <2>1 DEF CatalogUnchanged
    <2>3. \A i, j \in DOMAIN file[u] :
             file[u][i].merchant = file[u][j].merchant => results'[u][i] = results'[u][j]
      BY <1>7, <1>8, <2>2
    <2>4. \A l \in DOMAIN order[u] : k < l => ~IsConfident(catalog'[RowAt(u, l).merchant])
      <3> SUFFICES ASSUME NEW l \in DOMAIN order[u], k < l
                   PROVE  ~IsConfident(catalog'[RowAt(u, l).merchant])
        OBVIOUS
      <3>1. l # k /\ Answered(u) < l
        BY <1>3, <1>4
      <3>2. RowAt(u, l).merchant # m /\ RowAt(u, l).merchant \in Merchants
        BY <1>1, <1>5, <3>1, OrderFacts
      <3>3. ~IsConfident(catalog[RowAt(u, l).merchant])
        BY <2>1, <3>1 DEF CatalogUnchanged
      <3> QED
        BY <1>11, <3>2, <3>3
    <2>5. ~(pc'[u] \in {"lookup", "classify"})
      BY <1>12
    <2>6. \A l \in DOMAIN order'[u] :
             Answered(u)' < l => ~IsConfident(catalog'[RowAt(u, l)'.merchant])
      BY <1>2, <1>12, <2>4 DEF RowAt
    <2> QED
      BY <2>3, <2>5, <2>6, Zenon DEF CatalogUnchanged, IsConfident
  <1> QED
    BY <1>12, <1>13, <1>14, <1>15, <1>16, <1>17, <1>18, <1>19, <1>20 DEF UploadOK
------------------------------------------------------------------------------
\* The types after an upload has returned.
LEMMA ReturnedTypes ==
    ASSUME TypeOK, NEW u \in Uploads, Return(u), LimitsAssumption,
           UNCHANGED <<catalog, today, other, said, overlapped>>,
           spent' \in Nat, byUploads' \in Nat
    PROVE  TypeOK'
  <1>1. /\ pc' = [pc EXCEPT ![u] = "done"]
        /\ forced' = [forced EXCEPT ![u] = FALSE]
        /\ results' = [results EXCEPT ![u] = <<>>]
        /\ row' = [row EXCEPT ![u] = 1]
        /\ order' = [order EXCEPT ![u] = <<>>]
        /\ out' = [out EXCEPT ![u] = <<>>]
        /\ usage' = [usage EXCEPT ![u] = 0]
        /\ told' = [told EXCEPT ![u] = <<>>]
    BY DEF Return, Goto
  <1>2. \A v \in Uploads : Running(v)' => /\ Len(results'[v]) = Len(file[v])
                                           /\ Len(told'[v]) = Len(file[v])
    <2> SUFFICES ASSUME NEW v \in Uploads, Running(v)'
                 PROVE  Len(results'[v]) = Len(file[v]) /\ Len(told'[v]) = Len(file[v])
      OBVIOUS
    <2>1. v # u
      BY <1>1 DEF TypeOK, Running
    <2> QED
      BY <1>1, <2>1 DEF TypeOK, Running
  <1>3. pc' \in [Uploads -> {"idle", "lookup", "classify", "record", "save", "done"}]
    BY <1>1 DEF TypeOK
  <1>4. forced' \in [Uploads -> BOOLEAN]
    BY <1>1, Zenon DEF TypeOK
  <1>5. row' \in [Uploads -> Nat \ {0}]
    BY <1>1 DEF TypeOK
  <1>6. usage' \in [Uploads -> 0 .. MaxCalls]
    BY <1>1 DEF TypeOK, LimitsAssumption
  <1>7. \A S : <<>> \in Seq(S)
    OBVIOUS
  <1>8. results' \in [Uploads -> Seq(Entries \cup {None})]
    BY <1>1, <1>7 DEF TypeOK
  <1>9. told' \in [Uploads -> Seq(Entries \cup {None})]
    BY <1>1, <1>7 DEF TypeOK
  <1>10. order' \in [Uploads -> Seq(Nat \ {0})]
    BY <1>1, <1>7 DEF TypeOK
  <1>11. out' \in [Uploads -> Seq(Entries)]
    BY <1>1, <1>7 DEF TypeOK
  <1> QED
    BY <1>2, <1>3, <1>4, <1>5, <1>6, <1>8, <1>9, <1>10, <1>11 DEF TypeOK

\* What recording or giving up does to its own upload and to the types.
LEMMA OwnStep ==
    ASSUME LimitsAssumption, FileAssumption, NoneAssumption, CategoriesAssumption,
           RepliesAssumption, TypeOK, NEW u \in Uploads, UploadOK(u), Upload(u)
    PROVE  TypeOK' /\ UploadOK(u)'
  <1>1. CASE RecordCost(u)
    <2>1. Return(u) /\ UNCHANGED <<catalog, today, other, said, overlapped>>
      BY <1>1 DEF RecordCost
    <2>2. spent' \in Nat /\ byUploads' \in Nat
      <3>1. PICK written \in {0, usage[u]} :
               spent' = spent + written /\ byUploads' = byUploads + written
        BY <1>1 DEF RecordCost
      <3>2. written \in Nat
        BY LimitsAssumption DEF TypeOK, LimitsAssumption
      <3> QED
        BY <3>1, <3>2 DEF TypeOK
    <2> QED
      BY <2>1, <2>2, ReturnedTypes, Returned
  <1>2. CASE Fail(u)
    <2>1. Return(u) /\ UNCHANGED <<catalog, today, other, said, overlapped>>
          /\ spent' = spent /\ byUploads' = byUploads
      BY <1>2 DEF Fail, costs
    <2>2. spent' \in Nat /\ byUploads' \in Nat
      BY <2>1 DEF TypeOK
    <2> QED
      BY <2>1, <2>2, ReturnedTypes, Returned
  <1> QED
    BY <1>1, <1>2, GuardStep, LookupStep, ClassifyStep, RecordStep DEF Upload

\* A step of one upload leaves what the others hold, and only recording an answer
\* changes the catalog they read.
LEMMA StepOfAnother ==
    ASSUME TypeOK, NEW u \in Uploads, Upload(u), NEW v \in Uploads, v # u
    PROVE  /\ pc'[v] = pc[v] /\ forced'[v] = forced[v] /\ results'[v] = results[v]
           /\ row'[v] = row[v] /\ order'[v] = order[v] /\ out'[v] = out[v]
           /\ usage'[v] = usage[v] /\ told'[v] = told[v] /\ said'[v] = said[v]
           /\ overlapped \subseteq overlapped'
           /\ RecordAnswer(u) \/ catalog' = catalog
  <1> USE DEF Goto, costs, TypeOK
  <1>1. CASE Guard(u)
    BY <1>1 DEF Guard
  <1>2. CASE Lookup(u)
    BY <1>2 DEF Lookup
  <1>3. CASE ClassifyByRule(u)
    BY <1>3 DEF ClassifyByRule, Classified
  <1>4. CASE ClassifyByModel(u)
    BY <1>4 DEF ClassifyByModel, Classified
  <1>5. CASE FallBack(u)
    BY <1>5 DEF FallBack, Classified
  <1>6. CASE RecordAnswer(u)
    BY <1>6 DEF RecordAnswer
  <1>7. CASE RecordCost(u)
    BY <1>7 DEF RecordCost, Return
  <1>8. CASE Fail(u)
    BY <1>8 DEF Fail, Return
  <1> QED
    BY <1>1, <1>2, <1>3, <1>4, <1>5, <1>6, <1>7, <1>8 DEF Upload

\* Every upload keeps what holds of it.
LEMMA UploadsStep ==
    ASSUME LimitsAssumption, FileAssumption, NoneAssumption, CategoriesAssumption,
           RepliesAssumption, IInv, NEW u \in Uploads, Upload(u)
    PROVE  TypeOK' /\ (\A v \in Uploads : UploadOK(v))'
  <1>1. TypeOK /\ (\A v \in Uploads : UploadOK(v)) /\ OverlapKnown
    BY DEF IInv
  <1>2. TypeOK' /\ UploadOK(u)'
    BY <1>1, OwnStep
  <1>3. ASSUME NEW v \in Uploads, v # u
        PROVE  UploadOK(v)'
    <2>1. catalog' = catalog \/ ~Running(v) \/ v \in overlapped'
      <3>1. RecordAnswer(u) => Running(u)
        BY DEF RecordAnswer, Running
      <3>2. RecordAnswer(u) /\ Running(v) => v \in overlapped
        BY <1>1, <1>3, <3>1 DEF OverlapKnown
      <3> QED
        BY <1>1, <1>3, <3>2, StepOfAnother
    <2>2. UploadOK(v)
      BY <1>1
    <2>3. /\ pc'[v] = pc[v] /\ forced'[v] = forced[v] /\ results'[v] = results[v]
          /\ row'[v] = row[v] /\ order'[v] = order[v] /\ out'[v] = out[v]
          /\ usage'[v] = usage[v] /\ told'[v] = told[v] /\ said'[v] = said[v]
          /\ v \in overlapped => v \in overlapped'
      BY <1>1, <1>3, StepOfAnother
    <2> QED
      BY <2>1, <2>2, <2>3, Frame
  <1> QED
    BY <1>2, <1>3

\* An upload that begins beside others puts them and itself on record.
LEMMA OverlapStep ==
    ASSUME TypeOK, OverlapKnown, NEW u \in Uploads, Upload(u)
    PROVE  OverlapKnown'
  <1> SUFFICES ASSUME NEW v \in Uploads, NEW w \in Uploads, v # w, Running(v)', Running(w)'
               PROVE  v \in overlapped'
    BY DEF OverlapKnown
  <1>1. \A x \in Uploads : x # u => (Running(x)' <=> Running(x))
    BY StepOfAnother DEF Running
  <1>2. overlapped \subseteq overlapped'
    BY DEF Upload, Guard, Lookup, ClassifyByRule, ClassifyByModel, FallBack, RecordAnswer,
           RecordCost, Fail
  <1>3. CASE Running(u)
    BY <1>1, <1>2, <1>3 DEF OverlapKnown
  <1>4. CASE ~Running(u)
    <2>1. Guard(u)
      BY <1>4 DEF Upload, Lookup, ClassifyByRule, ClassifyByModel, FallBack, RecordAnswer,
                  RecordCost, Fail, Running
    <2>2. CASE v # u /\ w # u
      BY <1>1, <1>2, <2>2 DEF OverlapKnown
    <2>3. CASE v = u \/ w = u
      <3>1. PICK x \in Uploads : x # u /\ Running(x) /\ v \in {x, u}
        BY <1>1, <2>3
      <3> QED
        BY <2>1, <3>1 DEF Guard
    <2> QED
      BY <2>2, <2>3
  <1> QED
    BY <1>3, <1>4
------------------------------------------------------------------------------
\* What an upload says of a merchant it says once, so that a sample more in the
\* catalog is an upload more.
LEMMA SamplesStep ==
    ASSUME LimitsAssumption, FileAssumption, NoneAssumption, UploadsAssumption, IInv,
           NEW u \in Uploads, RecordAnswer(u)
    PROVE  SamplesAreUploads'
  <1> DEFINE k == Turn(u)
             m == RowAt(u, k).merchant
             answer == Head(out[u])
             Said(x, c) == {v \in Uploads : said[v][x] # None /\ said[v][x].category = c}
             SaidNext(x, c) == {v \in Uploads : said'[v][x] # None /\ said'[v][x].category = c}
  <1>1. TypeOK /\ UploadOK(u) /\ SamplesAreUploads
    BY DEF IInv
  <1>2. pc[u] = "record"
    BY DEF RecordAnswer
  <1>3. /\ m \in Merchants
        /\ answer \in Entries
        /\ said[u][m] = None
        /\ Score(answer.confidence) \in Nat
    BY <1>1, <1>2, TurnFacts
  <1>4. /\ catalog' = [catalog EXCEPT ![m] = Recorded(catalog[m], answer)]
        /\ said' = IF Score(answer.confidence) < MinConfidence THEN said
                   ELSE [said EXCEPT ![u][m] = answer]
    BY DEF RecordAnswer, Turn
  <1>5. answer # None
    BY <1>3, NoneAssumption DEF NoneAssumption, Entries
  <1>6. catalog[m] \in {None} \cup CatalogEntries /\ catalog \in [Merchants -> {None} \cup CatalogEntries]
    BY <1>1, <1>3 DEF TypeOK, CatalogEntries
  <1>7. said \in [Uploads -> [Merchants -> Entries \cup {None}]]
    BY <1>1 DEF TypeOK
  <1> HIDE DEF k, m, answer
  <1>8. \A x \in Merchants, c \in Categories : /\ IsFiniteSet(Said(x, c))
                                               /\ IsFiniteSet(SaidNext(x, c))
    <2> SUFFICES ASSUME NEW x \in Merchants, NEW c \in Categories
                 PROVE  IsFiniteSet(Said(x, c)) /\ IsFiniteSet(SaidNext(x, c))
      OBVIOUS
    <2>1. Said(x, c) \subseteq Uploads /\ SaidNext(x, c) \subseteq Uploads
      OBVIOUS
    <2> HIDE DEF Said, SaidNext
    <2> QED
      BY <2>1, FS_Subset, UploadsAssumption DEF UploadsAssumption
  <1>9. ASSUME NEW x \in Merchants, catalog'[x] # None
        PROVE  catalog'[x].count <= Cardinality(SaidNext(x, catalog'[x].category))
    <2>1. CASE x # m \/ Score(answer.confidence) < MinConfidence
      <3>1. catalog'[x] = catalog[x]
        BY <1>3, <1>4, <1>6, <2>1, RecordedFacts
      <3>2. \A v \in Uploads : said'[v][x] = said[v][x]
        BY <1>3, <1>4, <1>7, <2>1
      <3>3. SaidNext(x, catalog[x].category) = Said(x, catalog[x].category)
        BY <3>2
      <3>4. catalog[x].count <= Cardinality(Said(x, catalog[x].category))
        BY <1>1, <1>9, <3>1 DEF SamplesAreUploads
      <3> QED
        BY <3>1, <3>3, <3>4
    <2>2. CASE x = m /\ Score(answer.confidence) >= MinConfidence
      <3> DEFINE c == answer.category
      <3>1. /\ catalog'[m] = Recorded(catalog[m], answer)
            /\ said'[u][m] = answer
            /\ \A v \in Uploads : v # u => said'[v][m] = said[v][m]
        <4>1. ~(Score(answer.confidence) < MinConfidence)
          BY <1>3, <2>2, LimitsAssumption DEF LimitsAssumption
        <4> QED
          BY <1>3, <1>4, <1>6, <1>7, <4>1
      <3>2. /\ catalog'[m].category = c
            /\ \/ catalog'[m].count = 1
               \/ /\ catalog[m] # None
                  /\ catalog[m].category = c
                  /\ catalog'[m].count = catalog[m].count + 1
        BY <1>3, <1>6, <2>2, <3>1, RecordedFacts
      <3>3. u \in SaidNext(m, c) /\ u \notin Said(m, c)
        BY <1>3, <1>5, <3>1
      <3>4. SaidNext(m, c) = Said(m, c) \cup {u}
        BY <3>1, <3>3
      <3>5. c \in Categories
        BY <1>3 DEF Entries
      <3>6. IsFiniteSet(Said(m, c)) /\ IsFiniteSet(SaidNext(m, c))
        BY <1>3, <1>8, <3>5
      <3>7. catalog[m] # None => catalog[m].count <= Cardinality(Said(m, catalog[m].category))
        BY <1>1, <1>3 DEF SamplesAreUploads
      <3> HIDE DEF Said, SaidNext, c
      <3>8. /\ Cardinality(Said(m, c)) \in Nat
            /\ Cardinality(SaidNext(m, c)) = Cardinality(Said(m, c)) + 1
        BY <3>3, <3>4, <3>6, FS_AddElement, FS_CardinalityType
      <3>9. catalog[m] # None => catalog[m].count \in Nat
        BY <1>6 DEF CatalogEntries
      <3>10. catalog'[m].count <= Cardinality(SaidNext(m, c))
        BY <3>2, <3>7, <3>8, <3>9
      <3> QED
        BY <2>2, <3>2, <3>10
    <2>3. x = m => (Score(answer.confidence) < MinConfidence
                      \/ Score(answer.confidence) >= MinConfidence)
      BY <1>3, LimitsAssumption DEF LimitsAssumption
    <2> QED
      BY <2>1, <2>2, <2>3
  <1> QED
    BY <1>9 DEF SamplesAreUploads

\* Products grow with their factors.
LEMMA Monotonic ==
    ASSUME NEW c \in Nat, NEW a \in Nat, NEW b \in Nat, a <= b
    PROVE  c * a <= c * b /\ c * a \in Nat /\ c * b \in Nat /\ c * (a + 1) = c * a + c
  <1>1. PICK d \in Nat : b = a + d
    <2>1. b - a \in Nat /\ b = a + (b - a)
      OBVIOUS
    <2> QED
      BY <2>1
  <1>2. c * (a + d) = c * a + c * d /\ c * a \in Nat /\ c * d \in Nat /\ c * (a + 1) = c * a + c
    OBVIOUS
  <1> QED
    BY <1>1, <1>2

\* The uploads that run, and among them those that may spend.
RunningUploads == {u \in Uploads : Running(u)}

LEMMA SpendingFacts ==
    ASSUME NEW Running1, NEW Spending1, IsFiniteSet(Uploads),
           Running1 \subseteq Uploads, Spending1 \subseteq Running1
    PROVE  /\ IsFiniteSet(Running1)
           /\ IsFiniteSet(Spending1)
           /\ Cardinality(Running1) \in Nat
           /\ Cardinality(Spending1) \in Nat
           /\ Cardinality(Spending1) <= Cardinality(Running1)
  BY FS_Subset, FS_CardinalityType

\* The day's record, with what may still come, stays under the bound: an upload is let
\* through unforced only while the record is under the cap, and brings its own calls.
LEMMA SpendingStep ==
    ASSUME LimitsAssumption, UploadsAssumption, IInv, NEW u \in Uploads, Upload(u)
    PROVE  SpendingOK'
  <1> DEFINE R == RunningUploads
             S == Spending
  <1>1. TypeOK /\ UploadOK(u) /\ SpendingOK
    BY DEF IInv
  <1>2. /\ MaxCalls \in Nat /\ MaxAtOnce \in Nat /\ DayCap \in Nat
        /\ spent \in Nat /\ byUploads \in Nat
        /\ usage[u] \in 0 .. MaxCalls
    BY <1>1 DEF TypeOK, LimitsAssumption
  <1>3. /\ IsFiniteSet(R) /\ IsFiniteSet(S)
        /\ Cardinality(R) \in Nat /\ Cardinality(S) \in Nat
        /\ Cardinality(S) <= Cardinality(R)
        /\ R \subseteq Uploads
    <2>1. R \subseteq Uploads /\ S \subseteq R
      BY DEF RunningUploads, Spending
    <2> QED
      BY <2>1, SpendingFacts, UploadsAssumption DEF UploadsAssumption
  <1>4. /\ IsFiniteSet(R') /\ IsFiniteSet(S')
        /\ Cardinality(R') \in Nat /\ Cardinality(S') \in Nat
        /\ Cardinality(S') <= Cardinality(R')
    <2>1. R' \subseteq Uploads /\ S' \subseteq R'
      BY DEF RunningUploads, Spending
    <2> QED
      BY <2>1, SpendingFacts, UploadsAssumption DEF UploadsAssumption
  <1>5. /\ byUploads <= spent
        /\ Cardinality(R) <= MaxAtOnce
        /\ DayCap > 0 => byUploads + MaxCalls * Cardinality(S) <= DayCap - 1 + MaxAtOnce * MaxCalls
    BY <1>1 DEF SpendingOK, RunningUploads
  <1>6. \A v \in Uploads : v # u => /\ (v \in R' <=> v \in R)
                                  /\ (v \in S' <=> v \in S)
    BY <1>1, StepOfAnother DEF RunningUploads, Spending, Running
  <1>7. u \in R <=> Running(u)
    BY DEF RunningUploads
  <1>8. u \in S <=> Running(u) /\ ~forced[u]
    BY DEF Spending
  <1>9. u \in R' <=> Running(u)'
    BY DEF RunningUploads
  <1>10. u \in S' <=> Running(u)' /\ ~forced'[u]
    BY DEF Spending
  <1>11. S \subseteq Uploads /\ S' \subseteq Uploads /\ R' \subseteq Uploads
    BY DEF Spending, RunningUploads
  <1> SUFFICES /\ byUploads' <= spent'
               /\ Cardinality(R') <= MaxAtOnce
               /\ DayCap > 0 => byUploads' + MaxCalls * Cardinality(S')
                                   <= DayCap - 1 + MaxAtOnce * MaxCalls
    BY DEF SpendingOK, RunningUploads
  <1> HIDE DEF R, S
  <1>12. CASE Guard(u)
    <2>1. /\ Cardinality(R) < MaxAtOnce
          /\ ~Running(u) /\ Running(u)'
          /\ byUploads' = byUploads /\ spent' = spent
          /\ ~forced'[u] => ~OverDay(spent)
      BY <1>1, <1>12 DEF Guard, RunningUploads, Running, Goto, costs, TypeOK, R
    <2>2. R' = R \cup {u} /\ u \notin R
      BY <1>3, <1>6, <1>7, <1>9, <1>11, <2>1
    <2>3. Cardinality(R') = Cardinality(R) + 1
      BY <1>3, <2>2, FS_AddElement
    <2>4. Cardinality(R') <= MaxAtOnce
      BY <1>2, <1>3, <2>1, <2>3
    <2>5. CASE forced'[u]
      <3>1. S' = S
        BY <1>6, <1>8, <1>10, <1>11, <2>1, <2>5
      <3> QED
        BY <1>5, <2>1, <2>4, <3>1
    <2>6. CASE ~forced'[u]
      <3>1. DayCap > 0 => byUploads <= DayCap - 1
        <4>1. DayCap > 0 => ~(spent >= DayCap)
          BY <2>1, <2>6 DEF OverDay
        <4> QED
          BY <1>2, <1>5, <4>1
      <3>2. Cardinality(S') <= MaxAtOnce
        BY <1>2, <1>4, <2>4
      <3>3. MaxCalls * Cardinality(S') <= MaxCalls * MaxAtOnce
        BY <1>2, <1>4, <3>2, Monotonic
      <3>4. MaxCalls * MaxAtOnce = MaxAtOnce * MaxCalls /\ MaxAtOnce * MaxCalls \in Nat
            /\ MaxCalls * Cardinality(S') \in Nat
        BY <1>2, <1>4
      <3> QED
        BY <1>2, <1>5, <2>1, <2>4, <3>1, <3>3, <3>4
    <2> QED
      BY <2>5, <2>6
  <1>13. CASE Lookup(u) \/ ClassifyByRule(u) \/ ClassifyByModel(u) \/ FallBack(u) \/ RecordAnswer(u)
    <2>1. /\ Running(u) /\ Running(u)' /\ forced' = forced
          /\ byUploads' = byUploads /\ spent' = spent
      BY <1>1, <1>13 DEF Lookup, ClassifyByRule, ClassifyByModel, FallBack, RecordAnswer, Classified,
                  Running, Goto, costs, TypeOK
    <2>2. R' = R /\ S' = S
      BY <1>3, <1>6, <1>7, <1>8, <1>9, <1>10, <1>11, <2>1
    <2> QED
      BY <1>5, <2>1, <2>2
  <1>14. CASE RecordCost(u) \/ Fail(u)
    <2>1. Running(u) /\ Return(u)
      BY <1>14 DEF RecordCost, Fail, Running
    <2>2. ~Running(u)'
      BY <1>1, <2>1 DEF Return, Goto, Running, TypeOK
    <2>3. R' \subseteq R /\ S' = S \ {u}
      BY <1>6, <1>9, <1>10, <1>11, <2>2
    <2>4. Cardinality(R') <= MaxAtOnce
      <3>1. Cardinality(R') <= Cardinality(R)
        BY <1>3, <2>3, FS_Subset
      <3> QED
        BY <1>2, <1>3, <1>4, <1>5, <3>1
    <2>5. PICK written \in {0, usage[u]} :
             /\ spent' = spent + written
             /\ byUploads' = byUploads + written
      <3>1. CASE RecordCost(u)
        BY <3>1 DEF RecordCost
      <3>2. CASE Fail(u)
        <4>1. spent' = spent + 0 /\ byUploads' = byUploads + 0
          BY <1>2, <3>2 DEF Fail, costs
        <4> QED
          BY <4>1
      <3> QED
        BY <1>14, <3>1, <3>2
    <2>6. written \in Nat /\ written <= MaxCalls /\ (forced[u] => written = 0)
      <3>1. forced[u] => usage[u] = 0
        BY <1>1 DEF UploadOK, UsageOK
      <3> QED
        BY <1>2, <2>5, <3>1
    <2>7. byUploads' <= spent'
      BY <1>2, <1>5, <2>5, <2>6
    <2>8. CASE u \in S
      <3>1. Cardinality(S) = Cardinality(S') + 1
        BY <1>3, <1>4, <2>3, <2>8, FS_RemoveElement
      <3>2. MaxCalls * Cardinality(S) = MaxCalls * Cardinality(S') + MaxCalls
            /\ MaxCalls * Cardinality(S') \in Nat /\ MaxAtOnce * MaxCalls \in Nat
        BY <1>2, <1>4, <3>1
      <3> QED
        BY <1>2, <1>5, <2>4, <2>5, <2>6, <2>7, <3>2
    <2>9. CASE u \notin S
      <3>1. S' = S
        BY <2>3, <2>9
      <3>2. written = 0
        BY <1>8, <2>1, <2>6, <2>9
      <3> QED
        BY <1>2, <1>5, <2>4, <2>5, <2>7, <3>1, <3>2
    <2> QED
      BY <2>8, <2>9
  <1> QED
    BY <1>12, <1>13, <1>14 DEF Upload
------------------------------------------------------------------------------
LEMMA InitOK ==
    ASSUME LimitsAssumption, UploadsAssumption, Init
    PROVE  IInv
  <1> USE DEF Init
  <1>1. \A u \in Uploads : ~Running(u)
    BY DEF Running
  <1>2. \A S : <<>> \in Seq(S)
    OBVIOUS
  <1>3. TypeOK
    <2>1. forced \in [Uploads -> BOOLEAN]
      OBVIOUS
    <2>2. /\ today \in 0 .. MaxDay /\ spent \in Nat /\ byUploads \in Nat /\ other \in 0 .. MaxOther
          /\ usage \in [Uploads -> 0 .. MaxCalls]
      BY DEF LimitsAssumption
    <2>3. /\ results \in [Uploads -> Seq(Entries \cup {None})]
          /\ told \in [Uploads -> Seq(Entries \cup {None})]
          /\ order \in [Uploads -> Seq(Nat \ {0})]
          /\ out \in [Uploads -> Seq(Entries)]
      BY <1>2
    <2> QED
      BY <1>1, <2>1, <2>2, <2>3 DEF TypeOK
  <1>4. ASSUME NEW u \in Uploads
        PROVE  UploadOK(u)
    <2>1. StageOK(u)
      BY DEF StageOK
    <2>2. OrderOK(u)
      BY DEF OrderOK
    <2>3. NotSaidYet(u)
      BY DEF NotSaidYet
    <2>4. UsageOK(u)
      BY DEF UsageOK
    <2> QED
      BY <1>1, <2>1, <2>2, <2>3, <2>4 DEF UploadOK
  <1>5. OverlapKnown
    BY <1>1 DEF OverlapKnown
  <1>6. SamplesAreUploads
    BY DEF SamplesAreUploads
  <1>7. SpendingOK
    <2>1. {u \in Uploads : Running(u)} = {} /\ Spending = {}
      BY <1>1 DEF Spending
    <2>2. Cardinality({}) = 0
      BY FS_EmptySet
    <2>3. MaxCalls * 0 = 0 /\ MaxAtOnce * MaxCalls \in Nat /\ MaxAtOnce \in Nat /\ DayCap \in Nat
      BY DEF LimitsAssumption
    <2>4. byUploads = 0 /\ spent = 0
      OBVIOUS
    <2>5. DayCap > 0 => 0 + MaxCalls * 0 <= DayCap - 1 + MaxAtOnce * MaxCalls
      BY <2>3
    <2>6. /\ Cardinality({u \in Uploads : Running(u)}) <= MaxAtOnce
          /\ DayCap > 0 => byUploads + MaxCalls * Cardinality(Spending)
                              <= DayCap - 1 + MaxAtOnce * MaxCalls
      <3>1. 0 <= MaxAtOnce
        BY <2>3
      <3>2. /\ Cardinality({u \in Uploads : Running(u)}) = 0
            /\ Cardinality(Spending) = 0
        BY ONLY <2>1, <2>2, Zenon
      <3> QED
        BY ONLY <2>4, <2>5, <3>1, <3>2
    <2>7. byUploads <= spent
      BY ONLY <2>4
    <2> QED
      BY <2>6, <2>7 DEF SpendingOK
  <1> QED
    BY <1>3, <1>4, <1>5, <1>6, <1>7 DEF IInv

\* The costs of other features and midnight touch the log alone.
LEMMA LogStep ==
    ASSUME LimitsAssumption, UploadsAssumption, IInv, OtherCost \/ NextDay
    PROVE  IInv'
  <1>1. TypeOK /\ (\A u \in Uploads : UploadOK(u)) /\ OverlapKnown /\ SamplesAreUploads /\ SpendingOK
    BY DEF IInv
  <1>2. UNCHANGED <<catalog, pc, forced, results, row, order, out, usage, told, said, overlapped>>
    BY DEF OtherCost, NextDay, locals
  <1>3. /\ \/ byUploads' = byUploads /\ spent' = spent + 1
           \/ byUploads' = 0 /\ spent' = 0
        /\ today' \in 0 .. MaxDay /\ other' \in 0 .. MaxOther
    BY <1>1, LimitsAssumption DEF OtherCost, NextDay, TypeOK, LimitsAssumption
  <1>4. TypeOK'
    <2>1. spent' \in Nat /\ byUploads' \in Nat
      BY <1>1, <1>3 DEF TypeOK
    <2> QED
      BY <1>1, <1>2, <1>3, <2>1 DEF TypeOK, Running
  <1>5. ASSUME NEW u \in Uploads
        PROVE  UploadOK(u)'
    BY <1>1, <1>2, Frame
  <1>6. OverlapKnown'
    BY <1>1, <1>2 DEF OverlapKnown, Running
  <1>7. SamplesAreUploads'
    BY <1>1, <1>2 DEF SamplesAreUploads
  <1>8. SpendingOK'
    <2> DEFINE R == {u \in Uploads : Running(u)}
               c == Cardinality(Spending)
    <2>1. R' = R /\ Spending' = Spending
      BY <1>2 DEF Spending, Running
    <2>2. R \subseteq Uploads /\ Spending \subseteq R
      BY DEF Spending
    <2>3. /\ byUploads <= spent /\ Cardinality(R) <= MaxAtOnce
          /\ DayCap > 0 => byUploads + MaxCalls * c <= DayCap - 1 + MaxAtOnce * MaxCalls
      BY <1>1 DEF SpendingOK
    <2> HIDE DEF R
    <2>4. c \in Nat /\ Cardinality(R) \in Nat /\ c <= Cardinality(R)
      BY <2>2, SpendingFacts, UploadsAssumption DEF UploadsAssumption
    <2>5. /\ MaxCalls \in Nat /\ MaxAtOnce \in Nat /\ DayCap \in Nat
          /\ byUploads \in Nat /\ spent \in Nat
      BY <1>1 DEF LimitsAssumption, TypeOK
    <2>6. c <= MaxAtOnce
      BY <2>3, <2>4, <2>5
    <2>7. MaxCalls * c <= MaxCalls * MaxAtOnce
      BY <2>4, <2>5, <2>6, Monotonic
    <2>8. MaxCalls * MaxAtOnce = MaxAtOnce * MaxCalls /\ MaxCalls * c \in Nat
          /\ MaxAtOnce * MaxCalls \in Nat
      BY <2>4, <2>5
    <2>9. Cardinality(R') <= MaxAtOnce /\ Cardinality(Spending') = c
      BY <2>1, <2>3
    <2> HIDE DEF c
    <2>10. byUploads' <= spent'
      BY <1>3, <2>3, <2>5
    <2>11. DayCap > 0 => byUploads' + MaxCalls * c <= DayCap - 1 + MaxAtOnce * MaxCalls
      BY <1>3, <2>3, <2>5, <2>7, <2>8
    <2> QED
      BY <2>9, <2>10, <2>11 DEF SpendingOK, R
  <1> QED
    BY <1>4, <1>5, <1>6, <1>7, <1>8 DEF IInv

LEMMA NextOK ==
    ASSUME LimitsAssumption, UploadsAssumption, NoneAssumption, CategoriesAssumption,
           FileAssumption, RepliesAssumption, IInv, [Next]_vars
    PROVE  IInv'
  <1>1. ASSUME NEW u \in Uploads, Upload(u)
        PROVE  IInv'
    <2>1. TypeOK' /\ (\A v \in Uploads : UploadOK(v))'
      BY <1>1, UploadsStep
    <2>2. OverlapKnown'
      BY <1>1, OverlapStep DEF IInv
    <2>3. SamplesAreUploads'
      <3>1. CASE RecordAnswer(u)
        BY <3>1, SamplesStep
      <3>2. CASE ~RecordAnswer(u)
        <4>1. UNCHANGED <<catalog, said>>
          BY <1>1, <3>2 DEF Upload, Guard, Lookup, ClassifyByRule, ClassifyByModel, FallBack,
                            RecordCost, Fail
        <4> QED
          BY <4>1 DEF IInv, SamplesAreUploads
      <3> QED
        BY <3>1, <3>2
    <2>4. SpendingOK'
      BY <1>1, SpendingStep
    <2> QED
      BY <2>1, <2>2, <2>3, <2>4 DEF IInv
  <1>2. CASE OtherCost \/ NextDay
    BY <1>2, LogStep
  <1>3. CASE UNCHANGED vars
    <2>1. UNCHANGED <<catalog, today, spent, byUploads, other, pc, forced, results, row, order,
                      out, usage, told, said, overlapped>>
      BY <1>3 DEF vars, costs, locals
    <2>2. TypeOK'
      BY <2>1 DEF IInv, TypeOK, Running
    <2>3. ASSUME NEW v \in Uploads
          PROVE  UploadOK(v)'
      BY <2>1, Frame DEF IInv
    <2>4. OverlapKnown' /\ SamplesAreUploads'
      BY <2>1 DEF IInv, OverlapKnown, SamplesAreUploads, Running
    <2>5. SpendingOK'
      BY <2>1 DEF IInv, SpendingOK, Spending, Running
    <2> QED
      BY <2>2, <2>3, <2>4, <2>5 DEF IInv
  <1> QED
    BY <1>1, <1>2, <1>3 DEF Next

\* The inductive invariant of any number of uploads, of any statements, under any
\* answers of the model and failures.
THEOREM Invariance == Spec => []IInv
  <1>1. Init => IInv
    BY InitOK, LimitsAssumption, UploadsAssumption
  <1>2. IInv /\ [Next]_vars => IInv'
    BY NextOK, LimitsAssumption, UploadsAssumption, NoneAssumption, CategoriesAssumption,
       FileAssumption, RepliesAssumption
  <1> QED
    BY <1>1, <1>2, PTL DEF Spec

\* The catalog, the log and the variables of _classify_rows keep their types.
THEOREM TypeCorrect == Spec => []TypeOK
  <1>1. IInv => TypeOK
    BY DEF IInv
  <1> QED
    BY <1>1, Invariance, PTL

\* _classify_rows gives every row the catalog's answer, or the answer the engine gave of
\* a row before it of its own merchant.
THEOREM RowsGetTheirOwnAnswer == Spec => []OwnAnswer
  <1>1. IInv => OwnAnswer
    <2> SUFFICES ASSUME IInv, NEW u \in Uploads, pc[u] = "save", NEW i \in DOMAIN file[u]
                 PROVE  /\ results[u][i] # None
                        /\ \/ results[u][i].source = "cache"
                           \/ \E j \in 1 .. i : /\ file[u][j].merchant = file[u][i].merchant
                                                /\ results[u][i] = told[u][j]
      BY DEF OwnAnswer
    <2>1. TypeOK /\ UploadOK(u) /\ Running(u)
      BY DEF IInv, Running
    <2>2. /\ row[u] = Len(file[u]) + 1
          /\ Len(order[u]) \in Nat
          /\ DOMAIN order[u] = 1 .. Len(order[u])
          /\ Len(file[u]) \in Nat /\ DOMAIN file[u] = 1 .. Len(file[u])
          /\ \A k \in DOMAIN order[u] : order[u][k] \in DOMAIN file[u]
      BY <2>1, FileAssumption, OrderFacts, FileFacts
    <2>3. ~(i >= row[u])
      BY <2>2
    <2>4. Answered(u) = Len(order[u])
      <3>1. out[u] = <<>>
        BY <2>1 DEF UploadOK, StageOK
      <3>2. Len(out[u]) = 0
        BY <3>1
      <3> QED
        BY <2>2, <3>2 DEF Answered
    <2>5. \/ results[u][i] # None /\ results[u][i].source = "cache"
          \/ \E k \in DOMAIN order[u] :
                /\ RowAt(u, k).merchant = file[u][i].merchant
                /\ order[u][k] <= i
                /\ results[u][i] = IF k <= Answered(u) THEN told[u][order[u][k]] ELSE None
      BY <2>1, <2>3 DEF UploadOK, ResultsOK
    <2>6. ASSUME NEW k \in DOMAIN order[u],
                 RowAt(u, k).merchant = file[u][i].merchant,
                 order[u][k] <= i,
                 results[u][i] = IF k <= Answered(u) THEN told[u][order[u][k]] ELSE None
          PROVE  /\ results[u][i] # None
                 /\ \E j \in 1 .. i : /\ file[u][j].merchant = file[u][i].merchant
                                      /\ results[u][i] = told[u][j]
      <3>1. k \in 1 .. Answered(u) /\ k <= Answered(u)
        BY <2>2, <2>4
      <3>2. told[u][order[u][k]] # None
        BY <2>1, <3>1 DEF UploadOK, OutOK
      <3>3. order[u][k] \in 1 .. i
        BY <2>2, <2>6
      <3> QED
        BY <2>6, <3>1, <3>2, <3>3 DEF RowAt
    <2> QED
      BY <2>5, <2>6
  <1> QED
    BY <1>1, Invariance, PTL

\* The rows of a merchant agree in the statement of an upload that ran alone.
THEOREM OneAnswer == Spec => []OneAnswerUnlessOverlapped
  <1>1. IInv => OneAnswerUnlessOverlapped
    <2> SUFFICES ASSUME IInv, NEW u \in Uploads \ overlapped, pc[u] = "save"
                 PROVE  \A i, j \in DOMAIN file[u] :
                            file[u][i].merchant = file[u][j].merchant
                            => results[u][i] = results[u][j]
      BY DEF OneAnswerUnlessOverlapped
    <2> QED
      BY DEF IInv, UploadOK, CatalogUnchanged, Running
  <1> QED
    BY <1>1, Invariance, PTL

\* The catalog's sample_count never passes the uploads that said its category.
THEOREM SamplesCountUploads == Spec => []SamplesAreUploads
  <1>1. IInv => SamplesAreUploads
    BY DEF IInv
  <1> QED
    BY <1>1, Invariance, PTL

\* What _budget_guard lets through in a day.
THEOREM DayBounded == Spec => []SpendBounded
  <1>1. IInv => SpendBounded
    <2> SUFFICES ASSUME IInv, DayCap > 0
                 PROVE  byUploads <= DayCap - 1 + MaxAtOnce * MaxCalls
      BY DEF SpendBounded
    <2>1. byUploads + MaxCalls * Cardinality(Spending) <= DayCap - 1 + MaxAtOnce * MaxCalls
      BY DEF IInv, SpendingOK
    <2>2. Cardinality(Spending) \in Nat
      <3>1. Spending \subseteq Uploads
        BY DEF Spending
      <3> QED
        BY <3>1, UploadsAssumption, FS_Subset, FS_CardinalityType DEF UploadsAssumption
    <2>3. /\ byUploads \in Nat /\ MaxCalls \in Nat /\ MaxAtOnce \in Nat /\ DayCap \in Nat
      BY LimitsAssumption DEF IInv, TypeOK, LimitsAssumption
    <2>4. MaxCalls * Cardinality(Spending) \in Nat /\ MaxAtOnce * MaxCalls \in Nat
      BY <2>2, <2>3
    <2> QED
      BY <2>1, <2>3, <2>4
  <1> QED
    BY <1>1, Invariance, PTL

\* Only an upload that ran beside another changes an entry that the catalog already
\* answers with.
THEOREM Settled == Spec => SettledUnlessOverlapped
  <1> DEFINE Step == \A m \in Merchants : IsConfident(catalog[m]) /\ catalog'[m] # catalog[m] =>
                        \E u \in overlapped : pc[u] = "record" /\ said'[u][m] # said[u][m]
  <1>1. IInv /\ [Next]_vars => [Step]_vars
    <2> SUFFICES ASSUME IInv, Next, NEW m \in Merchants,
                        IsConfident(catalog[m]), catalog'[m] # catalog[m]
                 PROVE  \E u \in overlapped : pc[u] = "record" /\ said'[u][m] # said[u][m]
      OBVIOUS
    <2>1. PICK u \in Uploads : RecordAnswer(u)
      BY DEF Next, Upload, Guard, Lookup, ClassifyByRule, ClassifyByModel, FallBack, RecordCost,
             Fail, OtherCost, NextDay
    <2>2. TypeOK /\ UploadOK(u)
      BY DEF IInv
    <2>3. pc[u] = "record" /\ Running(u)
      BY <2>1 DEF RecordAnswer, Running
    <2> DEFINE x == RowAt(u, Turn(u)).merchant
               answer == Head(out[u])
    <2>4. /\ Turn(u) \in DOMAIN order[u]
          /\ Turn(u) \in Nat /\ Answered(u) = Turn(u) - 1
          /\ x \in Merchants
          /\ answer \in Entries
          /\ said[u][x] = None
          /\ Score(answer.confidence) \in Nat
      BY <2>2, <2>3, LimitsAssumption, FileAssumption, TurnFacts
    <2>5. /\ catalog' = [catalog EXCEPT ![x] = Recorded(catalog[x], answer)]
          /\ said' = IF Score(answer.confidence) < MinConfidence THEN said
                     ELSE [said EXCEPT ![u][x] = answer]
      BY <2>1 DEF RecordAnswer, Turn
    <2> HIDE DEF x, answer
    <2>6. catalog \in [Merchants -> {None} \cup CatalogEntries]
          /\ said \in [Uploads -> [Merchants -> Entries \cup {None}]]
      BY <2>2 DEF TypeOK, CatalogEntries
    <2>7. m = x /\ catalog'[x] = Recorded(catalog[x], answer)
      BY <2>4, <2>5, <2>6
    <2>8. Score(answer.confidence) >= MinConfidence
      BY <2>4, <2>6, <2>7, LimitsAssumption, RecordedFacts
    <2>9. ~(Score(answer.confidence) < MinConfidence)
      BY <2>4, <2>8, LimitsAssumption DEF LimitsAssumption
    <2>10. said'[u][m] = answer /\ said[u][m] = None /\ answer # None
      BY <2>4, <2>5, <2>6, <2>7, <2>9, NoneAssumption DEF NoneAssumption, Entries
    <2>11. u \in overlapped
      <3> SUFFICES ASSUME u \notin overlapped
                   PROVE  FALSE
        OBVIOUS
      <3>1. Answered(u) < Turn(u)
        BY <2>4
      <3>2. ~IsConfident(catalog[RowAt(u, Turn(u)).merchant])
        BY <2>2, <2>3, <2>4, <3>1 DEF UploadOK, CatalogUnchanged
      <3> QED
        BY <2>7, <3>2 DEF x
    <2> QED
      BY <2>3, <2>10, <2>11
  <1> QED
    BY <1>1, Invariance, PTL DEF Spec, SettledUnlessOverlapped
=============================================================================
