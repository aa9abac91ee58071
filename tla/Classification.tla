--------------------------- MODULE Classification ---------------------------
(***************************************************************************)
(* How process_csv classifies the new rows of a statement: the spending    *)
(* guard, the merchant catalog in front of the engine, the engine in       *)
(* batches, what is written back to the catalog, and the cost on record.   *)
(* It is what an import does between the last query of its dedup and its   *)
(* first write.  Uploads of one user run side by side.                     *)
(*                                                                         *)
(* A row is its merchant (the hash of its description, the key of the      *)
(* catalog), the category its text matches by keyword, and whether its     *)
(* amount is positive.  Scores are in hundredths.  Cost is counted in      *)
(* calls of the model.                                                     *)
(***************************************************************************)
EXTENDS Integers, FiniteSets, Sequences

CONSTANTS Uploads,
          Merchants,
          Categories,
          file,           \* the new rows of each upload
          Replies,        \* what the model may answer of a row
          NoMatch,        \* no keyword matches
          Missing,        \* the model left the row out
          Unknown,        \* a category that maps to none of the application's
          None,
          MinSamples,     \* CATALOG_MIN_SAMPLES
          MinConfidence,  \* CATALOG_MIN_CONFIDENCE
          BatchSize,      \* CSV_CLASSIFY_BATCH_SIZE
          RequestCap,     \* MAX_COST_PER_REQUEST_USD, as a number of rows; 0 is off
          DayCap,         \* MAX_COST_PER_USER_PER_DAY_USD, in calls; 0 is off
          MaxCalls,       \* bound: the batches of a file, and so the calls of an upload
          MaxAtOnce,      \* bound: uploads at a time
          MaxOther,       \* bound: calls of other features on record in a day
          MaxDay          \* bound: days

Confidences == {"high", "medium", "low", "low-fallback"}

Row == [merchant : Merchants, keyword : Categories \cup {NoMatch}, income : BOOLEAN]

ASSUME LimitsAssumption == /\ MinSamples \in Nat \ {0}
                           /\ MinConfidence \in Nat
                           /\ BatchSize \in Nat \ {0}
                           /\ RequestCap \in Nat
                           /\ DayCap \in Nat
                           /\ MaxCalls \in Nat
                           /\ MaxAtOnce \in Nat
                           /\ MaxOther \in Nat
                           /\ MaxDay \in Nat
ASSUME UploadsAssumption == IsFiniteSet(Uploads)
ASSUME NoneAssumption ==
    None \notin [category : Categories, confidence : Confidences, needs_review : BOOLEAN,
                 source : {"keyword", "llm", "rule", "fallback", "cache"}]
              \cup [category : Categories, sum : Nat, count : Nat \ {0}]
ASSUME CategoriesAssumption == {"Other", "Salary"} \subseteq Categories
ASSUME FileAssumption == /\ file \in [Uploads -> Seq(Row)]
                         /\ \A u \in Uploads : Len(file[u]) <= MaxCalls * BatchSize
ASSUME RepliesAssumption ==
    Replies \subseteq {Missing} \cup [category : Categories \cup {Unknown},
                                      confidence : {"high", "medium", "low"}]

VARIABLES
    catalog,    \* merchant_catalog: None, or category, confidence_sum, sample_count
    today,
    spent,      \* cost_log: the calls on record today, of all features
    byUploads,  \* those of uploads
    other,      \* those of other features
    pc,
    forced,     \* force_local
    results,    \* the results of _classify_rows
    row,        \* the row it looks up
    order,      \* the rows that represent the merchants to classify
    out,        \* the engine's results
    usage,
    told,       \* history: for each row the engine was asked, what it answered
    said,       \* history: what each upload recorded of each merchant
    overlapped  \* history: the uploads that ran beside another

costs == <<today, spent, byUploads, other>>
locals == <<forced, results, row, order, out, usage, told>>
vars == <<catalog, costs, pc, locals, said, overlapped>>

Running(u) == pc[u] \notin {"idle", "done"}

Init ==
    /\ catalog = [m \in Merchants |-> None]
    /\ today = 0
    /\ spent = 0
    /\ byUploads = 0
    /\ other = 0
    /\ pc = [u \in Uploads |-> "idle"]
    /\ forced = [u \in Uploads |-> FALSE]
    /\ results = [u \in Uploads |-> <<>>]
    /\ row = [u \in Uploads |-> 1]
    /\ order = [u \in Uploads |-> <<>>]
    /\ out = [u \in Uploads |-> <<>>]
    /\ usage = [u \in Uploads |-> 0]
    /\ told = [u \in Uploads |-> <<>>]
    /\ said = [u \in Uploads |-> [m \in Merchants |-> None]]
    /\ overlapped = {}

------------------------------------------------------------------------------
\* The operators of a classification.

Score(confidence) == CASE confidence = "high" -> 95
                       [] confidence = "medium" -> 70
                       [] confidence = "low" -> 30
                       [] confidence = "low-fallback" -> 20

Entry(category, confidence, review, source) ==
    [category |-> category, confidence |-> confidence, needs_review |-> review,
     source |-> source]

\* NEEDS_REVIEW_THRESHOLD is 0.6.
validate_classification(reply, source) ==
    IF reply = Missing THEN Entry("Other", "low", TRUE, source)
    ELSE IF reply.category = Unknown
    THEN Entry("Other", reply.confidence, TRUE, source)
    ELSE Entry(reply.category, reply.confidence, Score(reply.confidence) < 60, source)

\* LocalAI.categorize.
categorize(r) ==
    IF r.keyword # NoMatch THEN [category |-> r.keyword, confidence |-> "medium"]
    ELSE [category |-> IF r.income THEN "Salary" ELSE "Other", confidence |-> "low"]

\* What each way of answering makes of a row.
ByRule(r) == validate_classification(categorize(r), "rule")
ByKeyword(r) == Entry(r.keyword, "high", FALSE, "keyword")
ByFallback(r) == Entry(categorize(r).category, "low-fallback", TRUE, "fallback")

\* CatalogService.lookup hits.
IsConfident(e) ==
    /\ e # None
    /\ e.count >= MinSamples
    /\ e.sum >= MinConfidence * e.count

\* CatalogService.record and catalog_record: the entry e after an answer.
Recorded(e, answer) ==
    IF Score(answer.confidence) < MinConfidence THEN e
    ELSE IF e # None /\ e.category = answer.category
    THEN [category |-> answer.category,
          sum |-> e.sum + Score(answer.confidence), count |-> e.count + 1]
    ELSE [category |-> answer.category, sum |-> Score(answer.confidence), count |-> 1]

------------------------------------------------------------------------------
\* An upload.

Goto(u, label) == pc' = [pc EXCEPT ![u] = label]

\* The upload is over, and its variables with it.
Return(u) ==
    /\ Goto(u, "done")
    /\ forced' = [forced EXCEPT ![u] = FALSE]
    /\ results' = [results EXCEPT ![u] = <<>>]
    /\ row' = [row EXCEPT ![u] = 1]
    /\ order' = [order EXCEPT ![u] = <<>>]
    /\ out' = [out EXCEPT ![u] = <<>>]
    /\ usage' = [usage EXCEPT ![u] = 0]
    /\ told' = [told EXCEPT ![u] = <<>>]

OverRequest(u) == RequestCap > 0 /\ Len(file[u]) > RequestCap
OverDay(n) == DayCap > 0 /\ n >= DayCap

\* _budget_guard.
Guard(u) ==
    LET beside == {v \in Uploads : Running(v)}
    IN  /\ pc[u] = "idle"
        /\ Cardinality(beside) < MaxAtOnce
        /\ forced' = [forced EXCEPT ![u] = OverRequest(u) \/ OverDay(spent)]
        /\ results' = [results EXCEPT ![u] = [i \in DOMAIN file[u] |-> None]]
        /\ told' = [told EXCEPT ![u] = [i \in DOMAIN file[u] |-> None]]
        /\ Goto(u, IF file[u] = <<>> THEN "save" ELSE "lookup")
        /\ overlapped' = IF beside = {} THEN overlapped ELSE overlapped \cup beside \cup {u}
        /\ UNCHANGED <<catalog, costs, row, order, out, usage, said>>

\* Mutant: a row that the catalog answers is classified all the same.
LookupAndClassify(u) ==
    LET i == row[u]
        e == catalog[file[u][i].merchant]
    IN  /\ pc[u] = "lookup"
        /\ IF IsConfident(e)
           THEN results' = [results EXCEPT ![u][i] = Entry(e.category, "high", FALSE, "cache")]
           ELSE UNCHANGED results
        /\ order' = [order EXCEPT ![u] = Append(@, i)]
        /\ row' = [row EXCEPT ![u] = i + 1]
        /\ Goto(u, IF i < Len(file[u]) THEN "lookup" ELSE "classify")
        /\ UNCHANGED <<catalog, costs, forced, out, usage, told, said, overlapped>>

\* A round of the loop over the rows: catalog.lookup, and where it misses the
\* first row of a merchant is the one to classify.
Lookup(u) ==
    LET i == row[u]
        m == file[u][i].merchant
        e == catalog[m]
        waiting == \E k \in DOMAIN order[u] : file[u][order[u][k]].merchant = m
    IN  /\ pc[u] = "lookup"
        /\ IF IsConfident(e)
           THEN /\ results' = [results EXCEPT ![u][i] = Entry(e.category, "high", FALSE, "cache")]
                /\ UNCHANGED order
           ELSE /\ order' = IF waiting THEN order ELSE [order EXCEPT ![u] = Append(@, i)]
                /\ UNCHANGED results
        /\ row' = [row EXCEPT ![u] = i + 1]
        /\ Goto(u, IF i < Len(file[u]) THEN "lookup"
                   ELSE IF order'[u] = <<>> THEN "save" ELSE "classify")
        /\ UNCHANGED <<catalog, costs, forced, out, usage, told, said, overlapped>>

\* The places in the order of the next batch.
BatchEnd(u) == IF Len(out[u]) + BatchSize < Len(order[u]) THEN Len(out[u]) + BatchSize
               ELSE Len(order[u])

NextBatch(u) == Len(out[u]) + 1 .. BatchEnd(u)

\* The rows a batch asks the model about.
Ambiguous(u) == {k \in NextBatch(u) : file[u][order[u][k]].keyword = NoMatch}

\* build_csv_classify_user numbers the rows it shows from 1.
PromptNumber(asked, k) == Cardinality({j \in asked : j <= k})

\* Mutant: the answers are read as if they were numbered from 0.
LocalIdxFromZero(asked, k) == Cardinality({j \in asked : j < k})

\* classify_batch reads the answers by number: enumerate(ambiguous, start=1).
LocalIdx(asked, k) == Cardinality({j \in asked : j <= k})

\* by_idx.get: the answer the model numbered n.
Answer(asked, answers, n) ==
    IF \E j \in asked : PromptNumber(asked, j) = n
    THEN answers[CHOOSE j \in asked : PromptNumber(asked, j) = n]
    ELSE Missing

\* The batch's results follow those of the batches before, and what the engine was
\* asked and answered is told.
Classified(u, entry, truth) ==
    /\ out' = [out EXCEPT ![u] =
           [k \in 1 .. BatchEnd(u) |-> IF k \in NextBatch(u) THEN entry[k] ELSE out[u][k]]]
    /\ told' = [told EXCEPT ![u] =
           [i \in DOMAIN file[u] |->
               IF \E k \in NextBatch(u) : order[u][k] = i
               THEN truth[CHOOSE k \in NextBatch(u) : order[u][k] = i]
               ELSE told[u][i]]]
    /\ Goto(u, IF BatchEnd(u) < Len(order[u]) THEN "classify" ELSE "record")

RowAt(u, k) == file[u][order[u][k]]

\* LocalAI.classify_batch.
ClassifyByRule(u) ==
    LET entry == [k \in NextBatch(u) |-> ByRule(RowAt(u, k))]
    IN  /\ pc[u] = "classify"
        /\ forced[u]
        /\ Classified(u, entry, entry)
        /\ UNCHANGED <<catalog, costs, forced, results, row, order, usage, said, overlapped>>

\* BedrockAI.classify_batch: the rows that match no keyword are asked in one call.
ClassifyByModel(u) ==
    LET asked == Ambiguous(u)
    IN  /\ pc[u] = "classify"
        /\ ~forced[u]
        /\ \E answers \in [asked -> Replies] :
              Classified(u,
                  [k \in NextBatch(u) |->
                      IF k \in asked
                      THEN validate_classification(
                               Answer(asked, answers, LocalIdx(asked, k)), "llm")
                      ELSE ByKeyword(RowAt(u, k))],
                  [k \in NextBatch(u) |->
                      IF k \in asked THEN validate_classification(answers[k], "llm")
                      ELSE ByKeyword(RowAt(u, k))])
        /\ usage' = [usage EXCEPT ![u] = @ + IF asked = {} THEN 0 ELSE 1]
        /\ UNCHANGED <<catalog, costs, forced, results, row, order, said, overlapped>>

\* Mutant: the call is tried once more before the keywords.
FallBackTwice(u) ==
    LET asked == Ambiguous(u)
        entry == [k \in NextBatch(u) |->
                     IF k \in asked THEN ByFallback(RowAt(u, k)) ELSE ByKeyword(RowAt(u, k))]
    IN  /\ pc[u] = "classify"
        /\ asked # {}
        /\ ~forced[u]
        /\ Classified(u, entry, entry)
        /\ usage' = [usage EXCEPT ![u] = @ + 2]
        /\ UNCHANGED <<catalog, costs, forced, results, row, order, said, overlapped>>

\* Its except clause: the call fails, or its answer cannot be read and is paid for.
FallBack(u) ==
    LET asked == Ambiguous(u)
        entry == [k \in NextBatch(u) |->
                     IF k \in asked THEN ByFallback(RowAt(u, k)) ELSE ByKeyword(RowAt(u, k))]
    IN  /\ pc[u] = "classify"
        /\ asked # {}
        /\ ~forced[u]
        /\ Classified(u, entry, entry)
        /\ usage' \in {usage, [usage EXCEPT ![u] = @ + 1]}
        /\ UNCHANGED <<catalog, costs, forced, results, row, order, said, overlapped>>

\* Mutant: the answer is not fanned out.
MembersAlone(u, k) == {order[u][k]}

\* The rows of the k-th merchant that the catalog did not answer.
Members(u, k) == {i \in DOMAIN file[u] : /\ results[u][i] = None
                                         /\ file[u][i].merchant = RowAt(u, k).merchant}

\* A round of the loop over the merchants: the answer is fanned out to the
\* merchant's rows, and recorded.  The first of out is taken each time.
RecordAnswer(u) ==
    LET k == Len(order[u]) - Len(out[u]) + 1
        m == RowAt(u, k).merchant
        answer == Head(out[u])
    IN  /\ pc[u] = "record"
        /\ results' = [results EXCEPT ![u] =
               [i \in DOMAIN file[u] |-> IF i \in Members(u, k) THEN answer ELSE @[i]]]
        /\ catalog' = [catalog EXCEPT ![m] = Recorded(@, answer)]
        /\ said' = IF Score(answer.confidence) < MinConfidence THEN said
                   ELSE [said EXCEPT ![u][m] = answer]
        /\ out' = [out EXCEPT ![u] = Tail(@)]
        /\ Goto(u, IF Len(out[u]) > 1 THEN "record" ELSE "save")
        /\ UNCHANGED <<costs, forced, row, order, usage, told, overlapped>>

\* The rows are saved with their results, and cost_tracker.record dates the cost when
\* it is called; an error of its store is swallowed.
RecordCost(u) ==
    /\ pc[u] = "save"
    /\ \E written \in {0, usage[u]} :
          /\ spent' = spent + written
          /\ byUploads' = byUploads + written
    /\ Return(u)
    /\ UNCHANGED <<catalog, today, other, said, overlapped>>

\* A store call fails or the task is killed, before the cost is on record.
Fail(u) ==
    /\ Running(u)
    /\ Return(u)
    /\ UNCHANGED <<catalog, costs, said, overlapped>>

Upload(u) ==
    \/ Guard(u) \/ Lookup(u)
    \/ ClassifyByRule(u) \/ ClassifyByModel(u) \/ FallBack(u)
    \/ RecordAnswer(u) \/ RecordCost(u) \/ Fail(u)

\* The chat, a receipt, a manual entry: their calls are recorded and not guarded.
OtherCost ==
    /\ other < MaxOther
    /\ other' = other + 1
    /\ spent' = spent + 1
    /\ UNCHANGED <<catalog, today, byUploads, pc, locals, said, overlapped>>

NextDay ==
    /\ today < MaxDay
    /\ today' = today + 1
    /\ spent' = 0
    /\ byUploads' = 0
    /\ other' = 0
    /\ UNCHANGED <<catalog, pc, locals, said, overlapped>>

Next == (\E u \in Uploads : Upload(u)) \/ OtherCost \/ NextDay

Spec == Init /\ [][Next]_vars

------------------------------------------------------------------------------
Entries == [category : Categories, confidence : Confidences, needs_review : BOOLEAN,
            source : {"keyword", "llm", "rule", "fallback", "cache"}]

\* The types of the tables and of what an upload holds.
TypeOK ==
    /\ catalog \in [Merchants -> {None} \cup [category : Categories, sum : Nat, count : Nat \ {0}]]
    /\ today \in 0 .. MaxDay
    /\ spent \in Nat
    /\ byUploads \in Nat
    /\ other \in 0 .. MaxOther
    /\ pc \in [Uploads -> {"idle", "lookup", "classify", "record", "save", "done"}]
    /\ forced \in [Uploads -> BOOLEAN]
    /\ row \in [Uploads -> Nat \ {0}]
    /\ usage \in [Uploads -> 0 .. MaxCalls]
    /\ results \in [Uploads -> Seq(Entries \cup {None})]
    /\ told \in [Uploads -> Seq(Entries \cup {None})]
    /\ order \in [Uploads -> Seq(Nat \ {0})]
    /\ out \in [Uploads -> Seq(Entries)]
    /\ \A u \in Uploads : Running(u) => /\ Len(results[u]) = Len(file[u])
                                        /\ Len(told[u]) = Len(file[u])
    /\ said \in [Uploads -> [Merchants -> Entries \cup {None}]]
    /\ overlapped \subseteq Uploads

\* Every row is saved with an answer: the catalog's, or the one the engine gave of the
\* row that stands for its merchant, whatever batch it was in and whatever rows of
\* the batch the model was not asked about or left out.
OwnAnswer ==
    \A u \in Uploads : pc[u] = "save" =>
        \A i \in DOMAIN file[u] :
            /\ results[u][i] # None
            /\ \/ results[u][i].source = "cache"
               \/ \E j \in 1 .. i : /\ file[u][j].merchant = file[u][i].merchant
                                    /\ results[u][i] = told[u][j]

\* The rows of a merchant get one category in a statement, unless another upload ran
\* beside: the catalog may begin to answer between two of them.
OneAnswerUnlessOverlapped ==
    \A u \in Uploads \ overlapped : pc[u] = "save" =>
        \A i, j \in DOMAIN file[u] :
            file[u][i].merchant = file[u][j].merchant => results[u][i] = results[u][j]

\* The samples of a merchant are uploads that said its category with confidence: the
\* rows of one statement count once, and another category starts again.
SamplesAreUploads ==
    \A m \in Merchants : catalog[m] # None =>
        catalog[m].count <= Cardinality({u \in Uploads : said[u][m] # None
                                           /\ said[u][m].category = catalog[m].category})

\* Once the catalog answers for a merchant its category is settled: only an upload
\* that ran beside the one that settled it can change it.
SettledUnlessOverlapped ==
    [][\A m \in Merchants : IsConfident(catalog[m]) /\ catalog'[m] # catalog[m] =>
          \E u \in overlapped : pc[u] = "record" /\ said'[u][m] # said[u][m]]_vars

\* What uploads put on record in a day passes the cap by no more than the uploads that
\* were let through together.
SpendBounded ==
    DayCap > 0 => byUploads <= DayCap - 1 + MaxAtOnce * MaxCalls

\* Where an upload stands, what it holds.
StageOK(u) ==
    /\ ~Running(u) => /\ order[u] = <<>>
                      /\ out[u] = <<>>
                      /\ usage[u] = 0
                      /\ row[u] = 1
    /\ pc[u] = "lookup" => row[u] <= Len(file[u]) /\ out[u] = <<>> /\ usage[u] = 0
    /\ pc[u] \in {"classify", "record", "save"} => row[u] = Len(file[u]) + 1
    /\ pc[u] = "classify" => Len(out[u]) < Len(order[u])
    /\ pc[u] = "record" => out[u] # <<>> /\ Len(out[u]) <= Len(order[u])
    /\ pc[u] = "save" => out[u] = <<>>

\* The order names each merchant once, by a row that was looked up.
OrderOK(u) ==
    /\ Len(order[u]) < row[u]
    /\ \A k \in DOMAIN order[u] : order[u][k] < row[u]
    /\ \A k, l \in DOMAIN order[u] : RowAt(u, k).merchant = RowAt(u, l).merchant => k = l

\* How many of the merchants in the order have been recorded.
Answered(u) == IF pc[u] \in {"record", "save"} THEN Len(order[u]) - Len(out[u]) ELSE 0

\* The engine's results are those of the merchants in the order, in their places.
OutOK(u) ==
    /\ \A k \in 1 .. Len(out[u]) : told[u][order[u][Answered(u) + k]] = out[u][k]
    /\ \A k \in 1 .. Answered(u) : told[u][order[u][k]] # None

\* Each row looked up has the catalog's answer, or its merchant's when that is there.
ResultsOK(u) ==
    \A i \in DOMAIN file[u] :
        IF i >= row[u] THEN results[u][i] = None
        ELSE \/ results[u][i] # None /\ results[u][i].source = "cache"
             \/ \E k \in DOMAIN order[u] :
                   /\ RowAt(u, k).merchant = file[u][i].merchant
                   /\ order[u][k] <= i
                   /\ results[u][i] = IF k <= Answered(u) THEN told[u][order[u][k]] ELSE None

\* An upload alone finds the catalog as it was at each look-up, until it records.
CatalogUnchanged(u) ==
    /\ pc[u] \in {"lookup", "classify"} =>
          \A i \in DOMAIN file[u] : i < row[u] =>
              LET e == catalog[file[u][i].merchant]
              IN  results[u][i] = IF IsConfident(e) THEN Entry(e.category, "high", FALSE, "cache")
                                  ELSE None
    /\ pc[u] \in {"record", "save"} =>
          \A i, j \in DOMAIN file[u] :
              file[u][i].merchant = file[u][j].merchant => results[u][i] = results[u][j]
    /\ \A k \in DOMAIN order[u] : Answered(u) < k => ~IsConfident(catalog[RowAt(u, k).merchant])

\* An upload has said nothing yet of a merchant that it has not recorded.
NotSaidYet(u) ==
    /\ pc[u] \in {"idle", "lookup", "classify"} => \A m \in Merchants : said[u][m] = None
    /\ \A k \in DOMAIN order[u] : Answered(u) < k => said[u][RowAt(u, k).merchant] = None

\* Each batch makes at most one call, and a forced upload none.
UsageOK(u) ==
    /\ forced[u] => usage[u] = 0
    /\ usage[u] = 0 \/ (usage[u] - 1) * BatchSize < Len(order[u])
    /\ pc[u] = "classify" => usage[u] * BatchSize <= Len(out[u])

\* Uploads that run side by side are on record.
OverlapKnown ==
    \A u, v \in Uploads : u # v /\ Running(u) /\ Running(v) => u \in overlapped

\* The uploads that may still put calls on record.
Spending == {u \in Uploads : Running(u) /\ ~forced[u]}

\* What is on record, and what may still come of the uploads let through.
SpendingOK ==
    /\ byUploads <= spent
    /\ Cardinality({u \in Uploads : Running(u)}) <= MaxAtOnce
    /\ DayCap > 0 => byUploads + MaxCalls * Cardinality(Spending)
                        <= DayCap - 1 + MaxAtOnce * MaxCalls

UploadOK(u) ==
    /\ StageOK(u)
    /\ OrderOK(u)
    /\ NotSaidYet(u)
    /\ UsageOK(u)
    /\ Running(u) => OutOK(u) /\ ResultsOK(u)
    /\ Running(u) /\ u \notin overlapped => CatalogUnchanged(u)

\* The inductive invariant.
IInv ==
    /\ TypeOK
    /\ \A u \in Uploads : UploadOK(u)
    /\ OverlapKnown
    /\ SamplesAreUploads
    /\ SpendingOK

=============================================================================
