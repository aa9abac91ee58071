------------------------------ MODULE UploadCsv ------------------------------
\* The statement upload page (frontend/src/pages/UploadCsv.tsx) with the server
\* it talks to: the phases of the page, the calls of run and runAsync that go on
\* when the page is left, the duplicate card, the polling of a job that may fail
\* and be delivered again, and the rows that are recategorised in the results.
EXTENDS MockStore

CONSTANTS
    Files,
    Kind,        \* by the name: "csv", "excel" or "other"
    Big,         \* the files shouldUseAsync sends to /enqueue
    Content,     \* the rows of a file, as a sequence
    MaxRuns,     \* bound: calls of run
    MaxPolls,    \* the guard of the polling loop (60 in the code)
    MaxReceive,  \* deliveries of a job
    MaxUpdates   \* bound: recategorisations

NoFile == "no file"

ASSUME UploadCsvAssumption ==
    /\ NoFile \notin Files /\ Big \subseteq Files
    /\ Kind \in [Files -> {"csv", "excel", "other"}]
    /\ {MaxRuns, MaxPolls, MaxReceive, MaxUpdates} \subseteq Nat

\* A row of a file, before it is stored.
Entry == [date : Nat, description : DOMAIN Keyword, amount : Int]

ASSUME ContentAssumption ==
    /\ Content \in [Files -> Seq(Entry)]
    /\ \A f \in Files : \A i \in DOMAIN Content[f] :
          SuggestCategory(Content[f][i].description, Content[f][i].amount) \in Categories

VARIABLES
    csv,        \* the state of the page
    runs,       \* the calls of run and runAsync that have not returned
    updates,    \* the category updates that have not been answered
    started,    \* how many runs there were
    updated,    \* how many updates
    \* the server
    rows, nextId,
    recorded,   \* the run of a file's newest record, 0 without one
    jobs,       \* the jobs, by run
    \* history
    unheard,    \* the runs whose outcome the page gave up or never got
    doubtful,   \* rows an update of which failed, or overlapped with another
    refreshed   \* the ledger's ids when the views were last invalidated

server_vars == <<rows, nextId, recorded, jobs>>
csv_vars    == <<csv, runs, updates, started, updated, rows, nextId, recorded, jobs,
                 unheard, doubtful, refreshed>>

Blank == [phase |-> "idle", stage |-> "reading", asyncMode |-> FALSE, count |-> 0,
          results |-> {}, dup |-> NoFile, lastFile |-> NoFile]

Forces == {"none", "append", "replace"}
NoReply == [kind |-> "none"]

CsvInit ==
    /\ csv = Blank /\ runs = {} /\ updates = {} /\ started = 0 /\ updated = 0
    /\ rows = {} /\ nextId = 1 /\ recorded = [f \in Files |-> 0] /\ jobs = <<>>
    /\ unheard = {} /\ doubtful = {} /\ refreshed = {}

\* A call of run: here says that the page that started it is still mounted.
\* Its setters change nothing otherwise; invalidateData always works.
NewRun(f, force, at) ==
    [id |-> started + 1, file |-> f, force |-> force, at |-> at,
     guard |-> 0, reply |-> NoReply, here |-> TRUE]

Step(r, to) == runs' = (runs \ {r}) \union {to}
Return(r)   == runs' = runs \ {r}

\* Mutant: a run reaches a page that did not start it.
ShowAnywhere(r, state) == csv' = state

Show(r, state) == csv' = IF r.here THEN state ELSE csv

Begin(f, force, state, at) ==
    /\ started < MaxRuns
    /\ started' = started + 1
    /\ csv' = [state EXCEPT !.lastFile = f]
    /\ runs' = runs \union {NewRun(f, force, at)}
    /\ UNCHANGED <<updates, updated, server_vars, unheard, doubtful, refreshed>>

Processing(stage) == [csv EXCEPT !.phase = "processing", !.stage = stage]

Run(f, force) ==
    \/ /\ Kind[f] = "other"
       /\ csv' = [csv EXCEPT !.lastFile = f, !.phase = "error"]
       /\ UNCHANGED <<runs, updates, started, updated, server_vars,
                      unheard, doubtful, refreshed>>
    \/ /\ Kind[f] # "other" /\ f \in Big /\ force = "none"
       /\ Begin(f, force, [Processing("categorizing") EXCEPT !.asyncMode = TRUE], "enqueue")
    \/ /\ Kind[f] # "other" /\ (f \notin Big \/ force # "none")
       /\ Begin(f, force, Processing("reading"), "reading")

\* The dropzone is there in the idle phase only, its accept list is advice.
PickFile == csv.phase = "idle" /\ \E f \in Files : Run(f, "none")

Choose ==
    /\ csv.phase = "duplicate" /\ csv.lastFile # NoFile
    /\ \E force \in {"append", "replace"} : Run(csv.lastFile, force)

\* Skip, Retry and Upload another.
Reset ==
    /\ csv.phase \in {"duplicate", "error", "done"}
    /\ csv' = [Blank EXCEPT !.stage = csv.stage, !.count = csv.count]
    /\ UNCHANGED <<runs, updates, started, updated, server_vars,
                   unheard, doubtful, refreshed>>

(* run *)

CountDataRows(f) == IF Kind[f] = "csv" THEN Len(Content[f]) ELSE 0

ReadText(r) ==
    /\ r.at = "reading"
    /\ IF Kind[r.file] = "csv" /\ CountDataRows(r.file) = 0
       THEN Return(r) /\ Show(r, [csv EXCEPT !.phase = "error"])
       ELSE /\ Step(r, [r EXCEPT !.at = "parsing"])
            /\ Show(r, [csv EXCEPT !.stage = "parsing", !.count = CountDataRows(r.file)])
    /\ UNCHANGED <<updates, started, updated, server_vars,
                   unheard, doubtful, refreshed>>

Send(r) ==
    /\ r.at = "parsing"
    /\ Step(r, [r EXCEPT !.at = "uploading"])
    /\ Show(r, [csv EXCEPT !.stage = "categorizing"])
    /\ UNCHANGED <<updates, started, updated, server_vars,
                   unheard, doubtful, refreshed>>

RowsOf(file, run) == [i \in DOMAIN Content[file] |-> Spread(Content[file][i], [run |-> run])]

Import(kept, file, run) ==
    LET new == Imported(kept, RowsOf(file, run), nextId)
    IN  /\ rows' = new.rows /\ nextId' = new.next
        /\ recorded' = [recorded EXCEPT ![file] = run]

\* A replacement: the service deletes the rows of the newest record first, the
\* in-browser store does not.
Kept(r) ==
    {rows} \union
    (IF r.force = "replace" THEN {{row \in rows : row.run # recorded[r.file]}} ELSE {})

ServerUpload(r) ==
    /\ r.at = "uploading" /\ r.reply = NoReply
    /\ IF recorded[r.file] # 0 /\ r.force = "none"
       THEN /\ Step(r, [r EXCEPT !.reply = [kind |-> "duplicate"]])
            /\ UNCHANGED <<rows, nextId, recorded>>
       ELSE \E kept \in Kept(r) :
              /\ Import(kept, r.file, r.id)
              /\ Step(r, [r EXCEPT !.reply = [kind |-> "ok", saved |-> rows' \ kept]])
    /\ UNCHANGED <<csv, updates, started, updated, jobs, unheard, doubtful, refreshed>>

\* Mutant: invalidateData is forgotten.
DoneInSilence(r, count, results) ==
    /\ Return(r)
    /\ Show(r, [csv EXCEPT !.phase = "done", !.stage = "done", !.count = count,
                           !.results = results])
    /\ UNCHANGED refreshed

Done(r, count, results) ==
    /\ Return(r)
    /\ Show(r, [csv EXCEPT !.phase = "done", !.stage = "done", !.count = count,
                           !.results = results])
    /\ refreshed' = {row.id : row \in rows}

AnswerUpload(r) ==
    /\ r.at = "uploading"
    /\ \/ /\ r.reply.kind = "duplicate"
          /\ Return(r)
          /\ Show(r, [csv EXCEPT !.phase = "duplicate", !.dup = r.file])
          /\ UNCHANGED refreshed
       \/ /\ r.reply.kind = "ok"
          /\ Done(r, Cardinality(r.reply.saved),
                  {[id |-> row.id, category |-> row.category] : row \in r.reply.saved})
    /\ UNCHANGED <<updates, started, updated, server_vars, unheard, doubtful>>

\* An error answer, or a connection that breaks: the server may have worked.
GiveUp(r) ==
    /\ Return(r)
    /\ Show(r, [csv EXCEPT !.phase = "error"])
    /\ unheard' = unheard \union {r.id}
    /\ UNCHANGED <<updates, started, updated, server_vars, doubtful, refreshed>>

CallFails(r) ==
    /\ r.at \in {"uploading", "enqueue", "polling"}
    /\ GiveUp(r)

(* runAsync *)

ServerEnqueue(r) ==
    /\ r.at = "enqueue" /\ r.reply = NoReply
    /\ jobs' = Spread(jobs, [j \in {r.id} |-> [file |-> r.file, status |-> "QUEUED",
                                              tries |-> 0, inserted |-> 0]])
    /\ Step(r, [r EXCEPT !.reply = [kind |-> "job", status |-> "QUEUED", inserted |-> 0]])
    /\ UNCHANGED <<csv, updates, started, updated, rows, nextId, recorded,
                   unheard, doubtful, refreshed>>

ServerStatus(r) ==
    /\ r.at = "polling" /\ r.reply = NoReply
    /\ Step(r, [r EXCEPT !.guard = @ + 1,
                         !.reply = [kind |-> "job", status |-> jobs[r.id].status,
                                    inserted |-> jobs[r.id].inserted]])
    /\ UNCHANGED <<csv, updates, started, updated, server_vars,
                   unheard, doubtful, refreshed>>

\* The test of the loop and what follows it; a job that failed for now, or is
\* not done after the last poll, is given up.
Looping(r) == r.reply.status \in {"QUEUED", "PROCESSING"} /\ r.guard < MaxPolls

Loop(r) ==
    /\ r.reply.kind = "job"
    /\ \/ /\ Looping(r)
          /\ Step(r, [r EXCEPT !.at = "polling", !.reply = NoReply])
          /\ UNCHANGED <<csv, updates, started, updated, server_vars,
                         unheard, doubtful, refreshed>>
       \/ /\ ~Looping(r) /\ r.reply.status # "COMPLETED"
          /\ GiveUp(r)
       \/ /\ ~Looping(r) /\ r.reply.status = "COMPLETED"
          /\ Done(r, r.reply.inserted, {})
          /\ UNCHANGED <<updates, started, updated, server_vars, unheard, doubtful>>

\* A worker takes the job of a delivery: a first one, or after a failure or a
\* death of the last.
JobDelivered(j) ==
    /\ jobs[j].status # "COMPLETED" /\ jobs[j].tries < MaxReceive
    /\ jobs' = [jobs EXCEPT ![j].status = "PROCESSING", ![j].tries = @ + 1]
    /\ UNCHANGED <<csv, runs, updates, started, updated, rows, nextId, recorded,
                   unheard, doubtful, refreshed>>

JobCompletes(j) ==
    /\ jobs[j].status = "PROCESSING"
    /\ \/ /\ recorded[jobs[j].file] # 0
          /\ jobs' = [jobs EXCEPT ![j].status = "COMPLETED"]
          /\ UNCHANGED <<rows, nextId, recorded>>
       \/ /\ recorded[jobs[j].file] = 0
          /\ Import(rows, jobs[j].file, j)
          /\ jobs' = [jobs EXCEPT ![j].status = "COMPLETED",
                                  ![j].inserted = Cardinality(rows' \ rows)]
    /\ UNCHANGED <<csv, runs, updates, started, updated, unheard, doubtful, refreshed>>

JobFails(j) ==
    /\ jobs[j].status = "PROCESSING"
    /\ jobs' = [jobs EXCEPT ![j].status = "FAILED"]
    /\ UNCHANGED <<csv, runs, updates, started, updated, rows, nextId, recorded,
                   unheard, doubtful, refreshed>>

(* The rows of the results *)

Overlaps(id) == \E u \in updates : u.id = id

\* Mutant: the update is sent and the results are left as they were.
RecategorizeUnseen(id, category) ==
    /\ csv.phase = "done" /\ updated < MaxUpdates
    /\ \E x \in csv.results : x.id = id /\ x.category # category
    /\ updated' = updated + 1
    /\ updates' = updates \union
          {[n |-> updated + 1, id |-> id, category |-> category,
            state |-> "sent", here |-> TRUE]}
    /\ doubtful' = IF Overlaps(id) THEN doubtful \union {id} ELSE doubtful
    /\ UNCHANGED <<csv, runs, started, server_vars, unheard, refreshed>>

Recategorize(id, category) ==
    /\ csv.phase = "done" /\ updated < MaxUpdates
    /\ \E x \in csv.results : x.id = id /\ x.category # category
    /\ csv' = [csv EXCEPT !.results =
                 {IF x.id = id THEN [x EXCEPT !.category = category] ELSE x : x \in @}]
    /\ updated' = updated + 1
    /\ updates' = updates \union
          {[n |-> updated + 1, id |-> id, category |-> category,
            state |-> "sent", here |-> TRUE]}
    /\ doubtful' = IF Overlaps(id) THEN doubtful \union {id} ELSE doubtful
    /\ UNCHANGED <<runs, started, server_vars, unheard, refreshed>>

ServerUpdate(u) ==
    /\ u.state = "sent"
    /\ rows' = Updated(rows, u.id, u.category)
    /\ updates' = (updates \ {u}) \union
          {[u EXCEPT !.state = IF Found(rows, u.id) THEN "applied" ELSE "failed"]}
    /\ UNCHANGED <<csv, runs, started, updated, nextId, recorded, jobs,
                   unheard, doubtful, refreshed>>

\* Settled, well or badly: the views are invalidated, and the rows of the
\* results stay as onRecategorize left them.
Settle(u) ==
    /\ updates' = updates \ {u}
    /\ refreshed' = {row.id : row \in rows}
    /\ UNCHANGED <<csv, runs, started, updated, server_vars, unheard>>

AnswerUpdate(u) == u.state = "applied" /\ Settle(u) /\ UNCHANGED doubtful

UpdateFails(u) == Settle(u) /\ doubtful' = doubtful \union {u.id}

CsvUser == PickFile \/ Choose \/ Reset
           \/ \E x \in csv.results, c \in Categories : Recategorize(x.id, c)

CsvRun(r) == \/ ReadText(r) \/ Send(r) \/ ServerUpload(r) \/ AnswerUpload(r)
             \/ ServerEnqueue(r) \/ ServerStatus(r) \/ Loop(r) \/ CallFails(r)

CsvBackground ==
    \/ \E r \in runs : CsvRun(r)
    \/ \E j \in DOMAIN jobs : JobDelivered(j) \/ JobCompletes(j) \/ JobFails(j)
    \/ \E u \in updates : ServerUpdate(u) \/ AnswerUpdate(u) \/ UpdateFails(u)

-----------------------------------------------------------------------------
(* Properties *)

Phases == {"idle", "processing", "duplicate", "done", "error"}
Stages == {"reading", "parsing", "categorizing", "done"}

CsvTypeOK ==
    /\ csv.phase \in Phases /\ csv.stage \in Stages /\ csv.asyncMode \in BOOLEAN
    /\ csv.count \in Nat /\ {csv.dup, csv.lastFile} \subseteq Files \union {NoFile}
    /\ \A x \in csv.results : x.id < nextId /\ x.category \in Categories
    /\ started \in 0..MaxRuns /\ updated \in 0..MaxUpdates
    /\ \A r \in runs : /\ r.id \in 1..started /\ r.file \in Files /\ r.force \in Forces
                       /\ r.guard \in 0..MaxPolls
                       /\ r.at \in {"reading", "parsing", "uploading", "enqueue", "polling"}
    /\ recorded \in [Files -> 0..started]
    /\ \A j \in DOMAIN jobs : j \in 1..started /\ jobs[j].tries \in 0..MaxReceive
    /\ \A row \in rows : row.id < nextId /\ row.category \in Categories
    /\ unheard \subseteq 1..started

\* One run at a time belongs to the page, it is the page's processing phase, and
\* the duplicate card offers to append or replace the file it is about: no run
\* of an earlier visit reaches the page.
OneRunPerPage ==
    /\ csv.phase = "processing" <=> \E r \in runs : r.here
    /\ \A r, q \in runs : r.here /\ q.here => r = q /\ r.file = csv.lastFile
    /\ csv.phase = "duplicate" => csv.dup = csv.lastFile /\ recorded[csv.dup] # 0

\* Every row an upload stores gets to the views, whether the page was left or
\* not, unless its answer was lost or its job given up: a failure that a later
\* delivery repaired, or more polls than the guard allows.
TheViewsAreTold ==
    \A row \in rows :
        \/ row.id \in refreshed
        \/ row.run \in unheard
        \/ \E r \in runs : r.id = row.run

\* The categories of the results are those of the ledger, unless an update of
\* the row is under way, failed, or overlapped with another: the page has no
\* rollback.
ResultsAgree ==
    \A x \in csv.results, row \in rows :
        x.id = row.id /\ x.id \notin doubtful /\ ~Overlaps(x.id)
            => x.category = row.category
=============================================================================
