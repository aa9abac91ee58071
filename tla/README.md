# BudgetBot: a verification development

BudgetBot keeps a user's spending: it imports bank statements and receipts,
classifies their rows with a language model on Bedrock, takes manual entries, and
answers questions about them in a chat.  The code is a FastAPI backend (`src/src`,
Python), a React client (`src/frontend`) and the infrastructure that runs them
(`src/terraform`).  This directory holds TLA+ modules of its core logic, the TLC
configurations that check them on small instances, and theorems about them that
TLAPS proves for every instance.

    tlc  -workers 2 -config MCImport.cfg MCImport.tla    # one run
    tlapm ImportProofs.tla                               # one proof module

## 1. The system

### Processes and shared state

* **API tasks** (two or more behind a load balancer).  `async def` routes
  (uploads, enqueue, `POST`/`PUT /transaction`, receipts) run on the event loop of
  their task and interleave where they `await`; `def` routes (deletes, chat, job
  status, budgets) run in a thread pool.  Different tasks share only the stores.
* **Worker tasks** (`worker.main`): a loop that receives SQS messages in batches of
  five and handles them one after the other.
* **The relational store** (`adapters/userstore.py`; Postgres in production, SQLite
  in development).  Each method is one committed transaction; a handler that calls
  three methods can be overtaken, or die, between them.
* **SQS** with a redrive policy to a DLQ after three receives, object storage for
  the uploaded files, Redis (optional) for rate limits, Bedrock.
* **The browser**, which keeps optimistic copies, polls jobs and retries requests.

So the unit of atomicity in the models is *one store method* (or one call to a
service), and everything else interleaves.

### Components

| Component | State | Operations | What makes it correct |
|---|---|---|---|
| Dedup tests (`dedup/`) | none | fingerprint, date tolerance, level-1 and level-2 checks | two rows are the same purchase exactly when fingerprint and dates say so |
| Statement import (`services.process_csv`) | `uploaded_files`, `transactions` | check file, replace, partition rows, record file, save rows | nothing is stored twice, nothing is silently lost, a replacement touches its own content only |
| Async upload (`handle_enqueue`, `process_job`, `worker`) | `upload_jobs`, the queue, the worker's batch | enqueue, receive, process, report, delete, redrive | a job is done once, a message leaves the queue as done only when it is, redelivery imports nothing twice |
| Idempotency keys and manual entry | `idempotency`, `transactions` | look up, warn, save, put | a replay gets the first response, a confirmation is honoured |
| Chat and rolling memory | `chat_sessions`, `chat_messages` | turn, compaction, reset, clear | the summary covers what it says it covers; a reset is not undone by a stream |
| Classification, catalog | `merchant_catalog` | batch, fall back one by one, validate, record | each row gets one valid result; a cached answer is one that was confident |
| Spending guard, cost log | `api_costs` | check before, record after | a day's cost stays near its limit |
| Rate limiter | counters per key and window | count, clean up, fail open | no more than the limit in a window |
| Ledger and budgets | `transactions`, `budgets` | update, delete, list, summarise | fingerprints follow their rows; totals are those of the rows |
| Receipts (`process_pdf`, `pdf_extractor`) | `uploaded_files`, `transactions` | extract with a fallback chain, record | a receipt that fails can be tried again |
| Statement parser | none | detect the header, parse amounts and dates | every row of a statement is read once, or reported |
| Connection pool | ten connections | take, give back | no request waits or fails because of a leak |
| Client: ledger behind the `api` object (`api/client.ts`, `mock/data.ts`) | the rows | the calls of the API | the in-browser store and the server mean the same by them |
| Client: Quick Add drawer | form, warning, the call under way | edit, save, Save anyway, close, reopen | what is saved is what was confirmed, once, and the views hear of it |
| Client: upload pages | phases, runs that outlive their page, polling | pick, append, replace, recategorise; preview, confirm | no run reaches a page that did not start it, nothing stored goes untold |
| Client: cached views (`hooks/useApi.ts`) | queries, mutations under way | read, invalidate, cancel, roll back, collect | a view at rest shows what is stored |
| Client: figures (`lib/aggregate.ts`, Dashboard, Insights) | none | month statistics, summary, bars, merchants | figures computed in different places agree |
| Client: transactions page and drawer | filters, order, ticks, drawer, audit, deletion | filter, tick, recategorise, explain, delete | what is deleted, explained, recategorised is what was chosen |
| Client: chat (`hooks/useChat.ts`) | the conversation, on the screen and in `localStorage` | send, stream, abort, new conversation | one answer at a time |
| Client: session (`context/auth.tsx`, `AuthPage.tsx`, `auth/cognito.ts`) | identity, form, what the browser keeps | restore, log in, guest, log out, demo data, reload | one identity, and its own conversation |
| Auth, config, metrics, prompts, storage | none of interest | | stateless, text or pure I/O: not modelled |

### How they interact

`POST /upload` runs the import in the request; `POST /enqueue` stores the file, writes
a job row and sends a message, and a worker runs *the same* `process_csv` later.  The
import calls the dedup tests on the shared `transactions` table, then the spending
guard, the catalog and Bedrock, then records the file, then saves the rows one by one,
then logs the cost.  `POST /transaction` consults the same fingerprints but with a wider
window, and caches its response under the client's key.  Chat reads the transactions and
keeps a summary of its own messages.  Nothing locks across two store methods.

In the client, every page reads through one cache of queries.  A mutation made by a hook
invalidates them when it settles; Quick Add and the upload page call the `api` object and invalidate by
themselves.  The router mounts one page at a time: leaving it drops its state, while its
calls go on and their callbacks find it gone, or find the next visit of the same page.  The drawers stay
mounted.  The status of the session decides whether the shell, with the chat in it, or the sign-in
page is there.

### The hard behaviours

1. *Check, then act, across transactions*: dedup queries before the saves, the idempotency
   look-up before the put, the budget read before the cost record.
2. *Crashes between two commits*: the record of a file is committed before its rows; the
   status of a job after its import; a message is deleted after its status.
3. *At-least-once delivery*: visibility timeouts shared by a batch, stale receipt handles,
   failing deletes.
4. *Order of two statements*: insert-or-ignore before deleting expired rows; the newest of
   several file records.
5. *Values read before a long call and used after it*: the chat summary, the client's
   optimistic snapshot.
6. *Answers that find another screen*: a form edited, a drawer with another transaction, a page left and
   visited again, a sign-in page that became a guest's, while a call was under way.
7. *A cache that is read, written and rolled back at once*: fetches overtaken by writes, pages of one read
   taken at different times, a snapshot put back over a later update.

## 2. Modules

    Dedup            the duplicate tests, pure operators
      ^   ^
      |   +------- Idempotency      POST /transaction with an Idempotency-Key
    Import           process_csv: calls that interleave, fail, and are deleted under
      ^
      |
    AsyncUpload      jobs, queue, workers; every import step is a step of Import
      |  ^
      |  +-------- ImportProofs     theorems about Import, AsyncUpload and its
      |                             refinement of JobQueue
      +- - - - - > JobQueue         the abstract promise (INSTANCE with a refinement mapping)

    Classification   catalog, engine and spending guard of process_csv, between its two phases
      ^
      +------------- ClassificationProofs    theorems about Classification

    ChatMemory       the coach's turns, its messages and their summary; stands alone
      ^
      +------------- ChatProofs     theorems about ChatMemory

    MockStore        the ledger as the client's calls read and write it, pure operators
      ^  ^  ^  ^
      |  |  |  +--- Aggregate        the figures of the pages, pure operators
      |  |  |         ^
      |  |  |         +-- QueryCache the cached views and the mutations
      |  |  |               ^
      |  |  |               +-- LedgerProofs      theorems about QuickAdd and QueryCache
      |  |  +------ QuickAdd <------+
      |  |                           the drawer of a manual entry
      |  +--------- TransactionsPage the list and the drawer of one transaction
      |               ^
      |               +-- TransactionsProofs   theorems about TransactionsPage
    UploadCsv        the statement page     UploadPdf   the receipt page
      ^                                       ^
      +---------------- Uploads --------------+    both under the router
                          ^
                          +-- UploadsProofs        theorems about Uploads and its pages

    ChatClient       the conversation       AuthPage    the sign-in form
      ^                                       ^
      +---------------- Session --------------+    who the client works for
                          ^
                          +-- SessionProofs        theorems about Session

`IdempotencyProofs` holds the theorems about `Idempotency`.  `LedgerProofs` extends two modules that have no
variable in common, the one that adds a row and the one that shows rows, and has each's theorems in a
part of its own.  For each run an `MC` module gives the
constants their values.  In the modules, an operator commented "Mutant" is a plausible wrong version of
the definition that follows it; no specification uses one.  Putting it in place of the right one breaks
the property it is listed with in `PROJECT.json`, which is how we know the property constrains the code.

### Dedup

`NormalizeAmount` rounds as Python's `round` (half to even, amounts are in hundredths);
`NormalizeDescription` turns the words of a description into a bag, since the code sorts
the tokens; the words dropped by the code's regular expressions are the constant `Noise`.
`WithinDays` falls back to equality of texts when a date is not ISO, as `_within_days` does.
The relation `Same` is reflexive and symmetric (lemmas of `ImportProofs`) but **not
transitive**: of three purchases a day apart the outer two differ.  The instance contains
such a triple.

### Import

A *call* is one execution of `process_csv`.

| Model | Code |
|---|---|
| `uploads` | table `uploaded_files`, by insertion; a record is the call that saved it |
| `txns` | table `transactions`, the rows that came from files; `<<c, k>>` is row `k` as call `c` stored it (its `file_id`) |
| `pc`, `file`, `force`, `latest`, `idx`, `kept`, `todo` | the call's locals: `force`, `existing`, the loop of `partition_transactions`, `new_rows`, the loop of `add_transaction` |
| `before`, `ever` | history: who had ended when a call began; every row ever stored |
| `CheckFile` | `dedup.check_file` and the branch on `force` |
| `DeleteByFile` | `delete_transactions_by_file` under `?force=replace` |
| `PartitionRow` | one round of `partition_transactions`, with its own query |
| `SaveFile` | `save_uploaded_file`, committed before the first row |
| `AddRow`, `Finish` | the save loop, and the return |
| `Fail` | an exception of a store, or the death of the task, between any two steps |
| `DeleteTransaction`, `ClearTransactions` | the two delete routes, at any moment; the file records stay |

Classification and the spending guard touch neither table: they fill the time between the
last dedup query and `SaveFile`, and their exceptions are `Fail`.  They are `Classification`'s.  All queries are by
`user_id`, so one user's calls are the whole story.  Manual entries and edits of
transactions are left to the ledger module of the plan: a manual entry can make an imported
row a duplicate, which the properties about `ever` would then have to mention.

### AsyncUpload

The call `<<j, n>>` of `Import` is the one the `n`-th delivery of job `j` makes, and names
its receipt handle.  `CreateJob` and `SendMessage` are `handle_enqueue` (the send may fail
after the row is committed); `Receive` takes up to `Batch` visible messages; `ReadJob`,
`MarkProcessing`, `Importing`, `Complete`, `ReportFailure` are the statements of
`process_job`; `Delete` is `delete_message`, which works with the last handle only and may
fail; `StoreError` is an exception outside the `try` of `process_job`; `Crash` loses the
worker's batch; `Expire` is the visibility timeout with the redrive policy.

Nothing is assumed about time.  A message's timeout (300 seconds for a batch of five handled in
turn, never extended) may run out while a worker has it: `Expire` then puts its job into the
history variable `overrun`, another worker may receive the message beside the first, whose handle
is stale, and every action goes on as the code does.  `MaxOverruns` bounds the jobs this happens
to.  The properties say of such a job what still holds: its deliveries are bounded, its message
leaves the queue, and it is deleted only when one of its deliveries succeeded.  Not that
rows are stored once, nor that COMPLETED is final: two imports may then run side by side, and the
slower one writes its status last.

### JobQueue

What a client may rely on, with no workers, stages or handles: a message moves from created
to queued (or is lost), is delivered a bounded number of times, is acknowledged only when
the job is done, is buried only after the last try, and done is for ever.  Of a job in `late`,
delivered again while it was worked on, only the number of deliveries and the end of its message are
promised.  `KeepsPromise` says that `AsyncUpload` implements it under the mapping shown there, with
`late <- overrun`.

### Idempotency

A request is the id of the transaction it would save.  `Come` is the look-up (before the
body is awaited) and takes what was cached; `Check` is the duplicate warning, which is
answered and *not* cached; `Save`, `Put` are the two writes; `AfterPut` is the SQL of
`idempotency_put` in the order the code has it; `Break` is any error or crash; `NextDay`
ages the table.  A client uses a key for one body only: `BodyOf`.  While no key is used after its
TTL (`MaxDay <= TtlDays`) a replay gets the first response.  After it, the insert that leaves an
expired row and the deletion that follows lose the new response, and a replay saves again.

### Classification

An upload is what `process_csv` does with its new rows between the last dedup query and the
first write, and the cost it records at the end.  A row is its merchant (the catalog's key, a
hash of the description), the category its text matches by keyword, and whether it is income.
Scores are in hundredths, so that 0.8 is 80.

| Model | Code |
|---|---|
| `catalog` | table `merchant_catalog`: `None`, or category, `confidence_sum`, `sample_count` |
| `spent`, `byUploads`, `other`, `today` | table `cost_log`, the rows of today, counted in calls: all of them, those of uploads, those of other features |
| `forced`, `results`, `row`, `order`, `out`, `usage` | `force_local` and the locals of `_classify_rows` and of `classify_batch` |
| `told`, `said`, `overlapped` | history: what the engine answered of each row; what each upload recorded of each merchant; which ran beside another |
| `Guard` | `_budget_guard`: the request's estimate (a number of rows) and the day's cost, read before any call |
| `Lookup` | a round of the loop with `catalog.lookup`; the first row of a merchant it misses joins `order` |
| `ClassifyByRule`, `ClassifyByModel`, `FallBack` | a batch of `LocalAI`, of `BedrockAI`, and of its `except` clause; `ClassifyByModel` chooses any reply, or none, for each row asked, and reads them back by number as the code does |
| `RecordAnswer` | a round of the last loop: fan-out to the merchant's rows, then `catalog.record` |
| `RecordCost` | `cost_tracker.record`, whose own errors are swallowed |
| `Fail` | an exception of a store or the death of the task: what was spent is then on no record |
| `OtherCost`, `NextDay` | the calls of chat, receipts and manual entries; midnight |

`MaxAtOnce` bounds the uploads at a time, and `MaxCalls` the batches of a file.  A batch that
fails may have been paid for (the answer came and could not be read) or not; an upload forced to
the rules pays nothing.

### ChatMemory

A message is its id; a summary is the set of the messages that went into it, that is, the model
that writes summaries is taken to keep what it is given.

| Model | Code |
|---|---|
| `row` | table `chat_sessions`: `NoRow`, or the summary and `summarized_through_id` |
| `log`, `issued` | table `chat_messages`, and the ids given out by its sequence |
| `hasTxns`, `memory`, `window`, `since`, `chunk` | the locals of `handle_chat` and of its stream: `has_transactions`, the summary read *before* the answer, the messages shown, `summarized_through_id`, `messages_to_compact` |
| `enforced` | whether the store refuses a message whose session is gone: Postgres does, SQLite keeps foreign keys off |
| `stock`, `clearing`, `requests` | the user's transactions as far as `handle_chat` looks at them; `handle_clear_transactions` between its two calls; the bound |
| `overlapped`, `setback` | history: the sessions that had two turns at once; those that had a turn which did not finish |
| `Come`, `LookAnyMonth`, `Forget` | `list_transactions`, its second try without the month, and the clearing of a user without transactions |
| `Open`, `Ask`, `ReadSession`, `ReadRecent`, `Reply` | one store call each, up to and after the stream |
| `CompactFrom`, `ListForSummary`, `UpdateSummary` | `list_chat_messages_for_summary` in its two transactions, `summarize_memory` with `update_chat_summary` |
| `Stop` | the client is gone, a store or a model fails, the answer is empty, the foreign key refuses, the task is killed |
| `ResetChat`, `ClearTransactions`, `ClearChatMemory`, `ImportTransactions` | the user's other requests, at any moment |

The page holds back a second question while an answer streams, but only within its own tab: the
session id is in `localStorage`, so two tabs share it, and a reload during an answer starts a turn
while the first still writes.  The ids of Postgres are taken to be committed in the order they
are given.

### MockStore, Aggregate

`mock/data.ts` "mirrors the FastAPI contract": each call of the client is translated from it, as an operator on a
set of rows, and from the server where the two are not the same (the order and the pages of
`GET /transactions`, `?force=` in `UploadCsv`).  Amounts are in tenths so that `Math.round` matters, dates in
days from the first of a first month of `DaysPerMonth` days.  `Norm` is what normalising makes of a description and `Keyword` the category
its text suggests.  `Aggregate` has the arithmetic of `lib/aggregate.ts`, and `Dashboard` the figures of that page.

### QuickAdd

| Model | Code |
|---|---|
| `open`, `form`, `categoryTouched`, `saving`, `warning`, `pendingInput` | the state, the form and the ref of the drawer, which stays mounted |
| `calls` | calls the client waits for or the server still works on; `waited` says which |
| `EditField`, `PickCategory` | a change of a watched field, with the effect that suggests a category and the one that withdraws the warning in the same step |
| `Submit`, `SaveAnyway`, `CancelWarning` | the buttons, by what is disabled while saving |
| `ServerCheck`, `ServerSave` | the two halves of a checked create: others may save in between |
| `AnswerSaved`, `AnswerWarned`, `AnswerLost` | what follows each `await`, with the invalidation of the views |
| `rows` | the ledger; a row remembers its call, and whether it was confirmed |

### UploadCsv, UploadPdf, Uploads

A *run* is one call of `run` or `runAsync`; `here` says that the page that started it is still mounted, and
`Show` that its setters do nothing otherwise, while `invalidateData` always works.  A run of a small file
reads, parses and sends; of a large one it enqueues and polls, at most `MaxPolls` times, a job that may
fail and be delivered again.  `recorded` and `onRecord` are the server's file records.  `Recategorize`
changes a row of the results and starts an update without a rollback.  The receipt page records,
extracts, previews, and confirms with a create that has no duplicate check; `create.isPending` is the
last mutation of this mount.  `Uploads` puts both under the router: `Visit` unmounts, and the answer of a confirmation
navigates home whatever page is there by then.

### QueryCache

| Model | Code |
|---|---|
| `cache` | each query: its data once known, whether stale, the fetch under way with the pages it has got |
| `writes` | mutations that are not answered, or that the server still works on |
| `Visit`, `Collect` | `staleTime` and `gcTime`: a query that is mounted is read unless fresh, one nobody shows is dropped |
| `ServerRead`, `AnswerRead`, `ReadFails` | one page of a read, its end, an error with one retry |
| `UpdateCategory` and the other four | the mutation, with `cancelQueries`, the snapshot and the patch for a category |
| `ServerApply`, `AnswerWrite`, `WriteFails`, `Forget` | the server's part; `onSuccess`, `onError`, `onSettled`; a request that never arrives |

The query library is outside the repository: `Invalidated`, `Cancelled`, `Put` and the fetches are modelled from how
`useApi.ts` uses it and marked external.  One of its rules bites: invalidating a query whose *first* fetch
is under way, or that nobody shows, does not start it again.  `overtaken` marks the queries to which this happened.

### TransactionsPage

`list` is the state of filters, order and paging, from which `Filtered` and `Shown` follow; `txns` the cached rows of the
month and of all months, which `Refresh` reads again at any moment; `selected` the ticks, which outlive
every change of the list.  The drawer stays mounted: its confirmation, its audit and its deletion are state that `CloseDetail`
and the answers clear or leave.  A bulk update is one change of the lists and one
call per ticked id.  How lists are read and rolled back is left to `QueryCache`.

### ChatClient, AuthPage, Session

An exchange is a question and its answer, made together; `sends` are the calls of `send` that have not
returned, of this widget or of one that is gone.  `AuthPage` is one form with five modes and the
submissions that are not answered; the answers of Cognito are any the form can tell apart.
`Session` adds the identity: `status`, `user`, the header's `userId`, the `token`, the keys of
`localStorage` and the session that Cognito's library keeps (`signedIn`).  `RestoreAccount` and
`RestoreNone` are the effect of a load, which may fail although a session is kept; `LoginAnswered` is what
follows the `await` of a login, wherever the user is by then; `Reload` leaves what `localStorage` holds.
`mixed`, `lapsed`, `toggled`, `crossed`, `retyped`, `shownTo` and a submission's `edited` are history.  `NotConfirmed` is the
catch branch for `UserNotConfirmedException`, which `onSubmit` has in common for all five modes: it moves the form to
the code page whatever the submission was, and leaves the address as it is by then.

## 3. Runs

Deadlock is off in every run: each system stops when its calls, jobs or requests are used up,
and nothing obliges a client to make more.

| Run | Bounds | Shows |
|---|---|---|
| `import` | 2 calls, 2 files of 3 rows that share purchases, all three forces, deletions, failures anywhere (90,262 states) | what the two levels of dedup keep |
| `async` | 2 jobs of one file of a row, 2 workers, batches of 2, 2 deliveries, one job overrun (1,309,069 states) | redelivery doubles nothing, a completed job counts its own rows, what is completed was imported, and the pipeline implements `JobQueue` |
| `async_drain` | 2 jobs of files that share a purchase, a fair worker, both jobs overrun (286,959 states) | every message leaves the queue |
| `async_lost` (violated) | one content | a worker that dies between the file record and the rows makes the redelivery a "duplicate": the job completes with nothing imported |
| `idempotency` | 4 requests, 2 keys, 2 days, TTL 1 (1.48 million states) | replays get the first response and agree; a confirmation saves; a double was confirmed |
| `classification` | 3 uploads, two at a time; one of 4 rows of 3 merchants, two of 2 rows of one; batches of 2, 2 samples to trust, a day's cap of 1 call, 2 days (159,061 states) | each row is saved with its own answer; one answer for a merchant and a settled catalog; the day's cap is passed by no more than the uploads let through together |
| `chat` | 3 turns, 2 sessions, limits 2, 2 and 2, two turns at a time, one other request (1,054,154 states) | no message is passed over by the summary, and nothing cleared comes back, in a session whose turns do not overlap; one message is hidden each turn |
| `quick_add` | 2 saves, one purchase in two categories and two dates, a ledger with and without it (0.89 million states) | one call at a time through every closing and reopening; a double was confirmed or a call lost; Save anyway saves what is shown; nothing is saved in silence |
| `uploads` | 4 calls: 2 runs, 2 updates, 2 readings, 2 confirmations; 4 files, 1 poll, 2 deliveries (1.23 million states) | a run belongs to its page; everything stored is announced; the results agree with the ledger; a receipt is saved once and previewed or missed, never both |
| `ledger_view` | 3 queries, 4 pages, 3 moves, pages of 2 rows (0.44 million states) | a view at rest shows the ledger; the figures agree |
| `transactions` | 3 rows in 2 months and 2 categories, 5 moves, pages of 1 (2.04 million states) | deletion, audit and categories are of the row the user chose |
| `session` | 2 accounts and a guest, 9 moves, 3 messages (0.87 million states) | one identity, its own conversation, one answer at a time, the code asked of the account on show |

The violated run states what a document of the repository says, and the counterexample is what the
code does; `PROJECT.json` quotes the lines under `findings`.

**Disagreements told here without a run.**  Found while modelling; the first five were shown by TLC in earlier configurations.

* Upload, append, then replace removes the rows of the newest record only, so those of the first upload stay
  (`services.py:178`), against the dialog's text (`strings.ts:366`).
* One visibility timeout of 300 seconds covers a batch of five messages handled in turn (`worker.py:58`): a
  slow batch is redelivered and imported side by side.
* A key used again after its TTL loses its new response (`userstore.py:1124`).
* A retry that overlaps its original saves again (`app.py:353`).
* A reply with an unknown category is sent to review and yet hardens the catalog for "Other" (`catalog.py:65`).
* `frontend/README.md:65` says that editing the entry dismisses the warning of Quick Add; an edit of its date or category does not
  (`QuickAddDrawer.tsx:89-91`), hence the words "description and amount" of `SavesWhatIsShown`.
* `strings.ts:445` promises all transactions as a file; `Settings.exportCsv` writes the first 500.
* A late login, or a restore that failed before, leaves the former conversation on the screen, although `auth.tsx:33`
  says that such state is dropped on any change of identity: the exceptions of `ChatIsOfIdentity`.
* An authenticated user may switch to demo data in Settings, although `auth.tsx:38-43` keeps them out on sign-in.
* An audit that arrives late is shown for the next transaction in the drawer (`TransactionDetail.tsx:52-60`), and a deletion that
  closes the drawer leaves one there: the exceptions of `AuditIsOfItsRow`.
* The `finally` of a send that was aborted clears the flag of the next one (`useChat.ts:93`): the exception of `OneAnswerAtATime`.

**Why the bounds are enough to be interesting.**  Two calls give every pairwise interleaving,
and each pair of the properties of `Import` relates two rows, hence at most two calls; the
proofs then cover any number.  The files hold a purchase repeated within one file, one a day
away across files, a non-transitive triple, amounts that differ by the rounding, a noise word,
and a date that is not ISO.  Two deliveries give a redelivery and a burial (production has
three, which exceeds what TLC explores in minutes; the theorems hold for every `MaxReceive`).
Batches of two give a message that waits while another is handled.  In `async` both jobs import the
same row, so that each can be the duplicate of the other, of an earlier delivery of its own, or of one that runs
beside it; one of them may be overrun and the other not, and what an overrun job
does to the other is seen.  `CountIsOfTheJob` says of a completed job that was not overrun that the
count it reports is of all rows its deliveries stored, not only the last one's, or
is 0 because an earlier delivery died after its record: the 0 that a client is told of an import that did
store rows has this one cause.  Four requests over two
keys allow two overlapping originals, then two replays that must agree; the bodies of the
keys are two days apart, beyond the import tolerance and within the warning's window.

In `chat` the limits are 2, 2 and 2 where production has 8, 8 and 20, so that the second turn of a
session compacts already; the theorems hold for all limits.  With one other request, a reset, a clearing
or an import falls anywhere among the turns.  Its properties except for sessions whose turns overlapped:
then the later of two turns writes a summary over the one it has not read while the
watermark keeps the maximum, so messages are lost, and a turn that began before a reset can bring
back what was reset.  That is a limit of the code, listed under the hazards; its comments promise
nothing about it.  `HiddenIsOneMessage` has the value of the limits in it: with the production limits,
`Keep + 1 - Recent` is one as well, the oldest message kept out of the summary, which the
new question pushes out of the window.

In `classification` the files give a row that the catalog may answer and one that it does not, an
order of two batches with a keyword match among the rows asked, and a merchant
that three uploads can learn.  `OneAnswerUnlessOverlapped` and `SettledUnlessOverlapped` except for
uploads that ran beside another: the catalog can then begin to answer between two rows of one
merchant, and an upload that looked up before it was settled may change it.  `SpendBounded` is what the
code does guarantee: `DayCap - 1 + MaxAtOnce * MaxCalls`, since the guard reads the day's cost
before the calls and the cost is recorded after.  It bounds what is *on record*: an upload that fails after its
calls, or whose cost row is not written, has spent without a trace, and the calls of other features count for the cap
but are not stopped by it.  The cap per request only forces the rules at the start and is off in the
instance; the theorems hold with it.

In the client's runs two calls, runs or updates give every pair that can meet, and the moves are as many as the
longest counterexample of a mutant takes, and one or two more: save, close, reopen, save again; pick, leave, visit, pick
again; open, confirm, close, open; guest, log in late, reload, restore.  `MaxPolls = 1` makes a job outlast its polling at once,
as sixty polls would.  Pages of two rows make the full history of three rows take two reads, with writes between
them, and `PageSize = 2` is also where the month no longer fits the list.  Fields are reduced to what the properties
tell apart: one description and one amount in `quick_add` still give expenses and incomes, two dates beyond and within the warning, and
every order of editing.  The bounds of `uploads` are on each kind of call and, by `MaxCalls`, on all together.

What the client's properties except is named in each by a history variable, and is the behaviour of the code
that no order of events may exceed: calls whose answer was lost, updates of one row that overlapped, a read that a write overtook with no
read to follow.

**Symmetry** is over identical calls, workers, uploads, requests, turns or sessions, and only in runs of the server that check safety
(`async_drain` has none; the client's runs have none either, since their constants are strings).  `KeepsPromise` is a safety property.

**Fairness** (`FairAsyncSpec`): weak fairness of each worker's own steps, for `main` loops for
ever and a task that dies is replaced (`Crash` empties the batch and the worker goes on); and
of `Expire`, for SQS always lets a timeout run out.  No fairness for clients, for the success
of a delete, for the absence of failures: `QueueDrains` holds because every delivery is
counted.  It does not say that a job completes, which nothing in the code guarantees.  The client's runs check safety only: a call may always
stay unanswered, so that nothing in the code must happen.

## 4. Theorems

Proved by TLAPS for every value of the constants that satisfies the named assumptions.

**ImportProofs** (assumes `TolAssumption`, `RowsAssumption`, `NoneAssumption`).
`TypeCorrect` is inductive by itself.  The safety properties are not: that a call stores no
purchase twice depends on what `kept` holds while it looks at rows; that a later call doubles
nothing depends on what it read *while the other call's rows could still be deleted*.  `IInv`
adds what the argument needs:

* `IdleIsFresh`, `BeforeHasEnded`, `RecordedCalls`, `EverRecorded`: whose rows and records can exist
  at all, and that a call in `before` changes nothing any more;
* `NewRows`: the kept rows are pairwise different purchases, and those not in `todo` are stored;
* `LookedAt`: each row looked at is the same purchase as a kept row or one that was stored, from
  which `DoneLosesNoRow`;
* `NewAgainstEnded`: no kept row of a call doubles a stored row of a call that had ended before it
  began.  Deletions only remove rows from `txns`, so they preserve it, and ended calls add none;
* `UnforcedIsFirst`, `Replacing`: what `check_file` found stays true until it is used, from which
  `RecordedOnceUnlessForced` and `UploadRemovesOnlyItsContent`.

`Invariance` is `Spec => []IInv`; `RowsAreRecorded`, `CallsNeverDouble`, `LaterCallsNeverDouble`,
`FileLevelDedup`, `SuccessLosesNoRow` and `ReplacesItsOwn` follow.  There is one lemma per action.

The part about **AsyncUpload** adds its assumptions.  `AsyncIsImport` shows `AsyncSpec => Spec`: every step of the pipeline is a step of `Import` or leaves
it unchanged, so all the theorems above hold of the workers; so
does `AsyncTypeCorrect`.  No theorem assumes anything of the visibility timeout; each says in its formula what it
promises of a job that was overrun.  `AsyncInvariance` proves `AsyncIInv`, in two parts.  `QueueIInv`: whoever
holds a message that was not overrun holds its last handle, alone, and so the status it read is still the status
(`HoldsCurrent`, `HeldOnce`, `StageMatchesStatus`).  `SuccessBehind`, of every job: what is COMPLETED, deleted
or about to be deleted has had a delivery that was imported or skipped as a duplicate.  From it `DeletedOnlyWhenCompleted`
(a deleted message has such a delivery, however deliveries overlap, and its job is COMPLETED unless they did),
`CompletedForGood`, and `PromiseKept`: `AsyncSpec => Queue!Spec`, one case per action, each mapped to
a step of `JobQueue` or a stutter; `Expire` of a message that a worker has is `Overrun`, or `Bury` with the job made late.

The part about **jobs**: `RedeliveryNeverDoubles` is `NoDoubleOnRedelivery`, which excepts a job whose deliveries
overlapped: they may import side by side.  Its invariant `TurnIInv` joins those of the
queue and of the import: a running import is the one its worker is at, and a worker holds the last
delivery alone, hence when a delivery begins, all earlier ones have ended (`InTurn`).  Then
`SequentialCallsNeverDouble`, proved of `Import`, applies to any two of them; it speaks of stored rows,
and `NothingRemoved` says that the pipeline removes none.
`CountedWhole` is `CountIsOfTheJob`, proved with `CountIInv`: a delivery that finds no record of its content comes after
no delivery of the job that stored a row, for rows have a record (`RecordPrecedesRows`) and no record is taken back; so what it
stores is all the job has stored, and a delivery that is a duplicate stores nothing itself.
`OutcomeIInv` holds of every job, overrun or not: what completes a job is on record and stays so.
`CompletedWasImported` follows, with `DoneLosesNoRow` of the import that holds the record.
`CompletedWasImported` is the strongest form that holds; `async_lost` refutes the one without exception.

**ChatProofs** (assumes `LimitsAssumption`, `NoRowAssumption`).  `IInv` joins the two safety properties,
`OwnSession`, and what they need: `TablesOwn` (the tables keep sessions apart), `OverlapKnown` (two
turns of a session at once are on record) and `MemoryCurrent` (what a turn alone in its session has
read is still so, or the session was cleared meanwhile).  Two facts carry it.  The messages compacted
are closed downwards among those after the watermark, so the new watermark passes over none of
them (`MemoryIsDurable`); and after a clearing, the session holds at most the turn's own answer,
which is recent and so is never compacted with the stale summary (`ClearedIsForgotten`).  `NothingLeaks`
holds with overlaps too.

`LittleIsHidden` is `LimitsFit => (Spec => []HiddenIsOneMessage)`, where `LimitsFit` says `2 <= Batch` and `Recent <= Keep + 1`
(production: 20, 8 and 8; the run: 2, 2 and 2): what a turn neither reads nor has in its summary is at most
`Keep + 1 - Recent` messages, however long the conversation, unless turns overlapped or one did not finish.  It needs `FitsInv`,
which counts: `AtRest`, a session between two turns holds at most `Keep` messages after its watermark (`Unsummarized`); a turn under way leaves
at most those it wrote itself besides (`Waiting`, `Written`), two in the end, so that one batch catches up
(lemma `CompactionCatchesUp`).  With `Batch = 1` the summary falls behind by a message each turn, and the theorem is false.

**ClassificationProofs** (assumes the six assumptions of `Classification`: finitely many uploads,
files of at most `MaxCalls` batches, `None` no entry).  The invariant has a part for each upload, `UploadOK`, and
three for all.  `ResultsOK` and `OutOK` carry `RowsGetTheirOwnAnswer`: the results of the engine are, in
their places, those of the merchants in `order`, and the answers of the model arrive where they
were asked because `PromptNumber` is injective on the rows asked (`AnswersAligned`).  `CatalogUnchanged`
carries `OneAnswer` and `Settled`: to an upload alone the catalog is as it was at each look-up, so what
it has yet to record is a merchant that the catalog does not answer.  `NotSaidYet` makes a sample more an
upload more (`SamplesCountUploads`).  `SpendingOK` carries `DayBounded`: an upload let through unforced brings a reserve
of `MaxCalls`, which it gives back with what it records; `UsageOK` says that its calls fit, one
for each batch.  The lemma `Frame` keeps the part of an upload that makes no step, unless another
records an answer, and then the two overlap.

**IdempotencyProofs** (assumes the assumptions of `Idempotency`).  `BInv` joins the types with what a request's stage says of it
(`StageOK`), whose response a row of the table is (`TableOK`), and what was similar when a request came (`StoredOK`); from it
`ConfirmationSaves` and `DoublesAreConfirmed`, for any number of days.  `KInv` adds, for `MaxDay <= TtlDays`, that a response once put is
the row of its key for good (`AnsweredOK`), and so is what a later request is given (`KnownOK`); from it `ReplaysHold` and
`ReplaysAgreeHolds`, which assume that bound and would be false without it.

**SessionProofs** (assumes that accounts, guest and demo user differ).  Four parts, each kept by every step.  `ChatInv`: a session id is new
when it is made, so a send that is gone belongs to no later conversation, and the send the ref holds is the one that streams.
`FormInv`: the form waits for one submission, whose address it shows unless that was edited meanwhile, in any of the five modes.  `IdentityInv`: what the
browser keeps has one owner at every status, the session of Cognito's library included, unless a restore failed (`lapsed`): then a guest or the
sign-in page may have another account's session kept beside it, until a later load restores it, which `IdentityIsOne` excepts.  `OwnerInv`: exchanges of
another identity come by the two ways `mixed` records.  `IdentityHolds`, `ChatOwnerHolds`, `OneAnswerHolds` and `AsksItsAccountHolds` follow, for
any accounts, messages and moves.

**TransactionsProofs** (assumes `TransactionsPageAssumption`: a finite ledger with distinct ids).  `DrawerInv`: a drawer without a transaction asks for
no confirmation, and an audit it still holds is marked `stray`; with it, opening the next transaction keeps `ConfirmedIsDeleted` and `AuditIsOwn`.
`PicksInv`: a row that is not doubtful has at most one update, which is to the category picked last, and has that category itself once
no update of it is yet to be applied; `LastPickIsKept` follows, for any ledger and any number of ticked rows.

**LedgerProofs**, the drawer (assumes `QuickAddAssumption`: the texts, the days and the two fallback categories are in their sets; and
`LedgersAssumption`: a ledger to start with is finite and numbered).  `QInv` has four parts.  `CallsInv`: the call that is waited for is the
only one, and one that is not has lost its answer.  `WarningInv`: a warning is about the pending input, which is what the form
shows unless the form moved before it came; an unmoved check under way was asked for what the form holds; `ShownIsSaved` follows.  `RowsInv`: a save
that was found clear doubles no row *still*, unless the answer of one of the two was lost, because the drawer waits, and a call given
up is on record as broken; `DoublesAreConfirmed` follows, and `SavedIsTold`, since the views are told before the drawer lets the next call go.
They hold for any number of calls, any ledger and any order of closing, editing and losing answers.

**LedgerProofs**, the views (assumes `QueryCacheAssumption` and `LedgerAssumption`: rows have distinct ids, numbered up to their number).
`QuietIsLedger` is `LedgerFits => (CacheSpec => []QuietViewIsLedger)`.  `LedgerFits` says that the rows and the moves are no more than `PageSize * MaxPages`,
which is where the loop of `listAllTransactions` stops whether or not there is more (100,000 rows in the code): beyond it a full
view is cut off and the property is false.  The invariant `CacheInv` says of each query no write has overtaken (`KeyOK`): fresh data are the view
unless a write is under way whose end will read it again (`Settled`); and a fetch has got, of what the ledger holds *now*, the first pages
(`FetchGood`), unless a write the client still waits for is done.  `Reset` is the state in which nothing need be said: overtaken, at the
start of a fetch, or not passing for fresh.  Every answer, failure, rollback and invalidation leaves the queries it touches reset or as they were (lemmas
`InvalidatedQuery`, `OvertakenQueries`), and `StepIsOK` draws the conclusion once for all actions.  The pages need counting: the ranks of n rows are the numbers
below n (`RanksCount`), so that a page adds the rows of its ranks and one that is not full is the last (`PagesAdd`); and `IdsBounded` keeps
the ids, hence the rows, below the start and the moves, with those of the creations still under way counted in.

**LedgerProofs**, the figures. `FiguresHold` is `LedgerFits => (CacheSpec => []FiguresAgree)`: the pages compute the same sum
in several ways (per month, per category, per day, per merchant, on the client or on the server), from data read at different
times. Sums need induction over a set, and the library's induction theorems cannot be instantiated here; `BySubsets` has it
in the form of sets: what holds of a set when it holds of its proper subsets holds of every subset of a finite set, by its
least counterexample. The library's fold chooses an iterator over the set; `SumsExist`, `SumsAgree` and `SumsAny` show that
there is one, that it is unique, and that it takes the elements in any order. Hence the laws the figures rest on: a total is
the sum of the totals of any two parts (`TotalOfParts`), and of the totals by any key, be it a category, a day or a merchant
(`TotalByKey`). `DataInv` is the invariant: data, fetches and snapshots are finite sets of rows of a ledger. With it the
first half is about any list on show (`RowsAgree`); the second follows from `QuietIsLedger` and from `ListedWhole`, that one
page holds a month of at most `PageSize` rows.

**UploadsProofs** (assumes the assumptions of `UploadCsv`, `UploadPdf` and `Uploads`).  A step of one page leaves the variables of the other alone, but for
what leaving a page drops, so each page has its invariant.  `CsvInv`: `RunsInv` says how far a run is and that only one is waited for (`OneRunHolds`);
`ViewsInv`, that a stored row is of a run whose answer says so or of a job, and a job whose run is over was completed or given up (`ToldHolds`);
`AgreeInv`, that a row which is not doubtful has the category of the results or will get it by its one update, and that rows
on their way to the page are as they were stored (`ResultsAgreeHolds`).  `PdfInv`: `ReadsInv`, that of a receipt whose reads
never overlapped one read is at work, before the record or after it, and it was not previewed yet (`PreviewedOnceHolds`); `CreatesInv` and
`ReviewInv`, that of two confirmations of a receipt the answer of one was lost, and that a preview still on show is one whose
confirmation, if there was any, is under way or lost (`SavedOnceHolds`).

**UploadsProofs**, the import. `Imported` keeps a row by a function that is defined by recursion on the rows before it.
`MarksExist` shows that there is such a function (the shortest prefix without one would have one), and `ImportMerges`, for
every ledger and every file, that no row added is the same purchase as a row that was there or as another one added, and that
each row of the file is the same purchase as a row that is there now. It is a theorem about the in-browser
ledger alone, whose `uploadCsv` is one synchronous piece of code; the server's import takes many steps, in which rows can be
doubled or lost, and what is true of it is in **ImportProofs**.

**Only model-checked**: `QueueDrains`, which is liveness.  `CompletedMeansImported` is the one that is violated.  Every other property of a
run is a theorem.

## 5. What is not modelled

The formats of statements, prompts and pages; the wording of errors; authentication; metrics.
The Postgres and SQLite variants of a method are modelled where they agree; the DynamoDB,
DocumentDB and MySQL stores are not the deployed ones.  Without a queue (local development)
`handle_enqueue` runs `process_job` in the request: a single delivery with no redelivery.  SQS drops
a message after four days in the queue; jobs that old are outside the model, and so is the loss of
committed data.  In `AsyncUpload` the user deletes nothing meanwhile; in `Import` deletions may come
at any moment.

Three libraries of the client are taken at their documented behaviour, as the code uses them: React (the setters of an
unmounted component do nothing; effects run after the render that changed what they watch, here in the same step), the
query library (above), and Cognito's (outcomes only).  Charts, layout, theme, language, palette and shortcuts are left out.  Other
tabs of the browser share `localStorage` and the server but are not modelled; nor is the chat's tool that sets a budget, whose
effect no cached query is told of, as is any write of another tab.

## 6. Plan

Done, in this order: `Dedup`, `Import`, `JobQueue`, `AsyncUpload`, `Idempotency`, `ChatMemory`, `Classification` with their proofs; then the client:
`MockStore`, `QuickAdd`, the upload pages, `Aggregate`, `QueryCache`, `TransactionsPage`, the session, and their proofs.

Left, in order of interest:

1. The keys of `/upload` composed with `Import`.
2. `RateLimit`: the fixed window and its clean-up, and by how much a limit can be exceeded.
3. The ledger on the server: an update with its recomputed fingerprint, composed with `Import`, whose level-2 query reads it.
4. A reference store for the client, of which `QueryCache` and `QuickAdd` are two users, with a proof that each refines it.
5. The receipts' extraction chain; `classify_one`, with the manual entries and receipts that call it.
6. The connection pool.
7. The statement parser: pure operators against a reference definition.
