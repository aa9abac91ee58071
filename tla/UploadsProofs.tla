--------------------------- MODULE UploadsProofs ----------------------------
(***************************************************************************)
(* The two upload pages, for any files, contents and receipts, and any     *)
(* number of runs, polls, deliveries, updates and confirmations.  The      *)
(* invariant of the statement page and that of the receipt page are proved *)
(* apart: a step of one page leaves the variables of the other alone, but  *)
(* for what leaving a page drops.                                          *)
(***************************************************************************)
EXTENDS Uploads, FiniteSetTheorems, TLAPS

(* The statement page *)

Statuses == {"QUEUED", "PROCESSING", "COMPLETED", "FAILED"}

RowRec == [id : Nat, date : Nat, description : DOMAIN Keyword, amount : Int,
           run : Nat, category : Categories]
Result == [id : Nat, category : Categories]

Reply == {NoReply, [kind |-> "duplicate"]}
            \union [kind : {"ok"}, saved : SUBSET RowRec]
            \union [kind : {"job"}, status : Statuses, inserted : Nat]

CsvRec == [phase : Phases, stage : Stages, asyncMode : BOOLEAN, count : Nat,
           results : SUBSET Result, dup : Files \union {NoFile}, lastFile : Files \union {NoFile}]
RunRec == [id : Nat, file : Files, force : Forces,
           at : {"reading", "parsing", "uploading", "enqueue", "polling"},
           guard : Nat, reply : Reply, here : BOOLEAN]
UpdateRec == [n : Nat, id : Nat, category : Categories,
              state : {"sent", "applied", "failed"}, here : BOOLEAN]
JobRec == [file : Files, status : Statuses, tries : 0..MaxReceive, inserted : Nat]

\* The types, and ids below the next one to be given.
CsvTyped ==
    /\ csv \in CsvRec /\ runs \subseteq RunRec /\ updates \subseteq UpdateRec
    /\ started \in 0..MaxRuns /\ updated \in 0..MaxUpdates
    /\ rows \subseteq RowRec /\ nextId \in Nat
    /\ recorded \in [Files -> 0..started]
    /\ jobs \in [DOMAIN jobs -> JobRec] /\ DOMAIN jobs \subseteq 1..started
    /\ unheard \subseteq 1..started
    /\ \A row \in rows : row.id < nextId /\ row.run \in 1..started
    /\ \A x \in csv.results : x.id < nextId
    /\ \A u \in updates : u.id < nextId
    /\ csv.phase = "duplicate" => csv.dup \in Files

\* A run and how far it is: its reply is of the call it waits for, a job of its
\* own is there once it was enqueued, and is completed when the reply says so.
RunOK(r) ==
    /\ r.id \in 1..started
    /\ r.at \in {"reading", "parsing"} => r.reply.kind = "none"
    /\ r.at = "uploading" => r.reply.kind \in {"none", "duplicate", "ok"}
    /\ r.at \in {"enqueue", "polling"} => r.reply.kind \in {"none", "job"}
    /\ r.id \in DOMAIN jobs <=> r.at = "polling" \/ r.reply.kind = "job"
    /\ r.reply.kind = "duplicate" => recorded[r.file] # 0
    /\ r.reply.kind = "job" /\ r.reply.status = "COMPLETED" => jobs[r.id].status = "COMPLETED"
    /\ r.reply.kind = "ok" => IsFiniteSet(r.reply.saved)
    /\ r.guard <= MaxPolls
    /\ r.at = "polling" /\ r.reply.kind = "none" => r.guard < MaxPolls

RunsInv ==
    /\ \A r \in runs : RunOK(r)
    /\ \A r, q \in runs : r.id = q.id => r = q
    /\ OneRunPerPage

\* Rows are stored by a run whose answer says so or by a job, and a job whose
\* run is over is completed or was given up.
ViewsInv ==
    /\ TheViewsAreTold
    /\ \A row \in rows, r \in runs :
          row.run = r.id => r.reply.kind = "ok" \/ r.id \in DOMAIN jobs
    /\ \A j \in DOMAIN jobs :
          j \in unheard \/ jobs[j].status = "COMPLETED" \/ \E r \in runs : r.id = j

\* The category of a row that is not doubtful is that of the results, or will be
\* by the one update that is under way.
Settled(i) ==
    /\ \A u, v \in updates : u.id = i /\ v.id = i => u = v
    /\ \A x \in csv.results, u \in updates : x.id = i /\ u.id = i => x.category = u.category
    /\ \A x \in csv.results, row \in rows :
          x.id = i /\ row.id = i /\ ~Overlaps(i) => x.category = row.category
    /\ \A u \in updates, row \in rows :
          u.id = i /\ row.id = i /\ u.state = "applied" => row.category = u.category

\* The rows on their way to the page are as they were stored.
OnTheirWay(r) ==
    \A s \in r.reply.saved :
        /\ s.id < nextId
        /\ \A u \in updates : u.id # s.id
        /\ \A row \in rows : row.id = s.id => row.category = s.category

AgreeInv ==
    /\ \A i \in 0..(nextId - 1) : i \notin doubtful => Settled(i)
    /\ \A r \in runs : r.here /\ r.reply.kind = "ok" => OnTheirWay(r)

CsvInv == CsvTyped /\ RunsInv /\ ViewsInv /\ AgreeInv

(* The receipt page *)

\* The server has checked the receipt of a read that is in one of these states.
Working == {"checked", "recorded", "extracted"}

\* The reads: one of the page, and of a receipt that is not overlapped one at work.
ReadsInv ==
    /\ \A r \in reads : r.n <= sent
    /\ \A r, q \in reads : r.n = q.n => r = q
    /\ \A r, q \in reads : r.here /\ q.here => r = q
    /\ \A r \in reads : r.here => pdf.phase = "reading"
    /\ \A r \in reads : r.state \in {"recorded", "extracted"} => r.receipt \in onRecord
    /\ previewed \union missed \subseteq onRecord
    /\ \A r, q \in reads :
          /\ r.receipt = q.receipt /\ r.receipt \notin overlapped
          /\ r.state \in Working /\ q.state \in Working
          => r = q
    /\ \A r \in reads :
          r.state = "checked" /\ r.receipt \notin overlapped => r.receipt \notin onRecord
    /\ \A r \in reads : r.here /\ r.state \in Working => r.receipt \notin previewed
    /\ PreviewedOnce

\* The confirmations: those of one receipt are of one preview, and all but the
\* last of them failed.
CreatesInv ==
    /\ \A c \in creates : c.n <= confirmed /\ c.data.receipt \in previewed
    /\ \A s \in saved : s.n <= confirmed /\ s.data.receipt \in previewed
    /\ \A c, d \in creates : c.n = d.n => c = d
    /\ \A s, q \in saved : s.n = q.n => s = q
    /\ \A c \in creates, s \in saved : c.n = s.n => c.state = "saved" /\ c.data = s.data
    /\ \A c, d \in creates :
          c.data.receipt = d.data.receipt /\ c.n # d.n => c.data.receipt \in lostSaves
    /\ \A c \in creates, s \in saved :
          c.data.receipt = s.data.receipt /\ c.n # s.n => s.data.receipt \in lostSaves
    /\ ReceiptSavedOnce
    /\ \A s \in saved : \/ s \in told
                        \/ s.data.receipt \in lostSaves
                        \/ \E c \in creates : c.n = s.n /\ c.state = "saved"

\* What the page shows in the review was confirmed by a call that is pending, or
\* by one that failed.
ReviewInv ==
    pdf.phase = "review" =>
        /\ pdf.data.receipt \in previewed
        /\ \A c \in creates :
              c.data.receipt = pdf.data.receipt => c.here \/ c.data.receipt \in lostSaves
        /\ \A s \in saved :
              s.data.receipt = pdf.data.receipt =>
                  s.data.receipt \in lostSaves \/ \E c \in creates : c.n = s.n

PdfInv == PdfTypeOK /\ ReadsInv /\ CreatesInv /\ ReviewInv

\* Only the page that is mounted holds any state.
PdfMounted ==
    /\ page \in Pages
    /\ page # "/receipt" => pdf = BlankPdf /\ \A r \in reads : ~r.here
CsvMounted ==
    /\ page \in Pages
    /\ page # "/upload" => csv = Blank /\ \A r \in runs : ~r.here

PdfSide == PdfInv /\ PdfMounted
CsvSide == CsvInv /\ CsvMounted

-----------------------------------------------------------------------------
(* The receipt page: reads *)

ReadRec == [n : 1..MaxReads, receipt : Readable, here : BOOLEAN,
            state : {"sent", "checked", "recorded", "refused", "extracted"}]
CreateRec == [n : 1..MaxCreates, data : Data, state : {"sent", "saved"}, here : BOOLEAN]

LEMMA ReadFields ==
    ASSUME NEW r \in ReadRec
    PROVE  /\ r.n \in Int /\ r.n \in 1..MaxReads /\ r.receipt \in Receipts /\ r.here \in BOOLEAN
           /\ r.state \in {"sent", "checked", "recorded", "refused", "extracted"}
BY UploadPdfAssumption DEF ReadRec

\* The server moves one read on, which keeps its number, receipt and page.
LEMMA ReadMoves ==
    ASSUME reads \subseteq ReadRec, NEW r \in reads,
           NEW state \in {"checked", "recorded", "refused", "extracted"}, At(r, state)
    PROVE  \E q \in ReadRec : /\ q.n = r.n /\ q.receipt = r.receipt /\ q.here = r.here
                              /\ q.state = state
                              /\ reads' = (reads \ {r}) \union {q}
<1> DEFINE q == [r EXCEPT !.state = state]
<1>1. q \in ReadRec /\ q.n = r.n /\ q.receipt = r.receipt /\ q.here = r.here /\ q.state = state
    BY DEF ReadRec
<1>2. reads' = (reads \ {r}) \union {q}
    BY DEF At
<1> HIDE DEF q
<1> QED
    BY <1>1, <1>2, Zenon

\* The steps of the page and its server that are about reads.
ReadGoesOn(r) == \/ ServerCheck(r) \/ ServerRecord(r) \/ ServerExtract(r)
                 \/ AnswerRead(r) \/ ReadFails(r) \/ ReadBreaks(r)

ReadStep ==
    \/ \E f \in Receipts : PickReceipt(f)
    \/ EditReceipt \/ BackToIdle
    \/ \E r \in reads : ReadGoesOn(r)

LEMMA ReadStepType ==
    ASSUME PdfTypeOK, ReadStep
    PROVE  PdfTypeOK'
<1>0. /\ pdf \in [phase : {"idle", "reading", "review", "error"}, data : Data]
      /\ reads \subseteq ReadRec
    BY DEF PdfTypeOK, ReadRec
<1>1. ASSUME pdf' \in [phase : {"idle", "reading", "review", "error"}, data : Data],
             reads' \subseteq ReadRec, sent' \in 0..MaxReads,
             onRecord' \union overlapped' \union previewed' \union missed' \subseteq Receipts,
             UNCHANGED <<creates, confirmed, saved, lostSaves, told>>
      PROVE  PdfTypeOK'
    BY <1>1 DEF PdfTypeOK, ReadRec
<1>2. ASSUME NEW f \in Receipts, PickReceipt(f) PROVE PdfTypeOK'
    <2>1. CASE f \notin Readable
        BY <1>0, <1>1, <1>2, <2>1 DEF PickReceipt, PdfTypeOK
    <2>2. CASE f \in Readable
        <3> DEFINE r == [n |-> sent + 1, receipt |-> f, state |-> "sent", here |-> TRUE]
        <3>1. sent' = sent + 1 /\ sent' \in 1..MaxReads /\ reads' = reads \union {r}
            BY <1>2, <2>2, UploadPdfAssumption DEF PickReceipt, PdfTypeOK
        <3>2. r \in ReadRec
            BY <2>2, <3>1 DEF ReadRec
        <3>3. pdf' = [pdf EXCEPT !.phase = "reading"]
            BY <1>2, <2>2 DEF PickReceipt
        <3>4. pdf' \in [phase : {"idle", "reading", "review", "error"}, data : Data]
            BY <1>0, <3>3
        <3> HIDE DEF r
        <3>5. reads' \subseteq ReadRec
            BY <1>0, <3>1, <3>2
        <3>6. UNCHANGED <<creates, confirmed, saved, lostSaves, told, onRecord, overlapped,
                          previewed, missed>>
            BY <1>2 DEF PickReceipt
        <3>7. onRecord \union overlapped \union previewed \union missed \subseteq Receipts
            BY DEF PdfTypeOK
        <3>8. sent' \in 0..MaxReads
            BY <3>1, UploadPdfAssumption
        <3> QED
            BY <1>1, <3>4, <3>5, <3>6, <3>7, <3>8
    <2> QED
        BY <2>1, <2>2
<1>3. CASE EditReceipt
    <2>1. pdf' \in [phase : {"idle", "reading", "review", "error"}, data : Data]
        BY <1>0, <1>3 DEF EditReceipt, Data
    <2> QED
        BY <1>0, <1>1, <1>3, <2>1 DEF EditReceipt, PdfTypeOK
<1>4. CASE BackToIdle
    BY <1>0, <1>1, <1>4 DEF BackToIdle, PdfTypeOK
<1>5. ASSUME NEW r \in reads, \/ ServerCheck(r) \/ ServerRecord(r) \/ ServerExtract(r)
                              \/ AnswerRead(r) \/ ReadFails(r) \/ ReadBreaks(r)
      PROVE  PdfTypeOK'
    <2>0. r \in ReadRec /\ r.receipt \in Receipts /\ \A q \in reads : q.receipt \in Receipts
        BY <1>0, ReadFields
    <2>1. CASE ServerCheck(r) \/ ServerRecord(r) \/ ServerExtract(r)
        <3>1. reads' \subseteq ReadRec
            BY <1>0, <2>1, ReadMoves DEF ServerCheck, ServerRecord, ServerExtract
        <3>2. overlapped' \subseteq Receipts /\ onRecord' \subseteq Receipts
            BY <2>0, <2>1 DEF ServerCheck, ServerRecord, ServerExtract, PdfTypeOK
        <3> QED
            BY <1>0, <1>1, <2>1, <3>1, <3>2 DEF ServerCheck, ServerRecord, ServerExtract, PdfTypeOK
    <2>2. CASE AnswerRead(r)
        <3>1. [phase |-> "review", data |-> [receipt |-> r.receipt, edited |-> FALSE]]
                \in [phase : {"idle", "reading", "review", "error"}, data : Data]
            BY <2>0 DEF Data
        <3> QED
            BY <1>0, <1>1, <2>0, <2>2, <3>1 DEF AnswerRead, PdfTypeOK
    <2>3. CASE ReadFails(r)
        BY <1>0, <1>1, <2>0, <2>3 DEF ReadFails, PdfTypeOK
    <2>4. CASE ReadBreaks(r)
        <3>1. [r EXCEPT !.here = FALSE] \in ReadRec
            BY <2>0 DEF ReadRec
        <3> QED
            BY <1>0, <1>1, <2>4, <3>1 DEF ReadBreaks, PdfTypeOK
    <2> QED
        BY <1>5, <2>1, <2>2, <2>3, <2>4
<1> QED
    BY <1>2, <1>3, <1>4, <1>5 DEF ReadStep, ReadGoesOn

\* A read that the server moves on keeps what ReadsInv says of numbers and pages.
LEMMA ReadsNumbered ==
    ASSUME NEW r \in reads, NEW q, reads' = (reads \ {r}) \union {q},
           q.n = r.n, q.here => r.here, UNCHANGED sent,
           \A x \in reads : x.n <= sent,
           \A x, y \in reads : x.n = y.n => x = y,
           \A x, y \in reads : x.here /\ y.here => x = y
    PROVE  /\ \A x \in reads' : x.n <= sent'
           /\ \A x, y \in reads' : x.n = y.n => x = y
           /\ \A x, y \in reads' : x.here /\ y.here => x = y
OBVIOUS

LEMMA CheckKeepsReads ==
    ASSUME PdfTypeOK, ReadsInv, NEW r \in reads, ServerCheck(r)
    PROVE  ReadsInv'
<1>0. reads \subseteq ReadRec /\ r.state = "sent"
    BY DEF PdfTypeOK, ReadRec, ServerCheck
<1>1. PICK q \in ReadRec :
        /\ q.n = r.n /\ q.receipt = r.receipt /\ q.here = r.here
        /\ q.state = IF r.receipt \in onRecord THEN "refused" ELSE "checked"
        /\ reads' = (reads \ {r}) \union {q}
    BY <1>0, ReadMoves DEF ServerCheck
<1>2. UNCHANGED <<pdf, sent, onRecord, previewed, missed>>
    BY DEF ServerCheck
<1>3. overlapped \subseteq overlapped' /\ \A p \in reads :
        p.receipt = r.receipt /\ p.state = "checked" => p.receipt \in overlapped'
    BY DEF ServerCheck
<1>4. /\ \A x \in reads' : x.n <= sent'
      /\ \A x, y \in reads' : x.n = y.n => x = y
      /\ \A x, y \in reads' : x.here /\ y.here => x = y
    BY <1>1, <1>2, ReadsNumbered DEF ReadsInv
<1>5. /\ \A x \in reads' : x.here => pdf'.phase = "reading"
      /\ \A x \in reads' : x.state \in {"recorded", "extracted"} => x.receipt \in onRecord'
      /\ previewed' \union missed' \subseteq onRecord'
    BY <1>1, <1>2 DEF ReadsInv
<1>6. ASSUME NEW x \in reads', NEW y \in reads', x.receipt = y.receipt,
             x.receipt \notin overlapped', x.state \in Working, y.state \in Working
      PROVE  x = y
    BY <1>0, <1>1, <1>2, <1>3, <1>6 DEF ReadsInv, Working
<1>7. \A x \in reads' : x.state = "checked" /\ x.receipt \notin overlapped' => x.receipt \notin onRecord'
    BY <1>1, <1>2, <1>3 DEF ReadsInv
<1>8. \A x \in reads' : x.here /\ x.state \in Working => x.receipt \notin previewed'
    BY <1>1, <1>2 DEF ReadsInv, Working
<1>9. PreviewedOnce'
    BY <1>0, <1>1, <1>2, <1>3 DEF ReadsInv, PreviewedOnce
<1> QED
    BY <1>4, <1>5, <1>6, <1>7, <1>8, <1>9 DEF ReadsInv

LEMMA RecordKeepsReads ==
    ASSUME PdfTypeOK, ReadsInv, NEW r \in reads, ServerRecord(r)
    PROVE  ReadsInv'
<1>0. reads \subseteq ReadRec /\ r.state = "checked"
    BY DEF PdfTypeOK, ReadRec, ServerRecord
<1>1. PICK q \in ReadRec :
        /\ q.n = r.n /\ q.receipt = r.receipt /\ q.here = r.here /\ q.state = "recorded"
        /\ reads' = (reads \ {r}) \union {q}
    BY <1>0, ReadMoves DEF ServerRecord
<1>2. UNCHANGED <<pdf, sent, overlapped, previewed, missed>> /\ onRecord' = onRecord \union {r.receipt}
    BY DEF ServerRecord
<1>4. /\ \A x \in reads' : x.n <= sent'
      /\ \A x, y \in reads' : x.n = y.n => x = y
      /\ \A x, y \in reads' : x.here /\ y.here => x = y
    BY <1>1, <1>2, ReadsNumbered DEF ReadsInv
<1>5. /\ \A x \in reads' : x.here => pdf'.phase = "reading"
      /\ \A x \in reads' : x.state \in {"recorded", "extracted"} => x.receipt \in onRecord'
      /\ previewed' \union missed' \subseteq onRecord'
    BY <1>1, <1>2 DEF ReadsInv
<1>6. ASSUME NEW x \in reads', NEW y \in reads', x.receipt = y.receipt,
             x.receipt \notin overlapped', x.state \in Working, y.state \in Working
      PROVE  x = y
    BY <1>0, <1>1, <1>2, <1>6 DEF ReadsInv, Working
<1>7. \A x \in reads' : x.state = "checked" /\ x.receipt \notin overlapped' => x.receipt \notin onRecord'
    BY <1>0, <1>1, <1>2 DEF ReadsInv, Working
<1>8. \A x \in reads' : x.here /\ x.state \in Working => x.receipt \notin previewed'
    BY <1>0, <1>1, <1>2 DEF ReadsInv, Working
<1>9. PreviewedOnce'
    <2> SUFFICES ASSUME NEW f \in onRecord', f \notin overlapped',
                        NEW reading,
                         reading = \E x \in reads' : x.receipt = f /\ x.state \in {"recorded", "extracted"}
                 PROVE  /\ reading \/ f \in previewed \union missed
                        /\ reading => f \notin previewed \union missed
                        /\ f \notin previewed \intersect missed
        BY <1>2 DEF PreviewedOnce
    <2>1. CASE f = r.receipt
        <3>1. f \notin onRecord
            BY <1>0, <1>2, <2>1 DEF ReadsInv
        <3> QED
            BY <1>1, <2>1, <3>1 DEF ReadsInv
    <2>2. CASE f # r.receipt
        BY <1>0, <1>1, <1>2, <2>2 DEF ReadsInv, PreviewedOnce
    <2> QED
        BY <2>1, <2>2
<1> QED
    BY <1>4, <1>5, <1>6, <1>7, <1>8, <1>9 DEF ReadsInv

LEMMA ExtractKeepsReads ==
    ASSUME PdfTypeOK, ReadsInv, NEW r \in reads, ServerExtract(r)
    PROVE  ReadsInv'
<1>0. reads \subseteq ReadRec /\ r.state = "recorded"
    BY DEF PdfTypeOK, ReadRec, ServerExtract
<1>1. PICK q \in ReadRec :
        /\ q.n = r.n /\ q.receipt = r.receipt /\ q.here = r.here /\ q.state = "extracted"
        /\ reads' = (reads \ {r}) \union {q}
    BY <1>0, ReadMoves DEF ServerExtract
<1>2. UNCHANGED <<pdf, sent, onRecord, overlapped, previewed, missed>>
    BY DEF ServerExtract
<1>4. /\ \A x \in reads' : x.n <= sent'
      /\ \A x, y \in reads' : x.n = y.n => x = y
      /\ \A x, y \in reads' : x.here /\ y.here => x = y
    BY <1>1, <1>2, ReadsNumbered DEF ReadsInv
<1>5. /\ \A x \in reads' : x.here => pdf'.phase = "reading"
      /\ \A x \in reads' : x.state \in {"recorded", "extracted"} => x.receipt \in onRecord'
      /\ previewed' \union missed' \subseteq onRecord'
    BY <1>0, <1>1, <1>2 DEF ReadsInv
<1>6. ASSUME NEW x \in reads', NEW y \in reads', x.receipt = y.receipt,
             x.receipt \notin overlapped', x.state \in Working, y.state \in Working
      PROVE  x = y
    BY <1>0, <1>1, <1>2, <1>6 DEF ReadsInv, Working
<1>7. \A x \in reads' : x.state = "checked" /\ x.receipt \notin overlapped' => x.receipt \notin onRecord'
    BY <1>0, <1>1, <1>2 DEF ReadsInv, Working
<1>8. \A x \in reads' : x.here /\ x.state \in Working => x.receipt \notin previewed'
    BY <1>0, <1>1, <1>2 DEF ReadsInv, Working
<1>9. PreviewedOnce'
    BY <1>0, <1>1, <1>2 DEF ReadsInv, PreviewedOnce
<1> QED
    BY <1>4, <1>5, <1>6, <1>7, <1>8, <1>9 DEF ReadsInv

\* A read that ends: the receipts of the others are as they were, and its own,
\* when it was recorded, was previewed or missed.
LEMMA ReadsEnded ==
    ASSUME ReadsInv, NEW r \in reads, reads' = reads \ {r},
           UNCHANGED <<sent, onRecord, overlapped>>,
           \A x \in reads' : x.here => pdf'.phase = "reading",
           \/ r.state \in {"recorded", "extracted"} /\ ~r.here
                /\ previewed' = previewed /\ missed' = missed \union {r.receipt}
           \/ r.state = "recorded"
                /\ previewed' = previewed /\ missed' = missed \union {r.receipt}
           \/ r.state = "extracted" /\ r.here
                /\ previewed' = previewed \union {r.receipt} /\ missed' = missed
           \/ r.state = "refused" /\ UNCHANGED <<previewed, missed>>
    PROVE  ReadsInv'
<1>1. /\ \A x \in reads' : x.n <= sent'
      /\ \A x, y \in reads' : x.n = y.n => x = y
      /\ \A x, y \in reads' : x.here /\ y.here => x = y
    BY DEF ReadsInv
<1>2. /\ \A x \in reads' : x.here => pdf'.phase = "reading"
      /\ \A x \in reads' : x.state \in {"recorded", "extracted"} => x.receipt \in onRecord'
      /\ previewed' \union missed' \subseteq onRecord'
    BY DEF ReadsInv
<1>3. ASSUME NEW x \in reads', NEW y \in reads', x.receipt = y.receipt,
             x.receipt \notin overlapped', x.state \in Working, y.state \in Working
      PROVE  x = y
    BY <1>3 DEF ReadsInv
<1>4. \A x \in reads' : x.state = "checked" /\ x.receipt \notin overlapped' => x.receipt \notin onRecord'
    BY DEF ReadsInv
<1>5. \A x \in reads' : x.here /\ x.state \in Working => x.receipt \notin previewed'
    BY DEF ReadsInv
<1>6. PreviewedOnce'
    <2> SUFFICES ASSUME NEW f \in onRecord, f \notin overlapped
                 PROVE  /\ \/ \E x \in reads' : x.receipt = f /\ x.state \in {"recorded", "extracted"}
                           \/ f \in previewed' \union missed'
                        /\ \A x \in reads' : x.receipt = f /\ x.state \in {"recorded", "extracted"} =>
                               f \notin previewed' \union missed'
                        /\ f \notin previewed' \intersect missed'
        BY DEF PreviewedOnce
    <2>0. /\ \/ \E x \in reads : x.receipt = f /\ x.state \in {"recorded", "extracted"}
             \/ f \in previewed \union missed
          /\ \A x \in reads : x.receipt = f /\ x.state \in {"recorded", "extracted"} =>
                 f \notin previewed \union missed
          /\ f \notin previewed \intersect missed
        BY DEF ReadsInv, PreviewedOnce
    <2>1. CASE f = r.receipt /\ r.state \in {"recorded", "extracted"}
        <3>1. \A x \in reads' : ~(x.receipt = f /\ x.state \in {"recorded", "extracted"})
            BY <2>1 DEF ReadsInv, Working
        <3> QED
            BY <2>0, <2>1, <3>1
    <2>2. CASE ~(f = r.receipt /\ r.state \in {"recorded", "extracted"})
        BY <2>0, <2>2
    <2> QED
        BY <2>1, <2>2
<1> QED
    BY <1>1, <1>2, <1>3, <1>4, <1>5, <1>6 DEF ReadsInv

\* A step that leaves the reads and the server alone keeps ReadsInv, when the
\* page goes on reading or no read is of the page.
LEMMA ReadsUntouched ==
    ASSUME ReadsInv, UNCHANGED <<reads, sent, onRecord, overlapped, previewed, missed>>,
           \A x \in reads : x.here => pdf'.phase = "reading"
    PROVE  ReadsInv'
BY DEF ReadsInv, PreviewedOnce

LEMMA BreakKeepsReads ==
    ASSUME PdfTypeOK, ReadsInv, NEW r \in reads, ReadBreaks(r)
    PROVE  ReadsInv'
<1> DEFINE q == [r EXCEPT !.here = FALSE]
<1>0. reads \subseteq ReadRec
    BY DEF PdfTypeOK, ReadRec
<1>1. q.n = r.n /\ q.receipt = r.receipt /\ ~q.here /\ q.state = r.state
    BY <1>0 DEF ReadRec
<1>2. reads' = (reads \ {r}) \union {q} /\ r.here
    BY DEF ReadBreaks
<1> HIDE DEF q
<1>3. UNCHANGED <<sent, onRecord, overlapped, previewed, missed>>
    BY DEF ReadBreaks
<1>4. /\ \A x \in reads' : x.n <= sent'
      /\ \A x, y \in reads' : x.n = y.n => x = y
      /\ \A x, y \in reads' : x.here /\ y.here => x = y
    BY <1>1, <1>2, <1>3, ReadsNumbered DEF ReadsInv
<1>5. /\ \A x \in reads' : x.here => pdf'.phase = "reading"
      /\ \A x \in reads' : x.state \in {"recorded", "extracted"} => x.receipt \in onRecord'
      /\ previewed' \union missed' \subseteq onRecord'
    BY <1>1, <1>2, <1>3 DEF ReadsInv
<1>6. ASSUME NEW x \in reads', NEW y \in reads', x.receipt = y.receipt,
             x.receipt \notin overlapped', x.state \in Working, y.state \in Working
      PROVE  x = y
    BY <1>1, <1>2, <1>3, <1>6 DEF ReadsInv, Working
<1>7. \A x \in reads' : x.state = "checked" /\ x.receipt \notin overlapped' => x.receipt \notin onRecord'
    BY <1>1, <1>2, <1>3 DEF ReadsInv
<1>8. \A x \in reads' : x.here /\ x.state \in Working => x.receipt \notin previewed'
    BY <1>1, <1>2, <1>3 DEF ReadsInv, Working
<1>9. PreviewedOnce'
    BY <1>1, <1>2, <1>3 DEF ReadsInv, PreviewedOnce
<1> QED
    BY <1>4, <1>5, <1>6, <1>7, <1>8, <1>9 DEF ReadsInv

LEMMA PickKeepsReads ==
    ASSUME PdfTypeOK, ReadsInv, NEW f \in Receipts, PickReceipt(f)
    PROVE  ReadsInv'
<1>0. /\ pdf.phase = "idle" /\ \A x \in reads : ~x.here /\ x \in ReadRec
      /\ UNCHANGED <<onRecord, overlapped, previewed, missed>>
    BY DEF PickReceipt, ReadsInv, PdfTypeOK, ReadRec
<1>1. CASE f \notin Readable
    BY <1>0, <1>1, ReadsUntouched DEF PickReceipt
<1>2. CASE f \in Readable
    <2> DEFINE r == [n |-> sent + 1, receipt |-> f, state |-> "sent", here |-> TRUE]
    <2>1. reads' = reads \union {r} /\ sent' = sent + 1 /\ sent \in Nat
        BY <1>2 DEF PickReceipt, PdfTypeOK
    <2>2. r.n = sent + 1 /\ r.state = "sent" /\ r.here
        OBVIOUS
    <2> HIDE DEF r
    <2>3. pdf'.phase = "reading"
        BY <1>2 DEF PickReceipt, PdfTypeOK
    <2>4. \A x \in reads : x.n <= sent /\ x.n \in Int
        BY <1>0, ReadFields DEF ReadsInv
    <2>5. /\ \A x \in reads' : x.n <= sent'
          /\ \A x, y \in reads' : x.n = y.n => x = y
        BY <2>1, <2>2, <2>4 DEF ReadsInv
    <2>6. /\ \A x, y \in reads' : x.here /\ y.here => x = y
          /\ \A x \in reads' : x.here => pdf'.phase = "reading"
          /\ \A x \in reads' : x.state \in {"recorded", "extracted"} => x.receipt \in onRecord'
          /\ previewed' \union missed' \subseteq onRecord'
        BY <1>0, <2>1, <2>2, <2>3 DEF ReadsInv
    <2>7. /\ \A x, y \in reads' :
                /\ x.receipt = y.receipt /\ x.receipt \notin overlapped'
                /\ x.state \in Working /\ y.state \in Working
                => x = y
          /\ \A x \in reads' :
                x.state = "checked" /\ x.receipt \notin overlapped' => x.receipt \notin onRecord'
          /\ \A x \in reads' : x.here /\ x.state \in Working => x.receipt \notin previewed'
        BY <1>0, <2>1, <2>2 DEF ReadsInv, Working
    <2>8. PreviewedOnce'
        BY <1>0, <2>1, <2>2 DEF ReadsInv, PreviewedOnce
    <2> QED
        BY <2>5, <2>6, <2>7, <2>8 DEF ReadsInv
<1> QED
    BY <1>1, <1>2

LEMMA LeavingKeepsReads ==
    ASSUME PdfTypeOK, ReadsInv, reads' = Unmounted(reads),
           UNCHANGED <<sent, onRecord, overlapped, previewed, missed>>
    PROVE  ReadsInv'
<1>0. reads \subseteq ReadRec
    BY DEF PdfTypeOK, ReadRec
<1> DEFINE m(r) == [r EXCEPT !.here = FALSE]
<1>1. reads' = {m(r) : r \in reads}
    BY DEF Unmounted
<1>2. \A r \in reads : ~m(r).here /\ m(r).n = r.n /\ m(r).receipt = r.receipt /\ m(r).state = r.state
    BY <1>0 DEF ReadRec
<1> HIDE DEF m
<1>3. \A x \in reads' : \E r \in reads :
          x = m(r) /\ ~x.here /\ x.n = r.n /\ x.receipt = r.receipt /\ x.state = r.state
    BY <1>1, <1>2
<1>4. \A r \in reads : m(r) \in reads' /\ m(r).receipt = r.receipt /\ m(r).state = r.state
    BY <1>1, <1>2
<1>5. /\ \A x \in reads' : x.n <= sent'
      /\ \A x, y \in reads' : x.n = y.n => x = y
      /\ \A x, y \in reads' : x.here /\ y.here => x = y
      /\ \A x \in reads' : x.here => pdf'.phase = "reading"
    BY <1>3 DEF ReadsInv
<1>6. /\ \A x \in reads' : x.state \in {"recorded", "extracted"} => x.receipt \in onRecord'
      /\ previewed' \union missed' \subseteq onRecord'
      /\ \A x \in reads' : x.state = "checked" /\ x.receipt \notin overlapped' => x.receipt \notin onRecord'
      /\ \A x \in reads' : x.here /\ x.state \in Working => x.receipt \notin previewed'
    BY <1>3 DEF ReadsInv
<1>7. ASSUME NEW x \in reads', NEW y \in reads', x.receipt = y.receipt,
             x.receipt \notin overlapped', x.state \in Working, y.state \in Working
      PROVE  x = y
    BY <1>3, <1>7 DEF ReadsInv
<1>8. PreviewedOnce'
    <2> SUFFICES ASSUME NEW f \in onRecord, f \notin overlapped
                 PROVE  /\ \/ \E x \in reads' : x.receipt = f /\ x.state \in {"recorded", "extracted"}
                           \/ f \in previewed \union missed
                        /\ \A x \in reads' : x.receipt = f /\ x.state \in {"recorded", "extracted"} =>
                               f \notin previewed \union missed
                        /\ f \notin previewed \intersect missed
        BY DEF PreviewedOnce
    <2> QED
        BY <1>3, <1>4 DEF ReadsInv, PreviewedOnce
<1> QED
    BY <1>5, <1>6, <1>7, <1>8 DEF ReadsInv

LEMMA ReadStepKeepsReads ==
    ASSUME PdfTypeOK, ReadsInv, ReadStep
    PROVE  ReadsInv'
<1>1. ASSUME NEW f \in Receipts, PickReceipt(f) PROVE ReadsInv'
    BY <1>1, PickKeepsReads
<1>2. CASE EditReceipt \/ BackToIdle
    BY <1>2, ReadsUntouched DEF EditReceipt, BackToIdle, ReadsInv
<1>3. ASSUME NEW r \in reads, AnswerRead(r) PROVE ReadsInv'
    <2>1. r.here => \A x \in reads \ {r} : ~x.here
        BY DEF ReadsInv
    <2>2. \A x \in reads' : x.here => pdf'.phase = "reading"
        BY <1>3, <2>1 DEF AnswerRead, ReadsInv
    <2> QED
        BY <1>3, <2>2, ReadsEnded DEF AnswerRead
<1>4. ASSUME NEW r \in reads, ReadFails(r) PROVE ReadsInv'
    <2>1. r.here => \A x \in reads \ {r} : ~x.here
        BY DEF ReadsInv
    <2>2. \A x \in reads' : x.here => pdf'.phase = "reading"
        BY <1>4, <2>1 DEF ReadFails, ReadsInv
    <2> QED
        BY <1>4, <2>2, ReadsEnded DEF ReadFails
<1> QED
    BY <1>1, <1>2, <1>3, <1>4, CheckKeepsReads, RecordKeepsReads, ExtractKeepsReads, BreakKeepsReads
       DEF ReadStep, ReadGoesOn

-----------------------------------------------------------------------------
(* The receipt page: confirmations *)

LEMMA CreateFields ==
    ASSUME NEW c \in CreateRec
    PROVE  /\ c.n \in Int /\ c.n \in 1..MaxCreates /\ c.data \in Data /\ c.here \in BOOLEAN
           /\ c.state \in {"sent", "saved"} /\ c.data.receipt \in Receipts \union {"none"}
BY UploadPdfAssumption DEF CreateRec, Data

\* A step about reads shows the review of a receipt nobody confirmed yet, or none.
LEMMA ReadStepKeepsCreates ==
    ASSUME PdfTypeOK, ReadsInv, CreatesInv, ReviewInv, ReadStep
    PROVE  CreatesInv' /\ ReviewInv'
<1>1. previewed \subseteq previewed' /\ UNCHANGED <<creates, confirmed, saved, lostSaves, told>>
    BY DEF ReadStep, ReadGoesOn, PickReceipt, EditReceipt, BackToIdle, ServerCheck, ServerRecord,
           ServerExtract, AnswerRead, ReadFails, ReadBreaks
<1>2. CreatesInv'
    BY <1>1 DEF CreatesInv, ReceiptSavedOnce
<1>3. ASSUME pdf'.phase = "review" => pdf.phase = "review" /\ pdf'.data.receipt = pdf.data.receipt
      PROVE  ReviewInv'
    BY <1>1, <1>3 DEF ReviewInv
<1>4. ASSUME NEW f \in Receipts, PickReceipt(f) PROVE ReviewInv'
    BY <1>3, <1>4 DEF PickReceipt, PdfTypeOK
<1>5. ASSUME EditReceipt \/ BackToIdle PROVE ReviewInv'
    <2>1. CASE EditReceipt
        <3>1. pdf' = [pdf EXCEPT !.data.edited = TRUE] /\ pdf.phase = "review"
            BY <2>1 DEF EditReceipt
        <3>2. pdf \in [phase : {"idle", "reading", "review", "error"}, data : Data]
            BY DEF PdfTypeOK
        <3>3. pdf'.data.receipt = pdf.data.receipt
            BY <3>1, <3>2 DEF Data
        <3>4. pdf'.phase = "review" => pdf.phase = "review" /\ pdf'.data.receipt = pdf.data.receipt
            BY <3>1, <3>3
        <3> QED
            BY <1>3, <3>4
    <2>2. CASE BackToIdle
        <3>1. pdf' = [pdf EXCEPT !.phase = "idle"]
            BY <2>2 DEF BackToIdle
        <3>2. pdf \in [phase : {"idle", "reading", "review", "error"}, data : Data]
            BY DEF PdfTypeOK
        <3>3. pdf'.phase = "idle"
            BY <3>1, <3>2
        <3>4. pdf'.phase = "review" => pdf.phase = "review" /\ pdf'.data.receipt = pdf.data.receipt
            BY <3>3
        <3> QED
            BY <1>3, <3>4
    <2> QED
        BY <1>5, <2>1, <2>2
<1>6. ASSUME NEW r \in reads, ServerCheck(r) \/ ServerRecord(r) \/ ServerExtract(r) PROVE ReviewInv'
    BY <1>3, <1>6 DEF ServerCheck, ServerRecord, ServerExtract
<1>7. ASSUME NEW r \in reads, ReadFails(r) \/ ReadBreaks(r) PROVE ReviewInv'
    BY <1>3, <1>7 DEF ReadFails, ReadBreaks, PdfTypeOK
<1>8. ASSUME NEW r \in reads, AnswerRead(r) PROVE ReviewInv'
    <2>1. CASE r.here
        <3>1. r.receipt \notin previewed
            BY <1>8, <2>1 DEF AnswerRead, ReadsInv, Working
        <3>2. /\ \A c \in creates : c.data.receipt # r.receipt
              /\ \A s \in saved : s.data.receipt # r.receipt
            BY <3>1 DEF CreatesInv
        <3>3. pdf'.data.receipt = r.receipt /\ r.receipt \in previewed'
            BY <1>8, <2>1 DEF AnswerRead
        <3> QED
            BY <1>1, <3>2, <3>3 DEF ReviewInv
    <2>2. CASE ~r.here
        BY <1>3, <1>8, <2>2 DEF AnswerRead
    <2> QED
        BY <2>1, <2>2
<1>9. ReviewInv'
    BY <1>4, <1>5, <1>6, <1>7, <1>8 DEF ReadStep, ReadGoesOn
<1> QED
    BY <1>2, <1>9

LEMMA ConfirmKept ==
    ASSUME PdfTypeOK, ReadsInv, CreatesInv, ReviewInv, Confirm
    PROVE  PdfInv'
<1> DEFINE c == [n |-> confirmed + 1, data |-> pdf.data, state |-> "sent", here |-> TRUE]
<1>0. /\ creates \subseteq CreateRec /\ confirmed \in Nat /\ confirmed < MaxCreates
      /\ pdf.data \in Data /\ confirmed + 1 \in 1..MaxCreates
    BY UploadPdfAssumption DEF Confirm, PdfTypeOK, CreateRec
<1>1. /\ creates' = creates \union {c} /\ confirmed' = confirmed + 1
      /\ UNCHANGED <<pdf, reads, sent, onRecord, saved, overlapped, previewed, missed,
                     lostSaves, told>>
    BY DEF Confirm
<1>2. /\ c \in CreateRec /\ c.n = confirmed + 1 /\ c.data = pdf.data /\ c.here /\ c.state = "sent"
    BY <1>0 DEF CreateRec
<1> HIDE DEF c
<1>3. /\ pdf.phase = "review" /\ \A x \in creates : ~x.here
      /\ pdf.data.receipt \in previewed
    BY DEF Confirm, IsPending, ReviewInv
<1>4. creates' \subseteq CreateRec
    BY <1>0, <1>1, <1>2
<1>5. PdfTypeOK'
    BY <1>0, <1>1, <1>4, UploadPdfAssumption DEF PdfTypeOK, CreateRec
<1>6. ReadsInv'
    BY <1>1 DEF ReadsInv, PreviewedOnce
<1>7. /\ \A x \in creates : x.n \in Int /\ x.n <= confirmed /\ x.data.receipt \in previewed
      /\ \A s \in saved : s.n \in Int /\ s.n <= confirmed /\ s.data.receipt \in previewed
    BY <1>0, CreateFields DEF CreatesInv, PdfTypeOK
<1>8. \A x \in creates : x.data.receipt = pdf.data.receipt => x.data.receipt \in lostSaves
    BY <1>3 DEF ReviewInv
<1>9. \A s \in saved : s.data.receipt = pdf.data.receipt => s.data.receipt \in lostSaves
    <2> SUFFICES ASSUME NEW s \in saved, s.data.receipt = pdf.data.receipt,
                        NEW x \in creates, x.n = s.n
                 PROVE  s.data.receipt \in lostSaves
        BY <1>3 DEF ReviewInv
    <2> QED
        BY <1>8 DEF CreatesInv
<1>10. /\ \A x \in creates' : x.n <= confirmed' /\ x.data.receipt \in previewed'
       /\ \A s \in saved' : s.n <= confirmed' /\ s.data.receipt \in previewed'
       /\ \A x, y \in creates' : x.n = y.n => x = y
       /\ \A s, q \in saved' : s.n = q.n => s = q
       /\ \A x \in creates', s \in saved' : x.n = s.n => x.state = "saved" /\ x.data = s.data
    BY <1>0, <1>1, <1>2, <1>3, <1>7 DEF CreatesInv
<1>11. /\ \A x, y \in creates' :
             x.data.receipt = y.data.receipt /\ x.n # y.n => x.data.receipt \in lostSaves'
       /\ \A x \in creates', s \in saved' :
             x.data.receipt = s.data.receipt /\ x.n # s.n => s.data.receipt \in lostSaves'
       /\ ReceiptSavedOnce'
    BY <1>1, <1>2, <1>8, <1>9 DEF CreatesInv, ReceiptSavedOnce
<1>12. \A s \in saved' : \/ s \in told'
                          \/ s.data.receipt \in lostSaves'
                          \/ \E x \in creates' : x.n = s.n /\ x.state = "saved"
    BY <1>1 DEF CreatesInv
<1>13. CreatesInv'
    BY <1>10, <1>11, <1>12 DEF CreatesInv
<1>14. ReviewInv'
    BY <1>1, <1>2, <1>3, <1>8, <1>9 DEF ReviewInv
<1> QED
    BY <1>5, <1>6, <1>13, <1>14 DEF PdfInv

LEMMA CreateKept ==
    ASSUME PdfTypeOK, ReadsInv, CreatesInv, ReviewInv, NEW c \in creates, ServerCreate(c)
    PROVE  PdfInv'
<1> DEFINE d == [c EXCEPT !.state = "saved"]
           t == [n |-> c.n, data |-> c.data]
<1>0. creates \subseteq CreateRec /\ c \in CreateRec /\ c.state = "sent"
    BY DEF ServerCreate, PdfTypeOK, CreateRec
<1>1. /\ creates' = (creates \ {c}) \union {d} /\ saved' = saved \union {t}
      /\ UNCHANGED <<pdf, reads, sent, confirmed, onRecord, overlapped, previewed, missed,
                     lostSaves, told>>
    BY DEF ServerCreate
<1>2. /\ d \in CreateRec /\ d.n = c.n /\ d.data = c.data /\ d.here = c.here /\ d.state = "saved"
      /\ t \in [n : 1..MaxCreates, data : Data] /\ t.n = c.n /\ t.data = c.data
    BY <1>0 DEF CreateRec
<1> HIDE DEF d, t
<1>3. /\ creates' \subseteq CreateRec
      /\ saved' \subseteq [n : 1..MaxCreates, data : Data] /\ told' \subseteq saved'
    BY <1>0, <1>1, <1>2 DEF PdfTypeOK
<1>5. PdfTypeOK'
    BY <1>1, <1>3 DEF PdfTypeOK, CreateRec
<1>6. ReadsInv'
    BY <1>1 DEF ReadsInv, PreviewedOnce
<1>7. \A s \in saved : s.n # c.n
    BY <1>0 DEF CreatesInv
<1>10. /\ \A x \in creates' : x.n <= confirmed' /\ x.data.receipt \in previewed'
       /\ \A s \in saved' : s.n <= confirmed' /\ s.data.receipt \in previewed'
       /\ \A x, y \in creates' : x.n = y.n => x = y
       /\ \A s, q \in saved' : s.n = q.n => s = q
       /\ \A x \in creates', s \in saved' : x.n = s.n => x.state = "saved" /\ x.data = s.data
    BY <1>0, <1>1, <1>2, <1>7 DEF CreatesInv
<1>11. /\ \A x, y \in creates' :
             x.data.receipt = y.data.receipt /\ x.n # y.n => x.data.receipt \in lostSaves'
       /\ \A x \in creates', s \in saved' :
             x.data.receipt = s.data.receipt /\ x.n # s.n => s.data.receipt \in lostSaves'
    BY <1>1, <1>2, <1>7 DEF CreatesInv
<1>8. ReceiptSavedOnce'
    BY <1>1, <1>2, <1>7 DEF CreatesInv, ReceiptSavedOnce
<1>12. \A s \in saved' : \/ s \in told'
                          \/ s.data.receipt \in lostSaves'
                          \/ \E x \in creates' : x.n = s.n /\ x.state = "saved"
    BY <1>1, <1>2 DEF CreatesInv
<1>13. CreatesInv'
    BY <1>8, <1>10, <1>11, <1>12 DEF CreatesInv
<1>14. ReviewInv'
    BY <1>1, <1>2 DEF ReviewInv
<1> QED
    BY <1>5, <1>6, <1>13, <1>14 DEF PdfInv

LEMMA CreateFailKept ==
    ASSUME PdfTypeOK, ReadsInv, CreatesInv, ReviewInv, NEW c \in creates, CreateFails(c)
    PROVE  PdfInv'
<1>0. /\ creates \subseteq CreateRec /\ c \in CreateRec /\ c.data.receipt \in previewed
      /\ previewed \subseteq Receipts
    BY DEF PdfTypeOK, CreateRec, CreatesInv
<1>1. /\ creates' = creates \ {c} /\ lostSaves' = lostSaves \union {c.data.receipt}
      /\ UNCHANGED <<pdf, reads, sent, confirmed, onRecord, saved, overlapped, previewed, missed,
                     told>>
    BY DEF CreateFails
<1>2. PdfTypeOK'
    BY <1>0, <1>1 DEF PdfTypeOK
<1>3. ReadsInv'
    BY <1>1 DEF ReadsInv, PreviewedOnce
<1>4. CreatesInv'
    BY <1>1 DEF CreatesInv, ReceiptSavedOnce
<1>5. ReviewInv'
    <2> SUFFICES ASSUME NEW s \in saved, pdf.phase = "review",
                        s.data.receipt = pdf.data.receipt, s.n = c.n
                 PROVE  s.data.receipt \in lostSaves'
        BY <1>1 DEF ReviewInv
    <2> QED
        BY <1>1 DEF CreatesInv
<1> QED
    BY <1>2, <1>3, <1>4, <1>5 DEF PdfInv

\* What the change of the page does to the calls and to what it showed: others
\* are the confirmations that are still unanswered.
LEMMA LeavingKept ==
    ASSUME NEW others, others \subseteq creates, NEW to, LeavePdf(to, others),
           PdfTypeOK, ReadsInv, CreatesInv,
           page = "/receipt" => to # page, page # "/receipt" => pdf = BlankPdf,
           UNCHANGED <<sent, confirmed, onRecord, saved, overlapped, previewed, missed, lostSaves>>,
           told \subseteq told', told' \subseteq saved,
           \A x \in creates \ others : x.state = "saved" => told' = saved
    PROVE  PdfInv'
<1>0. creates \subseteq CreateRec /\ reads \subseteq ReadRec /\ others \subseteq CreateRec
    BY DEF PdfTypeOK, CreateRec, ReadRec
<1>1. /\ pdf' = BlankPdf /\ pdf'.phase = "idle"
      /\ pdf' \in [phase : {"idle", "reading", "review", "error"}, data : Data]
    <2>1. pdf' = BlankPdf
        BY DEF LeavePdf
    <2> QED
        BY <2>1 DEF BlankPdf, NoData, Data
<1>2. reads' \subseteq ReadRec /\ ReadsInv'
    <2>1. CASE page = "/receipt"
        <3>1. reads' = Unmounted(reads)
            BY <2>1 DEF LeavePdf
        <3>2. \A r \in reads : [r EXCEPT !.here = FALSE] \in ReadRec
            BY <1>0 DEF ReadRec
        <3> QED
            BY <3>1, <3>2, LeavingKeepsReads DEF Unmounted
    <2>2. CASE page # "/receipt"
        <3>1. reads' = reads /\ pdf.phase = "idle"
            BY <2>2 DEF LeavePdf, BlankPdf
        <3> QED
            BY <1>0, <3>1, ReadsUntouched DEF ReadsInv
    <2> QED
        BY <2>1, <2>2
<1> DEFINE m(c) == IF page = "/receipt" THEN [c EXCEPT !.here = FALSE] ELSE c
<1>10. creates' = {m(c) : c \in others}
    <2>1. CASE page = "/receipt"
        BY <2>1 DEF LeavePdf, Unmounted
    <2>2. CASE page # "/receipt"
        BY <2>2 DEF LeavePdf
    <2> QED
        BY <2>1, <2>2
<1>11. \A c \in others :
          m(c) \in CreateRec /\ m(c).n = c.n /\ m(c).data = c.data /\ m(c).state = c.state
    BY <1>0 DEF CreateRec
<1> HIDE DEF m
<1>3. \A x \in creates' : \E c \in others :
          x = m(c) /\ x \in CreateRec /\ x.n = c.n /\ x.data = c.data /\ x.state = c.state
    BY <1>10, <1>11
<1>4. \A c \in others : \E x \in creates' : x.n = c.n /\ x.state = c.state
    BY <1>10, <1>11
<1>5. PdfTypeOK'
    <2>1. creates' \subseteq CreateRec
        BY <1>3
    <2> QED
        BY <1>1, <1>2, <2>1 DEF PdfTypeOK, ReadRec, CreateRec
<1>6. /\ \A x \in creates' : x.n <= confirmed' /\ x.data.receipt \in previewed'
      /\ \A s \in saved' : s.n <= confirmed' /\ s.data.receipt \in previewed'
      /\ \A x, y \in creates' : x.n = y.n => x = y
      /\ \A s, q \in saved' : s.n = q.n => s = q
      /\ \A x \in creates', s \in saved' : x.n = s.n => x.state = "saved" /\ x.data = s.data
    BY <1>3 DEF CreatesInv
<1>7. /\ \A x, y \in creates' :
            x.data.receipt = y.data.receipt /\ x.n # y.n => x.data.receipt \in lostSaves'
      /\ \A x \in creates', s \in saved' :
            x.data.receipt = s.data.receipt /\ x.n # s.n => s.data.receipt \in lostSaves'
      /\ ReceiptSavedOnce'
    BY <1>3 DEF CreatesInv, ReceiptSavedOnce
<1>8. \A s \in saved' : \/ s \in told'
                         \/ s.data.receipt \in lostSaves'
                         \/ \E x \in creates' : x.n = s.n /\ x.state = "saved"
    BY <1>4 DEF CreatesInv
<1>9. CreatesInv' /\ ReviewInv'
    BY <1>1, <1>6, <1>7, <1>8 DEF CreatesInv, ReviewInv
<1> QED
    BY <1>2, <1>5, <1>9 DEF PdfInv

LEMMA MountedKept ==
    ASSUME PdfInv, PdfMounted, ReadStep, UNCHANGED page,
           page = "/receipt" \/ \E r \in reads : ReadGoesOn(r)
    PROVE  PdfMounted'
<1> SUFFICES ASSUME page # "/receipt", \A r \in reads : ~r.here, pdf = BlankPdf
             PROVE  pdf' = BlankPdf /\ \A r \in reads' : ~r.here
    BY DEF PdfMounted
<1>0. reads \subseteq ReadRec /\ pdf.phase = "idle"
    BY DEF PdfInv, PdfTypeOK, ReadRec, BlankPdf
<1>1. ASSUME NEW r \in reads, NEW q, reads' = (reads \ {r}) \union {q}, q.here = r.here, UNCHANGED pdf
      PROVE  pdf' = BlankPdf /\ \A x \in reads' : ~x.here
    BY <1>1
<1>2. ASSUME NEW r \in reads, reads' = reads \ {r}, UNCHANGED pdf
      PROVE  pdf' = BlankPdf /\ \A x \in reads' : ~x.here
    BY <1>2
<1>3. ASSUME NEW r \in reads, ServerCheck(r) \/ ServerRecord(r) \/ ServerExtract(r)
      PROVE  pdf' = BlankPdf /\ \A x \in reads' : ~x.here
    <2>1. UNCHANGED pdf /\ \E q \in ReadRec : q.here = r.here /\ reads' = (reads \ {r}) \union {q}
        BY <1>0, <1>3, ReadMoves DEF ServerCheck, ServerRecord, ServerExtract
    <2> QED
        BY <1>1, <2>1
<1>4. ASSUME NEW r \in reads, AnswerRead(r) \/ ReadFails(r) \/ ReadBreaks(r)
      PROVE  pdf' = BlankPdf /\ \A x \in reads' : ~x.here
    <2>1. ~r.here
        OBVIOUS
    <2>2. ~ReadBreaks(r)
        BY <2>1 DEF ReadBreaks
    <2>3. UNCHANGED pdf /\ reads' = reads \ {r}
        BY <1>4, <2>1, <2>2 DEF AnswerRead, ReadFails
    <2> QED
        BY <1>2, <2>3
<1>5. ~EditReceipt /\ ~BackToIdle
    <2>1. EditReceipt => pdf.phase = "review"
        BY DEF EditReceipt
    <2>2. BackToIdle => pdf.phase \in {"review", "error"}
        BY DEF BackToIdle
    <2> QED
        BY <1>0, <2>1, <2>2
<1> QED
    BY <1>3, <1>4, <1>5 DEF ReadStep, ReadGoesOn

LEMMA LeavingIsBlank ==
    ASSUME PdfMounted, NEW to \in Pages, page' = to, page = "/receipt" => to # page,
           NEW others, LeavePdf(to, others), reads \subseteq ReadRec
    PROVE  PdfMounted'
<1>1. CASE page = "/receipt"
    <2>1. \A r \in reads : ~[r EXCEPT !.here = FALSE].here
        BY DEF ReadRec
    <2>2. pdf' = BlankPdf /\ reads' = Unmounted(reads)
        BY <1>1 DEF LeavePdf
    <2>3. \A r \in reads' : ~r.here
        BY <2>1, <2>2 DEF Unmounted
    <2> QED
        BY <2>2, <2>3 DEF PdfMounted
<1>2. CASE page # "/receipt"
    BY <1>2 DEF LeavePdf, PdfMounted
<1> QED
    BY <1>1, <1>2

LEMMA PdfSideStep ==
    ASSUME PdfSide, [Next]_vars
    PROVE  PdfSide'
<1>0. PdfInv /\ PdfMounted /\ PdfTypeOK /\ ReadsInv /\ CreatesInv /\ ReviewInv
    BY DEF PdfSide, PdfInv
<1>1. ASSUME UNCHANGED <<pdf_vars, page>> PROVE PdfSide'
    BY <1>0, <1>1
       DEF pdf_vars, PdfSide, PdfInv, PdfMounted, PdfTypeOK, ReadsInv, CreatesInv, ReviewInv,
           PreviewedOnce, ReceiptSavedOnce
<1>2. ASSUME ReadStep, UNCHANGED page,
             page = "/receipt" \/ \E r \in reads : ReadGoesOn(r)
      PROVE  PdfSide'
    BY <1>0, <1>2, ReadStepType, ReadStepKeepsReads, ReadStepKeepsCreates, MountedKept
       DEF PdfSide, PdfInv
<1>3. ASSUME PdfInv', UNCHANGED <<pdf, reads, page>> PROVE PdfSide'
    BY <1>0, <1>3 DEF PdfSide, PdfMounted
<1>4. ASSUME page = "/receipt", PdfUser, UNCHANGED page PROVE PdfSide'
    <2>1. CASE Confirm
        BY <1>0, <1>3, <1>4, <2>1, ConfirmKept DEF Confirm
    <2>2. CASE ~Confirm
        BY <1>2, <1>4, <2>2 DEF PdfUser, ReadStep
    <2> QED
        BY <2>1, <2>2
<1>5. ASSUME PdfBackground, UNCHANGED page PROVE PdfSide'
    <2>1. ASSUME NEW c \in creates, ServerCreate(c) PROVE PdfSide'
        BY <1>0, <1>3, <1>5, <2>1, CreateKept DEF ServerCreate
    <2>2. ASSUME NEW c \in creates, CreateFails(c) PROVE PdfSide'
        BY <1>0, <1>3, <1>5, <2>2, CreateFailKept DEF CreateFails
    <2>3. ASSUME NEW r \in reads, ReadGoesOn(r) PROVE PdfSide'
        BY <1>2, <1>5, <2>3 DEF ReadStep
    <2> QED
        BY <1>5, <2>1, <2>2, <2>3 DEF PdfBackground, ReadGoesOn
<1>6. reads \subseteq ReadRec /\ told \subseteq saved
    BY <1>0 DEF PdfTypeOK, ReadRec
<1>7. ASSUME NEW p \in Pages, Visit(p) PROVE PdfSide'
    <2>1. /\ page # p /\ page' = p /\ LeavePdf(p, creates)
          /\ UNCHANGED <<sent, confirmed, onRecord, saved, overlapped, previewed, missed, lostSaves, told>>
        BY <1>7 DEF Visit
    <2>2. PdfInv'
        BY <1>0, <1>6, <2>1, LeavingKept DEF PdfMounted
    <2>3. PdfMounted'
        BY <1>0, <1>6, <2>1, LeavingIsBlank
    <2> QED
        BY <2>2, <2>3 DEF PdfSide
<1>8. ASSUME NEW c \in creates, AnswerCreate(c) PROVE PdfSide'
    <2>1. /\ page' = "/" /\ LeavePdf("/", creates \ {c}) /\ told' = saved /\ "/" \in Pages
          /\ UNCHANGED <<sent, confirmed, onRecord, saved, overlapped, previewed, missed, lostSaves>>
        BY <1>8 DEF AnswerCreate, CreateAnswered, Pages
    <2>2. PdfInv'
        BY <1>0, <1>6, <2>1, LeavingKept DEF PdfMounted
    <2>3. PdfMounted'
        BY <1>0, <1>6, <2>1, LeavingIsBlank
    <2> QED
        BY <2>2, <2>3 DEF PdfSide
<1>9. CASE UNCHANGED vars
    BY <1>1, <1>9 DEF vars
<1>10. CASE Next
    BY <1>1, <1>4, <1>5, <1>7, <1>8, <1>10, Zenon DEF Next
<1> QED
    BY <1>9, <1>10

-----------------------------------------------------------------------------
(* The statement page: what an import stores *)

\* RowsOf adds the run and leaves the rest.
LEMMA RowOfRun ==
    ASSUME NEW e \in Entry, NEW k, NEW s, s = Spread(e, [run |-> k])
    PROVE  s.description = e.description /\ s.amount = e.amount
<1>1. DOMAIN e = {"date", "description", "amount"}
    BY DEF Entry
<1>2. s = [x \in {"date", "description", "amount", "run"} |->
             IF x \in DOMAIN e THEN e[x] ELSE [run |-> k][x]]
    BY <1>1 DEF Spread
<1> QED
    BY <1>1, <1>2

\* The stored row: the fields of the file's row, the run, the id, the category.
LEMMA FreshRow ==
    ASSUME NEW e \in Entry, NEW k \in Nat, NEW n \in Nat, NEW c \in Categories,
           NEW s, s = Spread(e, [run |-> k]), NEW r, r = Spread(s, [id |-> n, category |-> c])
    PROVE  r \in RowRec /\ r.id = n /\ r.run = k
<1>1. /\ DOMAIN e = {"date", "description", "amount"}
      /\ e["date"] \in Nat /\ e["description"] \in DOMAIN Keyword /\ e["amount"] \in Int
    BY DEF Entry
<1>2. s = [x \in {"date", "description", "amount", "run"} |->
             IF x \in DOMAIN e THEN e[x] ELSE [run |-> k][x]]
    BY <1>1 DEF Spread
<1>3. r = [x \in {"date", "description", "amount", "run", "id", "category"} |->
             IF x \in DOMAIN s THEN s[x] ELSE [id |-> n, category |-> c][x]]
    BY <1>2 DEF Spread
<1>4. /\ DOMAIN s = {"date", "description", "amount", "run"}
      /\ s["date"] = e["date"] /\ s["description"] = e["description"]
      /\ s["amount"] = e["amount"] /\ s["run"] = k
    BY <1>1, <1>2
<1>5. r = [id |-> n, date |-> e.date, description |-> e.description, amount |-> e.amount,
           run |-> k, category |-> c]
    BY <1>3, <1>4
<1>6. e.date \in Nat /\ e.description \in DOMAIN Keyword /\ e.amount \in Int
    BY DEF Entry
<1> QED
    BY <1>5, <1>6 DEF RowRec

\* The rows kept before one are fewer than those before a later one, or all.
LEMMA KeptBefore ==
    ASSUME NEW n \in Nat, NEW K \in SUBSET (1..n)
    PROVE  /\ IsFiniteSet(K) /\ Cardinality(K) \in Nat
           /\ \A i \in K : /\ Cardinality(K \intersect 1..(i - 1)) \in Nat
                          /\ Cardinality(K \intersect 1..(i - 1)) < Cardinality(K)
           /\ \A i, j \in K : i < j =>
                 Cardinality(K \intersect 1..(i - 1)) < Cardinality(K \intersect 1..(j - 1))
<1>1. IsFiniteSet(1..n)
    BY FS_Interval
<1>2. \A S \in SUBSET K : IsFiniteSet(S) /\ Cardinality(S) \in Nat
    BY <1>1, FS_Subset, FS_CardinalityType
<1>3. ASSUME NEW S \in SUBSET K, NEW i \in S
      PROVE  Cardinality(K \intersect 1..(i - 1)) < Cardinality(S) \/ ~(K \intersect 1..(i - 1) \subseteq S)
    <2> SUFFICES ASSUME K \intersect 1..(i - 1) \subseteq S
                 PROVE  Cardinality(K \intersect 1..(i - 1)) < Cardinality(S)
        OBVIOUS
    <2> DEFINE B == K \intersect 1..(i - 1)
    <2>1. B \in SUBSET K /\ i \notin B /\ B \union {i} \in SUBSET S
        OBVIOUS
    <2> HIDE DEF B
    <2>2. Cardinality(B \union {i}) = Cardinality(B) + 1
        BY <1>2, <2>1, FS_AddElement
    <2>3. Cardinality(B \union {i}) <= Cardinality(S)
        BY <1>2, <2>1, FS_Subset
    <2>4. Cardinality(B) \in Nat /\ Cardinality(S) \in Nat
        BY <1>2, <2>1
    <2>5. Cardinality(B) < Cardinality(S)
        BY <2>2, <2>3, <2>4
    <2> QED
        BY <2>5 DEF B
<1>4. \A i \in K : Cardinality(K \intersect 1..(i - 1)) < Cardinality(K)
    BY <1>3
<1>5. ASSUME NEW i \in K, NEW j \in K, i < j
      PROVE  Cardinality(K \intersect 1..(i - 1)) < Cardinality(K \intersect 1..(j - 1))
    <2>1. /\ i \in K \intersect 1..(j - 1)
          /\ K \intersect 1..(j - 1) \in SUBSET K
          /\ K \intersect 1..(i - 1) \subseteq K \intersect 1..(j - 1)
        BY <1>5
    <2> QED
        BY <1>3, <2>1
<1> QED
    BY <1>2, <1>4, <1>5

Stores(kept, f, run, fresh, next) ==
    /\ Imported(kept, RowsOf(f, run), nextId) = [rows |-> kept \union fresh, next |-> next]
    /\ IsFiniteSet(fresh) /\ nextId <= next
    /\ \A x \in fresh : x.run = run /\ nextId <= x.id /\ x.id < next
    /\ \A x, y \in fresh : x.id = y.id => x = y

LEMMA ImportStores ==
    ASSUME NEW kept \in SUBSET RowRec, NEW f \in Files, NEW run \in Nat, nextId \in Nat
    PROVE  \E fresh \in SUBSET RowRec, next \in Nat : Stores(kept, f, run, fresh, next)
<1> DEFINE file == RowsOf(f, run)
<1>1. PICK n \in Nat : DOMAIN file = 1..n /\ \A i \in 1..n :
           /\ Content[f][i] \in Entry /\ file[i] = Spread(Content[f][i], [run |-> run])
           /\ SuggestCategory(Content[f][i].description, Content[f][i].amount) \in Categories
    <2>1. Content[f] \in Seq(Entry)
        BY ContentAssumption
    <2>2. DOMAIN Content[f] = 1..Len(Content[f]) /\ Len(Content[f]) \in Nat
        BY <2>1
    <2>3. file = [i \in DOMAIN Content[f] |-> Spread(Content[f][i], [run |-> run])]
        BY DEF RowsOf
    <2>4. \A i \in DOMAIN Content[f] : Content[f][i] \in Entry
        BY <2>1, <2>2
    <2> HIDE DEF file
    <2> QED
        BY <2>2, <2>3, <2>4, ContentAssumption
<1> HIDE DEF file
<1> DEFINE keep[i \in DOMAIN file] ==
              /\ ~\E r \in kept : SamePurchase(r, file[i], 1)
              /\ ~\E j \in 1..(i - 1) : keep[j] /\ SamePurchase(file[j], file[i], 1)
           row(i) == Spread(file[i], [id |-> nextId + Cardinality({j \in 1..(i - 1) : keep[j]}),
                        category |-> SuggestCategory(file[i].description, file[i].amount)])
           D == {i \in DOMAIN file : keep[i]}
<1>3. Imported(kept, file, nextId) = [rows |-> kept \union {row(i) : i \in D},
                                      next |-> nextId + Cardinality(D)]
    BY DEF Imported
<1> HIDE DEF keep
<1> DEFINE K == {i \in 1..n : keep[i]}
           b(i) == Cardinality(K \intersect 1..(i - 1))
<1>4. \A i \in K : {j \in 1..(i - 1) : keep[j]} = K \intersect 1..(i - 1)
    OBVIOUS
<1>5. /\ IsFiniteSet(K) /\ Cardinality(K) \in Nat
      /\ \A i \in K : b(i) \in Nat /\ b(i) < Cardinality(K)
      /\ \A i, j \in K : i < j => b(i) < b(j)
    <2>1. K \in SUBSET (1..n)
        OBVIOUS
    <2> HIDE DEF K
    <2> QED
        BY <2>1, KeptBefore
<1>6. ASSUME NEW i \in K
      PROVE  row(i) \in RowRec /\ row(i).id = nextId + b(i) /\ row(i).run = run
    <2>1. /\ Content[f][i] \in Entry /\ file[i] = Spread(Content[f][i], [run |-> run])
          /\ SuggestCategory(Content[f][i].description, Content[f][i].amount) \in Categories
        BY <1>1
    <2>2. {j \in 1..(i - 1) : keep[j]} = K \intersect 1..(i - 1)
        BY <1>4
    <2>5. nextId + b(i) \in Nat
        <3> HIDE DEF b
        <3> QED
            BY <1>5
    <2>3. /\ file[i].description = Content[f][i].description
          /\ file[i].amount = Content[f][i].amount
        BY <2>1, RowOfRun
    <2>4. row(i) = Spread(file[i], [id |-> nextId + b(i),
                     category |-> SuggestCategory(Content[f][i].description, Content[f][i].amount)])
        BY <2>2, <2>3
    <2> HIDE DEF row, b, K
    <2> QED
        BY <2>1, <2>4, <2>5, FreshRow
<1> DEFINE fresh == {row(i) : i \in K}
           next == nextId + Cardinality(K)
<1>7. K = D
    BY <1>1
<1> HIDE DEF row, K, b
<1>8. fresh \in SUBSET RowRec /\ next \in Nat /\ nextId <= next
    BY <1>5, <1>6
<1>9. IsFiniteSet(fresh)
    <2> DEFINE g == [i \in K |-> row(i)]
    <2>1. g \in Surjection(K, fresh)
        BY DEF Surjection
    <2> HIDE DEF fresh, g
    <2> QED
        BY <1>5, <2>1, FS_Surjection
<1>10. \A x \in fresh : x.run = run /\ nextId <= x.id /\ x.id < next
    BY <1>5, <1>6
<1>11. ASSUME NEW x \in fresh, NEW y \in fresh, x.id = y.id
       PROVE  x = y
    <2>1. PICK i \in K : x = row(i)
        OBVIOUS
    <2>2. PICK j \in K : y = row(j)
        OBVIOUS
    <2>3. b(i) = b(j) /\ i \in Nat /\ j \in Nat
        BY <1>5, <1>6, <1>11, <2>1, <2>2 DEF K
    <2>4. i = j
        BY <1>5, <2>3
    <2> QED
        BY <2>1, <2>2, <2>4
<1>12. Imported(kept, file, nextId) = [rows |-> kept \union fresh, next |-> next]
    BY <1>3, <1>7, Zenon DEF fresh, next
<1> HIDE DEF fresh, next
<1> QED
    BY <1>8, <1>9, <1>10, <1>11, <1>12 DEF file, Stores

-----------------------------------------------------------------------------
(* The statement page: its steps *)

\* The page changes while no run is its own.
LEMMA PageAlone ==
    ASSUME CsvInv, csv' \in CsvRec, csv'.phase \notin {"processing", "duplicate"},
           csv.phase # "processing", csv'.results \subseteq csv.results,
           UNCHANGED <<runs, updates, started, updated, server_vars, unheard, doubtful, refreshed>>
    PROVE  CsvInv'
<1>0. CsvTyped /\ RunsInv /\ ViewsInv /\ AgreeInv
    BY DEF CsvInv
<1>1. UNCHANGED <<rows, nextId, recorded, jobs>>
    BY DEF server_vars
<1>2. \A r \in runs : ~r.here
    BY <1>0 DEF RunsInv, OneRunPerPage
<1>3. CsvTyped'
    BY <1>0, <1>1 DEF CsvTyped
<1>4. RunsInv'
    <2>1. \A r \in runs : RunOK(r)'
        BY <1>0, <1>1 DEF RunsInv, RunOK
    <2>2. OneRunPerPage'
        BY <1>2 DEF OneRunPerPage
    <2> QED
        BY <1>0, <2>1, <2>2 DEF RunsInv
<1>5. ViewsInv'
    BY <1>0, <1>1 DEF ViewsInv, TheViewsAreTold
<1>6. AgreeInv'
    BY <1>0, <1>1, <1>2 DEF AgreeInv, Settled, Overlaps
<1> QED
    BY <1>3, <1>4, <1>5, <1>6 DEF CsvInv

\* A run goes on, and no row is stored.
LEMMA RunMoved ==
    ASSUME CsvInv, NEW r \in runs, NEW to \in RunRec, Step(r, to),
           to.id = r.id, to.file = r.file, to.here = r.here, RunOK(to),
           r.reply.kind # "ok", to.reply.kind # "ok",
           csv' \in CsvRec, csv'.phase = csv.phase, csv'.lastFile = csv.lastFile,
           csv'.dup = csv.dup, csv'.results = csv.results,
           UNCHANGED <<updates, started, updated, server_vars, unheard, doubtful, refreshed>>
    PROVE  CsvInv'
<1>0. CsvTyped /\ RunsInv /\ ViewsInv /\ AgreeInv
    BY DEF CsvInv
<1>1. UNCHANGED <<rows, nextId, recorded, jobs>> /\ runs' = (runs \ {r}) \union {to}
    BY DEF server_vars, Step
<1>3. CsvTyped'
    BY <1>0, <1>1 DEF CsvTyped
<1>4. RunsInv'
    <2>1. \A q \in runs' : RunOK(q)'
        BY <1>0, <1>1 DEF RunsInv, RunOK
    <2>2. OneRunPerPage'
        BY <1>0, <1>1 DEF RunsInv, OneRunPerPage
    <2>3. \A p, q \in runs' : p.id = q.id => p = q
        BY <1>0, <1>1 DEF RunsInv
    <2> QED
        BY <2>1, <2>2, <2>3 DEF RunsInv
<1>5. ViewsInv'
    <2>1. /\ \A q \in runs : \E p \in runs' : p.id = q.id
          /\ \A p \in runs' : \E q \in runs : p.id = q.id /\ (p = q \/ q.reply.kind # "ok")
        BY <1>1
    <2> QED
        BY <1>0, <1>1, <2>1 DEF ViewsInv, TheViewsAreTold
<1>6. AgreeInv'
    <2>1. \A q \in runs' : q.here /\ q.reply.kind = "ok" => OnTheirWay(q)'
        BY <1>0, <1>1 DEF AgreeInv, OnTheirWay
    <2>2. \A i \in 0..(nextId - 1) : i \notin doubtful => Settled(i)'
        BY <1>0, <1>1 DEF AgreeInv, Settled, Overlaps
    <2> QED
        BY <1>1, <2>1, <2>2 DEF AgreeInv
<1> QED
    BY <1>3, <1>4, <1>5, <1>6 DEF CsvInv

\* A run returns: its outcome is unheard, or the views are told of it, or there
\* was none; the page shows the results of its own run only.
LEMMA RunReturned ==
    ASSUME CsvInv, NEW r \in runs, Return(r), csv' \in CsvRec,
           r.here => csv'.phase # "processing",
           r.here /\ csv'.phase = "duplicate" =>
               csv'.dup \in Files /\ csv'.dup = csv'.lastFile /\ recorded[csv'.dup] # 0,
           ~r.here => csv' = csv,
           \/ unheard' = unheard \union {r.id} /\ UNCHANGED refreshed
           \/ /\ unheard' = unheard /\ refreshed' = {row.id : row \in rows}
              /\ r.id \in DOMAIN jobs => jobs[r.id].status = "COMPLETED"
           \/ /\ unheard' = unheard /\ UNCHANGED refreshed
              /\ r.reply.kind # "ok" /\ r.id \notin DOMAIN jobs,
           \A x \in csv'.results :
               \/ x \in csv.results
               \/ /\ r.here /\ r.reply.kind = "ok"
                  /\ \E s \in r.reply.saved : x.id = s.id /\ x.category = s.category,
           UNCHANGED <<updates, started, updated, server_vars, doubtful>>
    PROVE  CsvInv'
<1>0. CsvTyped /\ RunsInv /\ ViewsInv /\ AgreeInv
    BY DEF CsvInv
<1>1. UNCHANGED <<rows, nextId, recorded, jobs>> /\ runs' = runs \ {r}
    BY DEF server_vars, Return
<1>2. r.here /\ r.reply.kind = "ok" => OnTheirWay(r)
    BY <1>0 DEF AgreeInv
<1>3. CsvTyped'
    <2>1. r.id \in 1..started
        BY <1>0 DEF RunsInv, RunOK
    <2>2. \A x \in csv'.results : x.id < nextId
        BY <1>0, <1>2 DEF CsvTyped, OnTheirWay
    <2> QED
        BY <1>0, <1>1, <2>1, <2>2 DEF CsvTyped
<1>4. RunsInv'
    <2>1. \A q \in runs' : RunOK(q)'
        BY <1>0, <1>1 DEF RunsInv, RunOK
    <2>2. OneRunPerPage'
        BY <1>0, <1>1 DEF RunsInv, OneRunPerPage
    <2>3. \A p, q \in runs' : p.id = q.id => p = q
        BY <1>0, <1>1 DEF RunsInv
    <2> QED
        BY <2>1, <2>2, <2>3 DEF RunsInv
<1>5. ViewsInv'
    <2>1. TheViewsAreTold'
        BY <1>0, <1>1 DEF ViewsInv, TheViewsAreTold
    <2>2. \A row \in rows', q \in runs' :
              row.run = q.id => q.reply.kind = "ok" \/ q.id \in DOMAIN jobs'
        BY <1>0, <1>1 DEF ViewsInv
    <2>3. \A j \in DOMAIN jobs' :
              j \in unheard' \/ jobs'[j].status = "COMPLETED" \/ \E q \in runs' : q.id = j
        BY <1>0, <1>1 DEF ViewsInv
    <2> QED
        BY <2>1, <2>2, <2>3 DEF ViewsInv
<1>6. AgreeInv'
    <2>1. \A q \in runs' : q.here /\ q.reply.kind = "ok" => OnTheirWay(q)'
        BY <1>0, <1>1 DEF AgreeInv, OnTheirWay
    <2>2. ASSUME NEW i \in 0..(nextId - 1), i \notin doubtful
          PROVE  Settled(i)'
        <3>1. Settled(i)
            BY <1>0, <2>2 DEF AgreeInv
        <3>2. \A x \in csv'.results, u \in updates : x.id = i /\ u.id = i => x.category = u.category
            BY <1>2, <3>1 DEF Settled, OnTheirWay
        <3>3. \A x \in csv'.results, row \in rows :
                 x.id = i /\ row.id = i /\ ~Overlaps(i) => x.category = row.category
            BY <1>2, <3>1 DEF Settled, OnTheirWay
        <3> QED
            BY <1>1, <3>1, <3>2, <3>3 DEF Settled, Overlaps
    <2> QED
        BY <1>1, <2>1, <2>2 DEF AgreeInv
<1> QED
    BY <1>3, <1>4, <1>5, <1>6 DEF CsvInv

\* Rows are stored, with ids of their own: what is settled stays so.
LEMMA StoredAgree ==
    ASSUME CsvTyped, AgreeInv, NEW kept \in SUBSET rows, NEW fresh \in SUBSET RowRec,
           rows' = kept \union fresh, nextId' \in Nat, nextId <= nextId',
           \A x \in fresh : nextId <= x.id /\ x.id < nextId',
           \A x, y \in fresh : x.id = y.id => x = y,
           UNCHANGED <<csv, updates, doubtful>>,
           \A q \in runs' : q \in runs \/ q.reply.kind # "ok" \/ q.reply.saved \subseteq fresh
    PROVE  AgreeInv'
<1>0. /\ \A row \in rows : row.id < nextId /\ row.id \in Int
      /\ \A x \in csv.results : x.id < nextId /\ x.id \in Int
      /\ \A u \in updates : u.id < nextId /\ u.id \in Int
      /\ \A x \in fresh : x.id \in Int
      /\ nextId \in Nat
    BY DEF CsvTyped, RowRec, CsvRec, Result, UpdateRec
<1>1. ASSUME NEW i \in 0..(nextId' - 1), i \notin doubtful'
      PROVE  Settled(i)'
    <2>1. CASE i < nextId
        <3>1. i \in 0..(nextId - 1) /\ i \notin doubtful /\ Settled(i)
            BY <1>0, <1>1, <2>1 DEF AgreeInv
        <3>2. \A row \in rows' : row.id = i => row \in rows
            BY <1>0, <2>1
        <3> QED
            BY <3>1, <3>2 DEF Settled, Overlaps
    <2>2. CASE ~(i < nextId)
        <3>1. /\ \A x \in csv.results : x.id # i
              /\ \A u \in updates : u.id # i
            BY <1>0, <1>1, <2>2
        <3> QED
            BY <3>1 DEF Settled
    <2> QED
        BY <2>1, <2>2
<1>2. ASSUME NEW q \in runs', q.here, q.reply.kind = "ok"
      PROVE  OnTheirWay(q)'
    <2>1. CASE q \in runs
        <3>1. OnTheirWay(q)
            BY <1>2, <2>1 DEF AgreeInv
        <3>2. ASSUME NEW s \in q.reply.saved
              PROVE  /\ s.id < nextId'
                     /\ \A u \in updates' : u.id # s.id
                     /\ \A row \in rows' : row.id = s.id => row.category = s.category
            <4>1. /\ s.id < nextId /\ \A u \in updates : u.id # s.id
                  /\ \A row \in rows : row.id = s.id => row.category = s.category
                BY <3>1, <3>2 DEF OnTheirWay
            <4>2. s.id \in Int
                BY <1>2, <2>1, <3>2 DEF CsvTyped, RunRec, Reply, NoReply, RowRec
            <4> QED
                BY <1>0, <4>1, <4>2
        <3> QED
            BY <3>2 DEF OnTheirWay
    <2>2. CASE q.reply.saved \subseteq fresh
        <3> SUFFICES ASSUME NEW s \in fresh
                     PROVE  /\ s.id < nextId'
                            /\ \A u \in updates' : u.id # s.id
                            /\ \A row \in rows' : row.id = s.id => row.category = s.category
            BY <2>2 DEF OnTheirWay
        <3> QED
            BY <1>0
    <2> QED
        BY <1>2, <2>1, <2>2
<1> QED
    BY <1>1, <1>2 DEF AgreeInv

\* The import of an upload, which may have deleted rows first.
LEMMA UploadStored ==
    ASSUME CsvInv, NEW r \in runs, ServerUpload(r), ~(recorded[r.file] # 0 /\ r.force = "none")
    PROVE  CsvInv'
<1>0. CsvTyped /\ RunsInv /\ ViewsInv /\ AgreeInv
    BY DEF CsvInv
<1>1. /\ r \in RunRec /\ r.file \in Files /\ r.id \in 1..started /\ r.id \in Nat
      /\ nextId \in Nat /\ rows \subseteq RowRec /\ r.at = "uploading" /\ r.reply = NoReply
      /\ UNCHANGED <<csv, updates, started, updated, jobs, unheard, doubtful, refreshed>>
    BY <1>0 DEF CsvTyped, RunsInv, RunOK, RunRec, ServerUpload
<1>2. PICK kept \in Kept(r) :
        /\ Import(kept, r.file, r.id)
        /\ Step(r, [r EXCEPT !.reply = [kind |-> "ok", saved |-> rows' \ kept]])
    BY DEF ServerUpload
<1>3. kept \in SUBSET rows
    BY <1>2 DEF Kept
<1>4. PICK fresh \in SUBSET RowRec :
             /\ rows' = kept \union fresh /\ IsFiniteSet(fresh)
             /\ nextId' \in Nat /\ nextId <= nextId'
             /\ \A x \in fresh : x.run = r.id /\ nextId <= x.id /\ x.id < nextId'
             /\ \A x, y \in fresh : x.id = y.id => x = y
    <2>1. PICK fresh \in SUBSET RowRec, next \in Nat : Stores(kept, r.file, r.id, fresh, next)
        <3>1. kept \in SUBSET RowRec
            BY <1>1, <1>3
        <3> QED
            BY <1>1, <3>1, ImportStores
    <2>2. rows' = kept \union fresh /\ nextId' = next
        BY <1>2, <2>1 DEF Import, Stores
    <2> QED
        BY <2>1, <2>2 DEF Stores
<1>5. recorded' = [recorded EXCEPT ![r.file] = r.id]
    BY <1>2 DEF Import
<1>6. PICK stored \in SUBSET fresh : stored = rows' \ kept /\ IsFiniteSet(stored)
    <2>1. rows' \ kept \in SUBSET fresh
        BY <1>4
    <2>2. \A T \in SUBSET fresh : IsFiniteSet(T)
        BY <1>4, FS_Subset
    <2> QED
        BY <2>1, <2>2
<1>7. PICK to \in RunRec :
        /\ runs' = (runs \ {r}) \union {to}
        /\ to.id = r.id /\ to.file = r.file /\ to.here = r.here /\ to.at = r.at /\ to.guard = r.guard
        /\ to.reply.kind = "ok" /\ to.reply.saved = stored
    <2> DEFINE to == [r EXCEPT !.reply = [kind |-> "ok", saved |-> stored]]
    <2>1. runs' = (runs \ {r}) \union {to}
        BY <1>2, <1>6 DEF Step
    <2>2. [kind |-> "ok", saved |-> stored] \in Reply
        BY <1>6 DEF Reply
    <2>3. /\ to \in RunRec /\ to.id = r.id /\ to.file = r.file /\ to.here = r.here /\ to.at = r.at
          /\ to.guard = r.guard /\ to.reply = [kind |-> "ok", saved |-> stored]
        BY <1>1, <2>2 DEF RunRec
    <2> HIDE DEF to
    <2> QED
        BY <2>1, <2>3
<1>9. CsvTyped'
    <2>1. recorded' \in [Files -> 0..started]
        BY <1>0, <1>1, <1>5 DEF CsvTyped
    <2>2. rows' \subseteq RowRec /\ runs' \subseteq RunRec
        BY <1>0, <1>1, <1>3, <1>4, <1>7 DEF CsvTyped
    <2>3. \A row \in rows' : row.id < nextId' /\ row.run \in 1..started
        BY <1>0, <1>1, <1>3, <1>4 DEF CsvTyped, RowRec
    <2>4. /\ \A x \in csv.results : x.id < nextId'
          /\ \A u \in updates : u.id < nextId'
        BY <1>0, <1>1, <1>4 DEF CsvTyped, CsvRec, Result, UpdateRec
    <2> QED
        BY <1>0, <1>1, <1>4, <2>1, <2>2, <2>3, <2>4 DEF CsvTyped
<1>10. RunsInv'
    <2>0. \A f \in Files : recorded[f] # 0 => recorded'[f] # 0
        BY <1>0, <1>1, <1>5 DEF CsvTyped
    <2>1. RunOK(to)'
        <3>1. RunOK(r) /\ r.reply.kind = "none"
            BY <1>0, <1>1 DEF RunsInv, NoReply
        <3> QED
            BY <1>1, <1>6, <1>7, <3>1 DEF RunOK
    <2>2. \A q \in runs : RunOK(q)'
        BY <1>0, <1>1, <2>0 DEF RunsInv, RunOK, CsvTyped, RunRec
    <2>3. OneRunPerPage'
        <3>2. csv.phase = "duplicate" => csv.dup \in Files
            BY <1>0 DEF CsvTyped
        <3> QED
            BY <1>0, <1>1, <1>7, <2>0, <3>2 DEF RunsInv, OneRunPerPage
    <2>4. \A p, q \in runs' : p.id = q.id => p = q
        BY <1>0, <1>7 DEF RunsInv
    <2> QED
        BY <1>7, <2>1, <2>2, <2>3, <2>4 DEF RunsInv
<1>11. ViewsInv'
    <2>1. \A q \in runs : \E p \in runs' : p.id = q.id
        BY <1>7
    <2>2. TheViewsAreTold'
        BY <1>0, <1>1, <1>3, <1>4, <1>7, <2>1 DEF ViewsInv, TheViewsAreTold
    <2>3. ASSUME NEW row \in rows', NEW q \in runs', row.run = q.id
          PROVE  q.reply.kind = "ok" \/ q.id \in DOMAIN jobs'
        <3>1. CASE q = to
            BY <1>7, <3>1
        <3>2. CASE q # to
            <4>1. q \in runs /\ q # r
                BY <1>7, <3>2
            <4>2. q.id # r.id
                BY <1>0, <4>1 DEF RunsInv
            <4>3. row \in rows
                BY <1>3, <1>4, <2>3, <4>2
            <4> QED
                BY <1>0, <1>1, <2>3, <4>1, <4>3 DEF ViewsInv
        <3> QED
            BY <3>1, <3>2
    <2>4. \A j \in DOMAIN jobs' :
              j \in unheard' \/ jobs'[j].status = "COMPLETED" \/ \E q \in runs' : q.id = j
        BY <1>0, <1>1, <2>1 DEF ViewsInv
    <2> QED
        BY <2>2, <2>3, <2>4 DEF ViewsInv
<1>12. AgreeInv'
    BY <1>0, <1>1, <1>3, <1>4, <1>6, <1>7, StoredAgree
<1> QED
    BY <1>9, <1>10, <1>11, <1>12 DEF CsvInv

\* A job is moved on: one that is completed stays so.
LEMMA JobsMoved ==
    ASSUME CsvInv, NEW j \in DOMAIN jobs, jobs[j].status # "COMPLETED",
           NEW job \in JobRec, jobs' = [jobs EXCEPT ![j] = job]
    PROVE  /\ jobs' \in [DOMAIN jobs' -> JobRec] /\ DOMAIN jobs' = DOMAIN jobs
           /\ jobs'[j] = job
           /\ \A i \in DOMAIN jobs : i # j => jobs'[i] = jobs[i]
           /\ \A i \in DOMAIN jobs : jobs[i].status = "COMPLETED" => jobs'[i].status = "COMPLETED"
           /\ \A i \in DOMAIN jobs' :
                 i \in unheard \/ jobs'[i].status = "COMPLETED" \/ \E r \in runs : r.id = i
<1>1. jobs \in [DOMAIN jobs -> JobRec]
    BY DEF CsvInv, CsvTyped
<1>2. /\ jobs' \in [DOMAIN jobs -> JobRec] /\ DOMAIN jobs' = DOMAIN jobs /\ jobs'[j] = job
      /\ \A i \in DOMAIN jobs : i # j => jobs'[i] = jobs[i]
    BY <1>1
<1> QED
    BY <1>2 DEF CsvInv, ViewsInv

\* The runs do not mind a job that moves on.
LEMMA JobsRuns ==
    ASSUME CsvInv, UNCHANGED <<csv, runs, started>>,
           DOMAIN jobs' = DOMAIN jobs,
           \A i \in DOMAIN jobs : jobs[i].status = "COMPLETED" => jobs'[i].status = "COMPLETED",
           \A f \in Files : recorded[f] # 0 => recorded'[f] # 0
    PROVE  RunsInv'
<1>0. CsvTyped /\ RunsInv
    BY DEF CsvInv
<1>1. \A r \in runs : r.file \in Files
    BY <1>0 DEF CsvTyped, RunRec
<1>2. \A r \in runs : RunOK(r)'
    <2> SUFFICES ASSUME NEW r \in runs PROVE RunOK(r)'
        OBVIOUS
    <2>1. RunOK(r)
        BY <1>0 DEF RunsInv
    <2>2. r.reply.kind = "job" => r.id \in DOMAIN jobs
        BY <2>1 DEF RunOK
    <2> QED
        BY <1>1, <2>1, <2>2 DEF RunOK
<1>3. OneRunPerPage'
    BY <1>0 DEF RunsInv, OneRunPerPage, CsvTyped
<1> QED
    BY <1>0, <1>2, <1>3 DEF RunsInv

LEMMA JobKept ==
    ASSUME CsvInv, NEW j \in DOMAIN jobs, jobs[j].status # "COMPLETED",
           NEW job \in JobRec, jobs' = [jobs EXCEPT ![j] = job],
           UNCHANGED <<csv, runs, updates, started, updated, rows, nextId, recorded,
                       unheard, doubtful, refreshed>>
    PROVE  CsvInv'
<1>0. CsvTyped /\ RunsInv /\ ViewsInv /\ AgreeInv
    BY DEF CsvInv
<1>1. /\ jobs' \in [DOMAIN jobs' -> JobRec] /\ DOMAIN jobs' = DOMAIN jobs
      /\ \A i \in DOMAIN jobs : jobs[i].status = "COMPLETED" => jobs'[i].status = "COMPLETED"
      /\ \A i \in DOMAIN jobs' :
            i \in unheard \/ jobs'[i].status = "COMPLETED" \/ \E r \in runs : r.id = i
    BY JobsMoved
<1>2. CsvTyped'
    BY <1>0, <1>1 DEF CsvTyped
<1>3. RunsInv'
    BY <1>1, JobsRuns
<1>4. ViewsInv'
    BY <1>0, <1>1 DEF ViewsInv, TheViewsAreTold
<1>5. AgreeInv'
    BY <1>0 DEF AgreeInv, Settled, Overlaps, OnTheirWay
<1> QED
    BY <1>2, <1>3, <1>4, <1>5 DEF CsvInv

LEMMA JobStored ==
    ASSUME CsvInv, NEW j \in DOMAIN jobs, jobs[j].status # "COMPLETED",
           NEW job \in JobRec, jobs' = [jobs EXCEPT ![j] = job],
           NEW f \in Files, NEW fresh \in SUBSET RowRec, NEW next \in Nat,
           Stores(rows, f, j, fresh, next),
           rows' = rows \union fresh, nextId' = next, recorded' = [recorded EXCEPT ![f] = j],
           UNCHANGED <<csv, runs, updates, started, updated, unheard, doubtful, refreshed>>
    PROVE  CsvInv'
<1>0. CsvTyped /\ RunsInv /\ ViewsInv /\ AgreeInv
    BY DEF CsvInv
<1>1. /\ jobs' \in [DOMAIN jobs' -> JobRec] /\ DOMAIN jobs' = DOMAIN jobs
      /\ \A i \in DOMAIN jobs : jobs[i].status = "COMPLETED" => jobs'[i].status = "COMPLETED"
      /\ \A i \in DOMAIN jobs' :
            i \in unheard \/ jobs'[i].status = "COMPLETED" \/ \E r \in runs : r.id = i
    BY JobsMoved
<1>2. /\ j \in 1..started /\ started \in Nat /\ nextId \in Nat /\ nextId <= next
      /\ \A x \in fresh : x.run = j /\ nextId <= x.id /\ x.id < next
      /\ \A x, y \in fresh : x.id = y.id => x = y
    BY <1>0, UploadCsvAssumption DEF CsvTyped, Stores
<1>3. recorded' \in [Files -> 0..started] /\ \A g \in Files : recorded[g] # 0 => recorded'[g] # 0
    BY <1>0, <1>2 DEF CsvTyped
<1>4. CsvTyped'
    <2>1. rows' \subseteq RowRec /\ \A row \in rows' : row.id < nextId' /\ row.run \in 1..started
        BY <1>0, <1>2 DEF CsvTyped, RowRec
    <2>2. /\ \A x \in csv.results : x.id < nextId'
          /\ \A u \in updates : u.id < nextId'
        BY <1>0, <1>2 DEF CsvTyped, CsvRec, Result, UpdateRec
    <2> QED
        BY <1>0, <1>1, <1>2, <1>3, <2>1, <2>2 DEF CsvTyped
<1>5. RunsInv'
    BY <1>1, <1>3, JobsRuns
<1>6. ViewsInv'
    <2>1. j \in unheard \/ \E r \in runs : r.id = j
        BY <1>0 DEF ViewsInv
    <2>2. TheViewsAreTold'
        BY <1>0, <1>2, <2>1 DEF ViewsInv, TheViewsAreTold
    <2>3. \A row \in rows', r \in runs' :
              row.run = r.id => r.reply.kind = "ok" \/ r.id \in DOMAIN jobs'
        BY <1>0, <1>1, <1>2 DEF ViewsInv
    <2> QED
        BY <1>1, <2>2, <2>3 DEF ViewsInv
<1>7. AgreeInv'
    BY <1>0, <1>2, StoredAgree
<1> QED
    BY <1>4, <1>5, <1>6, <1>7 DEF CsvInv

LEMMA JobStep ==
    ASSUME CsvInv, NEW j \in DOMAIN jobs, JobDelivered(j) \/ JobCompletes(j) \/ JobFails(j)
    PROVE  CsvInv'
<1>0. /\ jobs[j] \in JobRec /\ jobs \in [DOMAIN jobs -> JobRec] /\ rows \subseteq RowRec
      /\ nextId \in Nat /\ j \in Nat /\ MaxReceive \in Nat
    BY UploadCsvAssumption DEF CsvInv, CsvTyped
<1>1. CASE JobDelivered(j)
    <2> DEFINE job == [jobs[j] EXCEPT !.status = "PROCESSING", !.tries = @ + 1]
    <2>1. jobs' = [jobs EXCEPT ![j] = job] /\ jobs[j].status # "COMPLETED" /\ jobs[j].tries < MaxReceive
        BY <1>0, <1>1 DEF JobDelivered
    <2>2. job \in JobRec
        <3>1. jobs[j].tries + 1 \in 0..MaxReceive
            BY <1>0, <2>1 DEF JobRec
        <3>2. job = [jobs[j] EXCEPT !.status = "PROCESSING", !.tries = jobs[j].tries + 1]
            BY <1>0 DEF JobRec
        <3> QED
            BY <1>0, <3>1, <3>2 DEF JobRec, Statuses
    <2> HIDE DEF job
    <2> QED
        BY <1>1, <2>1, <2>2, JobKept DEF JobDelivered
<1>2. CASE JobFails(j)
    <2> DEFINE job == [jobs[j] EXCEPT !.status = "FAILED"]
    <2>1. jobs' = [jobs EXCEPT ![j] = job] /\ jobs[j].status # "COMPLETED"
        BY <1>0, <1>2 DEF JobFails
    <2>2. job \in JobRec
        BY <1>0 DEF JobRec, Statuses
    <2> HIDE DEF job
    <2> QED
        BY <1>2, <2>1, <2>2, JobKept DEF JobFails
<1>3. CASE JobCompletes(j) /\ recorded[jobs[j].file] # 0
    <2> DEFINE job == [jobs[j] EXCEPT !.status = "COMPLETED"]
    <2>1. jobs' = [jobs EXCEPT ![j] = job] /\ jobs[j].status # "COMPLETED"
        BY <1>0, <1>3 DEF JobCompletes
    <2>2. job \in JobRec
        BY <1>0 DEF JobRec, Statuses
    <2> HIDE DEF job
    <2> QED
        BY <1>3, <2>1, <2>2, JobKept DEF JobCompletes
<1>4. CASE JobCompletes(j) /\ ~(recorded[jobs[j].file] # 0)
    <2>1. /\ jobs[j].status # "COMPLETED" /\ Import(rows, jobs[j].file, j)
          /\ jobs' = [jobs EXCEPT ![j].status = "COMPLETED", ![j].inserted = Cardinality(rows' \ rows)]
          /\ UNCHANGED <<csv, runs, updates, started, updated, unheard, doubtful, refreshed>>
        BY <1>4 DEF JobCompletes
    <2>2. PICK f \in Files : f = jobs[j].file
        BY <1>0 DEF JobRec
    <2>3. PICK fresh \in SUBSET RowRec, next \in Nat : Stores(rows, f, j, fresh, next)
        BY <1>0, ImportStores
    <2>4. rows' = rows \union fresh /\ nextId' = next /\ recorded' = [recorded EXCEPT ![f] = j]
        BY <2>1, <2>2, <2>3 DEF Import, Stores
    <2>5. PICK n \in Nat : n = Cardinality(rows' \ rows)
        <3>1. rows' \ rows \in SUBSET fresh /\ IsFiniteSet(fresh)
            BY <2>3, <2>4 DEF Stores
        <3> QED
            BY <3>1, FS_Subset, FS_CardinalityType
    <2> DEFINE job == [jobs[j] EXCEPT !.status = "COMPLETED", !.inserted = n]
    <2>6. jobs' = [jobs EXCEPT ![j] = job]
        BY <1>0, <2>1, <2>5
    <2>7. job \in JobRec
        BY <1>0 DEF JobRec, Statuses
    <2> HIDE DEF job
    <2> QED
        BY <2>1, <2>3, <2>4, <2>6, <2>7, JobStored
<1> QED
    BY <1>1, <1>2, <1>3, <1>4

\* A job is created for a run that waits for its answer.
LEMMA EnqueueKept ==
    ASSUME CsvInv, NEW r \in runs, ServerEnqueue(r)
    PROVE  CsvInv'
<1>0. CsvTyped /\ RunsInv /\ ViewsInv /\ AgreeInv
    BY DEF CsvInv
<1>1. /\ r \in RunRec /\ RunOK(r) /\ r.at = "enqueue" /\ r.reply = NoReply /\ r.reply.kind = "none"
      /\ r.file \in Files /\ r.id \in 1..started /\ r.id \notin DOMAIN jobs /\ started \in Nat
      /\ MaxReceive \in Nat
      /\ UNCHANGED <<csv, updates, started, updated, rows, nextId, recorded,
                     unheard, doubtful, refreshed>>
    BY <1>0, UploadCsvAssumption DEF CsvTyped, RunsInv, RunOK, RunRec, NoReply, ServerEnqueue
<1>2. PICK to \in RunRec :
        /\ runs' = (runs \ {r}) \union {to}
        /\ to.id = r.id /\ to.file = r.file /\ to.here = r.here /\ to.at = r.at /\ to.guard = r.guard
        /\ to.reply.kind = "job" /\ to.reply.status = "QUEUED"
    <2> DEFINE to == [r EXCEPT !.reply = [kind |-> "job", status |-> "QUEUED", inserted |-> 0]]
    <2>1. runs' = (runs \ {r}) \union {to}
        BY DEF ServerEnqueue, Step
    <2>2. [kind |-> "job", status |-> "QUEUED", inserted |-> 0] \in Reply
        BY DEF Reply, Statuses
    <2>3. /\ to \in RunRec /\ to.id = r.id /\ to.file = r.file /\ to.here = r.here /\ to.at = r.at
          /\ to.guard = r.guard /\ to.reply = [kind |-> "job", status |-> "QUEUED", inserted |-> 0]
        BY <1>1, <2>2 DEF RunRec
    <2> HIDE DEF to
    <2> QED
        BY <2>1, <2>3
<1>3. PICK job \in JobRec : jobs' = Spread(jobs, [j \in {r.id} |-> job])
    <2> DEFINE job == [file |-> r.file, status |-> "QUEUED", tries |-> 0, inserted |-> 0]
    <2>1. job \in JobRec
        BY <1>1 DEF JobRec, Statuses
    <2>2. jobs' = Spread(jobs, [j \in {r.id} |-> job])
        BY DEF ServerEnqueue
    <2> HIDE DEF job
    <2> QED
        BY <2>1, <2>2
<1>4. /\ DOMAIN jobs' = DOMAIN jobs \union {r.id} /\ jobs' \in [DOMAIN jobs' -> JobRec]
      /\ \A i \in DOMAIN jobs : jobs'[i] = jobs[i]
    <2>1. jobs \in [DOMAIN jobs -> JobRec]
        BY <1>0 DEF CsvTyped
    <2>2. jobs' = [i \in DOMAIN jobs \union {r.id} |-> IF i \in DOMAIN jobs THEN jobs[i] ELSE job]
        BY <1>3 DEF Spread
    <2> QED
        BY <2>1, <2>2
<1>5. CsvTyped'
    BY <1>0, <1>1, <1>2, <1>4 DEF CsvTyped
<1>6. RunsInv'
    <2>1. RunOK(to)'
        BY <1>1, <1>2, <1>4 DEF RunOK
    <2>2. ASSUME NEW q \in runs, q # r PROVE RunOK(q)'
        <3>1. RunOK(q) /\ q.id # r.id
            BY <1>0, <2>2 DEF RunsInv
        <3>2. q.reply.kind = "job" => q.id \in DOMAIN jobs
            BY <3>1 DEF RunOK
        <3> QED
            BY <1>1, <1>4, <3>1, <3>2 DEF RunOK
    <2>3. OneRunPerPage'
        BY <1>0, <1>1, <1>2 DEF RunsInv, OneRunPerPage
    <2>4. \A p, q \in runs' : p.id = q.id => p = q
        BY <1>0, <1>2 DEF RunsInv
    <2> QED
        BY <1>2, <2>1, <2>2, <2>3, <2>4 DEF RunsInv
<1>7. ViewsInv'
    <2>1. /\ \A q \in runs : \E p \in runs' : p.id = q.id
          /\ \E p \in runs' : p.id = r.id
          /\ \A p \in runs' : p.id = r.id \/ p \in runs
        BY <1>2
    <2>2. TheViewsAreTold'
        BY <1>0, <1>1, <2>1 DEF ViewsInv, TheViewsAreTold
    <2>3. \A row \in rows', q \in runs' :
              row.run = q.id => q.reply.kind = "ok" \/ q.id \in DOMAIN jobs'
        BY <1>0, <1>1, <1>4, <2>1 DEF ViewsInv
    <2>4. \A j \in DOMAIN jobs' :
              j \in unheard' \/ jobs'[j].status = "COMPLETED" \/ \E q \in runs' : q.id = j
        BY <1>0, <1>1, <1>4, <2>1 DEF ViewsInv
    <2> QED
        BY <2>2, <2>3, <2>4 DEF ViewsInv
<1>8. AgreeInv'
    <2>1. \A q \in runs' : q.here /\ q.reply.kind = "ok" => OnTheirWay(q)'
        BY <1>0, <1>1, <1>2 DEF AgreeInv, OnTheirWay
    <2> QED
        BY <1>0, <1>1, <2>1 DEF AgreeInv, Settled, Overlaps
<1> QED
    BY <1>5, <1>6, <1>7, <1>8 DEF CsvInv

-----------------------------------------------------------------------------
(* The statement page: categories *)

\* The rows after an update: the same rows, with one category changed.
LEMMA RowsUpdated ==
    ASSUME rows \subseteq RowRec, NEW k \in Nat, NEW c \in Categories, rows' = Updated(rows, k, c)
    PROVE  /\ rows' \subseteq RowRec
           /\ \A row \in rows' :
                 \/ row \in rows /\ row.id # k
                 \/ /\ row.id = k /\ row.category = c
                    /\ \E old \in rows : old.id = row.id /\ old.run = row.run
<1> DEFINE m(r) == IF r.id = k THEN [r EXCEPT !.category = c] ELSE r
<1>1. rows' = {m(r) : r \in rows}
    BY DEF Updated
<1>2. \A r \in rows :
        /\ m(r) \in RowRec
        /\ r.id # k => m(r) = r
        /\ r.id = k => m(r).id = k /\ m(r).category = c /\ m(r).run = r.run
    BY DEF RowRec
<1> HIDE DEF m
<1>3. \A row \in rows' : \E r \in rows : row = m(r)
    BY <1>1, Zenon
<1>4. ASSUME NEW r \in rows
      PROVE  \/ m(r) \in rows /\ m(r).id # k
             \/ /\ m(r).id = k /\ m(r).category = c
                /\ \E old \in rows : old.id = m(r).id /\ old.run = m(r).run
    <2>1. CASE r.id = k
        BY <1>2, <2>1
    <2>2. CASE r.id # k
        BY <1>2, <2>2
    <2> QED
        BY <2>1, <2>2
<1> QED
    BY <1>2, <1>3, <1>4

LEMMA UpdateServed ==
    ASSUME CsvInv, NEW u \in updates, ServerUpdate(u)
    PROVE  CsvInv'
<1>0. CsvTyped /\ RunsInv /\ ViewsInv /\ AgreeInv
    BY DEF CsvInv
<1>1. /\ u \in UpdateRec /\ u.id \in Nat /\ u.category \in Categories /\ u.state = "sent"
      /\ UNCHANGED <<csv, runs, started, updated, nextId, recorded, jobs,
                     unheard, doubtful, refreshed>>
    BY <1>0 DEF CsvTyped, UpdateRec, ServerUpdate
<1>2. /\ rows' \subseteq RowRec
      /\ \A row \in rows' :
            \/ row \in rows /\ row.id # u.id
            \/ /\ row.id = u.id /\ row.category = u.category
               /\ \E old \in rows : old.id = row.id /\ old.run = row.run
    BY <1>0, <1>1, RowsUpdated DEF CsvTyped, ServerUpdate
<1>3. PICK to \in UpdateRec :
        to.id = u.id /\ to.category = u.category /\ updates' = (updates \ {u}) \union {to}
    <2>1. ASSUME NEW state \in {"applied", "failed"},
                 updates' = (updates \ {u}) \union {[u EXCEPT !.state = state]}
          PROVE  \E to \in UpdateRec :
                    to.id = u.id /\ to.category = u.category /\ updates' = (updates \ {u}) \union {to}
        <3> DEFINE to == [u EXCEPT !.state = state]
        <3>1. to \in UpdateRec /\ to.id = u.id /\ to.category = u.category
            BY <1>1 DEF UpdateRec
        <3> HIDE DEF to
        <3> QED
            BY <2>1, <3>1 DEF to
    <2>2. \/ updates' = (updates \ {u}) \union {[u EXCEPT !.state = "applied"]}
          \/ updates' = (updates \ {u}) \union {[u EXCEPT !.state = "failed"]}
        BY DEF ServerUpdate
    <2> QED
        BY <2>1, <2>2
<1>4. \A row \in rows' : \E old \in rows : old.id = row.id /\ old.run = row.run
    BY <1>2
<1>5. CsvTyped'
    BY <1>0, <1>1, <1>2, <1>3, <1>4 DEF CsvTyped
<1>6. RunsInv'
    <2>1. \A r \in runs : RunOK(r)'
        BY <1>0, <1>1 DEF RunsInv, RunOK
    <2> QED
        BY <1>0, <1>1, <2>1 DEF RunsInv, OneRunPerPage
<1>7. ViewsInv'
    BY <1>0, <1>1, <1>4 DEF ViewsInv, TheViewsAreTold
<1>8. ASSUME NEW i \in 0..(nextId - 1), i \notin doubtful
      PROVE  Settled(i)'
    <2>1. Settled(i)
        BY <1>0, <1>8 DEF AgreeInv
    <2>2. \A v, w \in updates' : v.id = i /\ w.id = i => v = w
        BY <1>3, <2>1 DEF Settled
    <2>3. \A x \in csv.results, v \in updates' : x.id = i /\ v.id = i => x.category = v.category
        BY <1>3, <2>1 DEF Settled
    <2>4. ASSUME NEW x \in csv.results, NEW row \in rows', x.id = i, row.id = i, ~Overlaps(i)'
          PROVE  x.category = row.category
        <3>1. i # u.id /\ ~Overlaps(i)
            BY <1>3, <2>4 DEF Overlaps
        <3>2. row \in rows
            BY <1>2, <2>4, <3>1
        <3> QED
            BY <2>1, <2>4, <3>1, <3>2 DEF Settled
    <2>5. ASSUME NEW v \in updates', NEW row \in rows', v.id = i, row.id = i, v.state = "applied"
          PROVE  row.category = v.category
        <3>1. CASE i = u.id
            <4>1. v = to
                BY <1>3, <2>2, <2>5, <3>1
            <4> QED
                BY <1>2, <1>3, <2>5, <3>1, <4>1
        <3>2. CASE i # u.id
            <4>1. row \in rows /\ v \in updates
                BY <1>2, <1>3, <2>5, <3>2
            <4> QED
                BY <2>1, <2>5, <4>1 DEF Settled
        <3> QED
            BY <3>1, <3>2
    <2> QED
        BY <1>1, <2>2, <2>3, <2>4, <2>5 DEF Settled
<1>9. ASSUME NEW r \in runs, r.here, r.reply.kind = "ok" PROVE OnTheirWay(r)'
    <2>1. OnTheirWay(r)
        BY <1>0, <1>9 DEF AgreeInv
    <2> QED
        BY <1>1, <1>2, <1>3, <2>1 DEF OnTheirWay
<1>10. AgreeInv'
    BY <1>1, <1>8, <1>9 DEF AgreeInv
<1> QED
    BY <1>5, <1>6, <1>7, <1>10 DEF CsvInv

\* An update is answered: the views hear of the ledger, the results stay.
LEMMA UpdateSettled ==
    ASSUME CsvInv, NEW u \in updates, AnswerUpdate(u) \/ UpdateFails(u)
    PROVE  CsvInv'
<1>0. CsvTyped /\ RunsInv /\ ViewsInv /\ AgreeInv
    BY DEF CsvInv
<1>1. /\ updates' = updates \ {u} /\ refreshed' = {row.id : row \in rows}
      /\ UNCHANGED <<csv, runs, started, updated, rows, nextId, recorded, jobs, unheard>>
    BY DEF AnswerUpdate, UpdateFails, Settle, server_vars
<1>2. /\ doubtful \subseteq doubtful'
      /\ u.state = "applied" \/ u.id \in doubtful'
    BY DEF AnswerUpdate, UpdateFails
<1>3. CsvTyped'
    BY <1>0, <1>1 DEF CsvTyped
<1>4. RunsInv'
    <2>1. \A r \in runs : RunOK(r)'
        BY <1>0, <1>1 DEF RunsInv, RunOK
    <2> QED
        BY <1>0, <1>1, <2>1 DEF RunsInv, OneRunPerPage
<1>5. ViewsInv'
    BY <1>0, <1>1 DEF ViewsInv, TheViewsAreTold
<1>6. ASSUME NEW i \in 0..(nextId - 1), i \notin doubtful'
      PROVE  Settled(i)'
    <2>1. Settled(i)
        BY <1>0, <1>2, <1>6 DEF AgreeInv
    <2>2. ASSUME NEW x \in csv.results, NEW row \in rows, x.id = i, row.id = i, ~Overlaps(i)'
          PROVE  x.category = row.category
        <3>1. CASE Overlaps(i)
            <4>1. u.id = i
                BY <1>1, <2>2, <3>1 DEF Overlaps
            <4>2. u.state = "applied"
                BY <1>2, <1>6, <4>1
            <4>3. x.category = u.category /\ row.category = u.category
                BY <2>1, <2>2, <4>1, <4>2 DEF Settled
            <4> QED
                BY <4>3
        <3>2. CASE ~Overlaps(i)
            BY <2>1, <2>2, <3>2 DEF Settled
        <3> QED
            BY <3>1, <3>2
    <2> QED
        BY <1>1, <2>1, <2>2 DEF Settled
<1>7. \A r \in runs : r.here /\ r.reply.kind = "ok" => OnTheirWay(r)'
    BY <1>0, <1>1 DEF AgreeInv, OnTheirWay
<1>8. AgreeInv'
    BY <1>1, <1>6, <1>7 DEF AgreeInv
<1> QED
    BY <1>3, <1>4, <1>5, <1>8 DEF CsvInv

\* The results take the category at once, and an update carries it.
LEMMA RecategorizeKept ==
    ASSUME CsvInv, NEW y \in csv.results, NEW c \in Categories, Recategorize(y.id, c)
    PROVE  CsvInv'
<1>0. CsvTyped /\ RunsInv /\ ViewsInv /\ AgreeInv
    BY DEF CsvInv
<1> DEFINE k == y.id
<1>1. /\ csv \in CsvRec /\ csv.results \subseteq Result /\ csv.phase = "done" /\ k \in Nat
      /\ k < nextId /\ updated \in Nat /\ updated' = updated + 1 /\ updated' \in 0..MaxUpdates
      /\ UNCHANGED <<runs, started, rows, nextId, recorded, jobs, unheard, refreshed>>
    BY <1>0, UploadCsvAssumption DEF CsvTyped, CsvRec, Result, Recategorize, server_vars
<1>2. /\ \A r \in runs : ~r.here
      /\ doubtful \subseteq doubtful'
      /\ Overlaps(k) => k \in doubtful'
    BY <1>0, <1>1 DEF RunsInv, OneRunPerPage, Recategorize
<1>3. PICK u \in UpdateRec :
        u.id = k /\ u.category = c /\ u.state = "sent" /\ updates' = updates \union {u}
    <2> DEFINE u == [n |-> updated + 1, id |-> k, category |-> c, state |-> "sent", here |-> TRUE]
    <2>1. updates' = updates \union {u}
        BY DEF Recategorize
    <2>2. u \in UpdateRec /\ u.id = k /\ u.category = c /\ u.state = "sent"
        BY <1>1 DEF UpdateRec
    <2> HIDE DEF u
    <2> QED
        BY <2>1, <2>2
<1>4. /\ csv' \in CsvRec /\ csv'.phase = "done" /\ csv'.lastFile = csv.lastFile
      /\ \A x \in csv'.results :
            \/ x \in csv.results /\ x.id # k
            \/ x.id = k /\ x.category = c
    <2> DEFINE m(x) == IF x.id = k THEN [x EXCEPT !.category = c] ELSE x
               new == {m(x) : x \in csv.results}
    <2>1. csv' = [csv EXCEPT !.results = new]
        BY <1>1 DEF Recategorize, CsvRec
    <2>2. \A x \in csv.results : /\ m(x) \in Result
                                 /\ x.id # k => m(x) = x
                                 /\ x.id = k => m(x).id = k /\ m(x).category = c
        BY <1>1 DEF Result
    <2> HIDE DEF m
    <2>3. new \in SUBSET Result /\ \A x \in new :
             \/ x \in csv.results /\ x.id # k
             \/ x.id = k /\ x.category = c
        <3>1. \A x \in new : \E r \in csv.results : x = m(r)
            OBVIOUS
        <3>2. ASSUME NEW r \in csv.results
              PROVE  \/ m(r) \in csv.results /\ m(r).id # k
                     \/ m(r).id = k /\ m(r).category = c
            BY <2>2
        <3> HIDE DEF new
        <3> QED
            BY <2>2, <3>1, <3>2
    <2> HIDE DEF new
    <2>4. csv' \in CsvRec /\ csv'.phase = csv.phase /\ csv'.lastFile = csv.lastFile /\ csv'.results = new
        BY <1>1, <2>1, <2>3 DEF CsvRec
    <2> QED
        BY <1>1, <2>3, <2>4
<1> HIDE DEF k
<1>5. CsvTyped'
    <2>1. \A x \in csv'.results : x.id < nextId
        BY <1>0, <1>1, <1>4 DEF CsvTyped
    <2> QED
        BY <1>0, <1>1, <1>3, <1>4, <2>1 DEF CsvTyped
<1>6. RunsInv'
    <2>1. \A r \in runs : RunOK(r)'
        BY <1>0, <1>1 DEF RunsInv, RunOK
    <2> QED
        BY <1>0, <1>1, <1>2, <1>4, <2>1 DEF RunsInv, OneRunPerPage
<1>7. ViewsInv'
    BY <1>0, <1>1 DEF ViewsInv, TheViewsAreTold
<1>8. ASSUME NEW i \in 0..(nextId - 1), i \notin doubtful'
      PROVE  Settled(i)'
    <2>1. Settled(i)
        BY <1>0, <1>2, <1>8 DEF AgreeInv
    <2>2. CASE i = k
        <3>1. \A v \in updates : v.id # k
            BY <1>2, <1>8, <2>2 DEF Overlaps
        <3>2. Overlaps(i)'
            BY <1>3, <2>2 DEF Overlaps
        <3> QED
            BY <1>3, <1>4, <2>2, <3>1, <3>2 DEF Settled
    <2>3. CASE i # k
        <3>1. /\ \A x \in csv'.results : x.id = i => x \in csv.results
              /\ \A v \in updates' : v.id = i => v \in updates
              /\ Overlaps(i) => Overlaps(i)'
            BY <1>3, <1>4, <2>3 DEF Overlaps
        <3> QED
            BY <1>1, <2>1, <3>1 DEF Settled
    <2> QED
        BY <2>2, <2>3
<1>9. AgreeInv'
    BY <1>1, <1>2, <1>8 DEF AgreeInv
<1> QED
    BY <1>5, <1>6, <1>7, <1>9 DEF CsvInv

-----------------------------------------------------------------------------
(* The statement page: runs *)

\* A run starts while none is of the page.
LEMMA BeginKept ==
    ASSUME CsvInv, csv.phase # "processing", NEW f \in Files, NEW force \in Forces,
           NEW at \in {"reading", "enqueue"}, NEW state \in CsvRec,
           state.phase = "processing", state.results = csv.results,
           Begin(f, force, state, at)
    PROVE  CsvInv'
<1>0. CsvTyped /\ RunsInv /\ ViewsInv /\ AgreeInv
    BY DEF CsvInv
<1>1. /\ started \in Nat /\ started' = started + 1 /\ started' \in 1..MaxRuns /\ MaxRuns \in Nat
      /\ MaxPolls \in Nat
      /\ UNCHANGED <<updates, updated, rows, nextId, recorded, jobs, unheard, doubtful, refreshed>>
    BY <1>0, UploadCsvAssumption DEF CsvTyped, Begin, server_vars
<1>2. PICK to \in RunRec :
        /\ runs' = runs \union {to}
        /\ to.id = started' /\ to.file = f /\ to.at = at /\ to.guard = 0 /\ to.here
        /\ to.reply.kind = "none"
    <2> DEFINE to == NewRun(f, force, at)
    <2>1. runs' = runs \union {to}
        BY DEF Begin
    <2>2. /\ to \in RunRec /\ to.id = started' /\ to.file = f /\ to.at = at /\ to.guard = 0 /\ to.here
          /\ to.reply = NoReply
        BY <1>1 DEF NewRun, RunRec, Reply
    <2> HIDE DEF to
    <2> QED
        BY <2>1, <2>2 DEF NoReply
<1>3. /\ csv' \in CsvRec /\ csv'.phase = "processing" /\ csv'.lastFile = f /\ csv'.results = csv.results
    BY DEF Begin, CsvRec
<1>4. /\ \A r \in runs : ~r.here /\ r.id \in 1..started
      /\ DOMAIN jobs \subseteq 1..started
    BY <1>0 DEF RunsInv, RunOK, OneRunPerPage, CsvTyped
<1>5. CsvTyped'
    <2>1. /\ recorded' \in [Files -> 0..started']
          /\ unheard' \subseteq 1..started' /\ DOMAIN jobs' \subseteq 1..started'
        BY <1>0, <1>1 DEF CsvTyped
    <2>2. \A row \in rows' : row.id < nextId' /\ row.run \in 1..started'
        BY <1>0, <1>1 DEF CsvTyped
    <2> QED
        BY <1>0, <1>1, <1>2, <1>3, <2>1, <2>2 DEF CsvTyped
<1>6. RunsInv'
    <2>1. RunOK(to)'
        <3>1. started' \notin DOMAIN jobs /\ started' \in 1..started'
            BY <1>1, <1>4
        <3> QED
            BY <1>1, <1>2, <3>1 DEF RunOK
    <2>2. \A r \in runs : RunOK(r)'
        <3> SUFFICES ASSUME NEW r \in runs PROVE RunOK(r)'
            OBVIOUS
        <3>1. RunOK(r) /\ r.id \in 1..started'
            BY <1>0, <1>1, <1>4 DEF RunsInv
        <3> QED
            BY <1>1, <3>1 DEF RunOK
    <2>3. OneRunPerPage'
        BY <1>2, <1>3, <1>4 DEF OneRunPerPage
    <2>4. \A p, q \in runs' : p.id = q.id => p = q
        BY <1>0, <1>1, <1>2, <1>4 DEF RunsInv
    <2> QED
        BY <1>2, <2>1, <2>2, <2>3, <2>4 DEF RunsInv
<1>7. ViewsInv'
    <2>1. \A row \in rows : row.run # started'
        BY <1>0, <1>1 DEF CsvTyped
    <2>2. TheViewsAreTold'
        BY <1>0, <1>1, <1>2 DEF ViewsInv, TheViewsAreTold
    <2>3. \A row \in rows', r \in runs' :
              row.run = r.id => r.reply.kind = "ok" \/ r.id \in DOMAIN jobs'
        BY <1>0, <1>1, <1>2, <2>1 DEF ViewsInv
    <2>4. \A j \in DOMAIN jobs' :
              j \in unheard' \/ jobs'[j].status = "COMPLETED" \/ \E r \in runs' : r.id = j
        BY <1>0, <1>1, <1>2 DEF ViewsInv
    <2> QED
        BY <2>2, <2>3, <2>4 DEF ViewsInv
<1>8. AgreeInv'
    <2>1. \A r \in runs' : r.here /\ r.reply.kind = "ok" => OnTheirWay(r)'
        BY <1>2, <1>4
    <2> QED
        BY <1>0, <1>1, <1>3, <2>1 DEF AgreeInv, Settled, Overlaps
<1> QED
    BY <1>5, <1>6, <1>7, <1>8 DEF CsvInv

LEMMA RunKept ==
    ASSUME CsvInv, csv.phase \in {"idle", "duplicate"}, NEW f \in Files, NEW force \in Forces,
           Run(f, force)
    PROVE  CsvInv'
<1>0. csv \in CsvRec
    BY DEF CsvInv, CsvTyped
<1>1. CASE /\ csv' = [csv EXCEPT !.lastFile = f, !.phase = "error"]
           /\ UNCHANGED <<runs, updates, started, updated, server_vars, unheard, doubtful, refreshed>>
    <2>1. csv' \in CsvRec /\ csv'.phase = "error" /\ csv'.results = csv.results
        BY <1>0, <1>1 DEF CsvRec, Phases
    <2> QED
        BY <1>1, <2>1, PageAlone
<1>2. CASE Begin(f, force, [Processing("categorizing") EXCEPT !.asyncMode = TRUE], "enqueue")
    <2> DEFINE state == [Processing("categorizing") EXCEPT !.asyncMode = TRUE]
    <2>1. state \in CsvRec /\ state.phase = "processing" /\ state.results = csv.results
        BY <1>0 DEF Processing, CsvRec, Phases, Stages
    <2>2. Begin(f, force, state, "enqueue")
        BY <1>2
    <2> HIDE DEF state
    <2> QED
        BY <2>1, <2>2, BeginKept
<1>3. CASE Begin(f, force, Processing("reading"), "reading")
    <2> DEFINE state == Processing("reading")
    <2>1. state \in CsvRec /\ state.phase = "processing" /\ state.results = csv.results
        BY <1>0 DEF Processing, CsvRec, Phases, Stages
    <2>2. Begin(f, force, state, "reading")
        BY <1>3
    <2> HIDE DEF state
    <2> QED
        BY <2>1, <2>2, BeginKept
<1> QED
    BY <1>1, <1>2, <1>3, Zenon DEF Run

LEMMA UserKept ==
    ASSUME CsvInv, CsvUser
    PROVE  CsvInv'
<1>0. csv \in CsvRec
    BY DEF CsvInv, CsvTyped
<1>1. CASE PickFile
    <2>1. csv.phase = "idle" /\ "none" \in Forces
        BY <1>1 DEF PickFile, Forces
    <2>2. PICK f \in Files : Run(f, "none")
        BY <1>1 DEF PickFile
    <2> QED
        BY <2>1, <2>2, RunKept
<1>2. CASE Choose
    <2>1. csv.phase = "duplicate" /\ csv.lastFile \in Files
        BY <1>0, <1>2 DEF Choose, CsvRec
    <2>2. PICK force \in Forces : Run(csv.lastFile, force)
        BY <1>2 DEF Choose, Forces
    <2> QED
        BY <2>1, <2>2, RunKept
<1>3. CASE Reset
    <2>1. /\ csv' = [Blank EXCEPT !.stage = csv.stage, !.count = csv.count]
          /\ csv.phase \in {"duplicate", "error", "done"}
          /\ UNCHANGED <<runs, updates, started, updated, server_vars, unheard, doubtful, refreshed>>
        BY <1>3 DEF Reset
    <2>2. csv' \in CsvRec /\ csv'.phase = "idle" /\ csv'.results = {}
        BY <1>0, <2>1 DEF Blank, CsvRec, Phases, Stages
    <2> QED
        BY <2>1, <2>2, PageAlone
<1>4. ASSUME NEW x \in csv.results, NEW c \in Categories, Recategorize(x.id, c)
      PROVE  CsvInv'
    BY <1>4, RecategorizeKept
<1> QED
    BY <1>1, <1>2, <1>3, <1>4 DEF CsvUser

\* What is known of a run of the invariant.
LEMMA RunFacts ==
    ASSUME CsvInv, NEW r \in runs
    PROVE  /\ RunOK(r) /\ r \in RunRec /\ csv \in CsvRec /\ r.file \in Files
           /\ MaxPolls \in Nat /\ r.guard \in Nat
           /\ r.here => csv.phase = "processing" /\ csv.lastFile = r.file
           /\ csv.phase \in Phases
BY UploadCsvAssumption DEF CsvInv, CsvTyped, RunsInv, OneRunPerPage, RunRec, CsvRec

\* The page shows how far its run is: the phase and the results stay.
LEMMA ShownStage ==
    ASSUME NEW r, csv \in CsvRec, NEW stage \in Stages, NEW count \in Nat,
           \/ Show(r, [csv EXCEPT !.stage = stage, !.count = count])
           \/ Show(r, [csv EXCEPT !.stage = stage])
    PROVE  /\ csv' \in CsvRec /\ csv'.phase = csv.phase /\ csv'.lastFile = csv.lastFile
           /\ csv'.dup = csv.dup /\ csv'.results = csv.results
<1>1. CASE Show(r, [csv EXCEPT !.stage = stage, !.count = count])
    BY <1>1 DEF Show, CsvRec
<1>2. CASE Show(r, [csv EXCEPT !.stage = stage])
    BY <1>2 DEF Show, CsvRec
<1> QED
    BY <1>1, <1>2

LEMMA GiveUpKept ==
    ASSUME CsvInv, NEW r \in runs, GiveUp(r)
    PROVE  CsvInv'
<1>1. /\ csv \in CsvRec /\ Return(r) /\ csv' = IF r.here THEN [csv EXCEPT !.phase = "error"] ELSE csv
      /\ unheard' = unheard \union {r.id}
      /\ UNCHANGED <<updates, started, updated, server_vars, doubtful, refreshed>>
    BY RunFacts DEF GiveUp, Show
<1>2. /\ csv' \in CsvRec /\ csv'.results = csv.results
      /\ (r.here => csv'.phase = "error") /\ (~r.here => csv' = csv)
    BY <1>1 DEF CsvRec, Phases
<1> QED
    BY <1>1, <1>2, RunReturned

LEMMA DoneKept ==
    ASSUME CsvInv, NEW r \in runs, NEW count \in Nat, NEW results \in SUBSET Result,
           Done(r, count, results), r.id \in DOMAIN jobs => jobs[r.id].status = "COMPLETED",
           \A x \in results : /\ r.reply.kind = "ok"
                              /\ \E s \in r.reply.saved : x.id = s.id /\ x.category = s.category,
           UNCHANGED <<updates, started, updated, server_vars, unheard, doubtful>>
    PROVE  CsvInv'
<1>1. /\ csv \in CsvRec /\ Return(r) /\ refreshed' = {row.id : row \in rows}
      /\ csv' = IF r.here THEN [csv EXCEPT !.phase = "done", !.stage = "done", !.count = count,
                                           !.results = results] ELSE csv
    BY RunFacts DEF Done, Show
<1>2. /\ csv' \in CsvRec /\ (r.here => csv'.phase = "done") /\ (~r.here => csv' = csv)
      /\ csv'.results = IF r.here THEN results ELSE csv.results
    BY <1>1 DEF CsvRec, Phases, Stages
<1>3. \A x \in csv'.results :
          \/ x \in csv.results
          \/ /\ r.here /\ r.reply.kind = "ok"
             /\ \E s \in r.reply.saved : x.id = s.id /\ x.category = s.category
    BY <1>2
<1> QED
    BY <1>1, <1>2, <1>3, RunReturned

LEMMA ReadTextKept ==
    ASSUME CsvInv, NEW r \in runs, ReadText(r)
    PROVE  CsvInv'
<1>0. /\ RunOK(r) /\ r \in RunRec /\ csv \in CsvRec /\ r.file \in Files /\ r.at = "reading"
      /\ r.reply.kind = "none" /\ r.id \notin DOMAIN jobs
      /\ UNCHANGED <<updates, started, updated, server_vars, unheard, doubtful, refreshed>>
    BY RunFacts DEF ReadText, RunOK
<1>1. CASE Return(r) /\ Show(r, [csv EXCEPT !.phase = "error"])
    <2>1. /\ csv' \in CsvRec /\ csv'.results = csv.results
          /\ (r.here => csv'.phase = "error") /\ (~r.here => csv' = csv)
        BY <1>0, <1>1 DEF Show, CsvRec, Phases
    <2> QED
        BY <1>0, <1>1, <2>1, RunReturned
<1>2. CASE /\ Step(r, [r EXCEPT !.at = "parsing"])
           /\ Show(r, [csv EXCEPT !.stage = "parsing", !.count = CountDataRows(r.file)])
    <2>1. CountDataRows(r.file) \in Nat
        <3>1. Content[r.file] \in Seq(Entry)
            BY <1>0, ContentAssumption
        <3> QED
            BY <3>1 DEF CountDataRows
    <2>2. /\ csv' \in CsvRec /\ csv'.phase = csv.phase /\ csv'.lastFile = csv.lastFile
          /\ csv'.dup = csv.dup /\ csv'.results = csv.results
        BY <1>0, <1>2, <2>1, ShownStage DEF Stages
    <2> DEFINE to == [r EXCEPT !.at = "parsing"]
    <2>3. /\ to \in RunRec /\ to.id = r.id /\ to.file = r.file /\ to.here = r.here
          /\ to.at = "parsing" /\ to.guard = r.guard /\ to.reply = r.reply
        BY <1>0 DEF RunRec
    <2>4. Step(r, to)
        BY <1>2
    <2> HIDE DEF to
    <2>5. RunOK(to) /\ to.reply.kind # "ok" /\ r.reply.kind # "ok"
        BY <1>0, <2>3 DEF RunOK
    <2> QED
        BY <1>0, <2>2, <2>3, <2>4, <2>5, RunMoved
<1> QED
    BY <1>1, <1>2, Zenon DEF ReadText

LEMMA SendKept ==
    ASSUME CsvInv, NEW r \in runs, Send(r)
    PROVE  CsvInv'
<1>0. /\ RunOK(r) /\ r \in RunRec /\ csv \in CsvRec /\ r.at = "parsing"
      /\ r.reply.kind = "none" /\ r.id \notin DOMAIN jobs
      /\ UNCHANGED <<updates, started, updated, server_vars, unheard, doubtful, refreshed>>
    BY RunFacts DEF Send, RunOK
<1> DEFINE to == [r EXCEPT !.at = "uploading"]
<1>1. Show(r, [csv EXCEPT !.stage = "categorizing"]) /\ Step(r, to)
    BY DEF Send
<1>2. /\ csv' \in CsvRec /\ csv'.phase = csv.phase /\ csv'.lastFile = csv.lastFile
      /\ csv'.dup = csv.dup /\ csv'.results = csv.results
    BY <1>0, <1>1, ShownStage DEF Stages
<1>3. /\ to \in RunRec /\ to.id = r.id /\ to.file = r.file /\ to.here = r.here
      /\ to.at = "uploading" /\ to.guard = r.guard /\ to.reply = r.reply
    BY <1>0 DEF RunRec
<1> HIDE DEF to
<1>4. RunOK(to) /\ to.reply.kind # "ok" /\ r.reply.kind # "ok"
    BY <1>0, <1>3 DEF RunOK
<1> QED
    BY <1>0, <1>1, <1>2, <1>3, <1>4, RunMoved

\* A run that gets a reply, or goes back to its loop, and shows nothing.
LEMMA ReplyKept ==
    ASSUME CsvInv, NEW r \in runs, NEW to \in RunRec, Step(r, to), to.id = r.id, to.file = r.file,
           to.here = r.here, RunOK(to), r.reply.kind # "ok", to.reply.kind # "ok",
           UNCHANGED <<csv, updates, started, updated, server_vars, unheard, doubtful, refreshed>>
    PROVE  CsvInv'
<1>1. csv' \in CsvRec /\ csv' = csv
    BY RunFacts
<1> QED
    BY <1>1, RunMoved

LEMMA ServerUploadKept ==
    ASSUME CsvInv, NEW r \in runs, ServerUpload(r)
    PROVE  CsvInv'
<1>0. RunOK(r) /\ r \in RunRec /\ r.at = "uploading" /\ r.reply.kind = "none"
    BY RunFacts DEF ServerUpload, NoReply
<1>1. CASE recorded[r.file] # 0 /\ r.force = "none"
    <2> DEFINE to == [r EXCEPT !.reply = [kind |-> "duplicate"]]
    <2>1. /\ Step(r, to)
          /\ UNCHANGED <<csv, updates, started, updated, server_vars, unheard, doubtful, refreshed>>
        BY <1>1 DEF ServerUpload, server_vars
    <2>2. [kind |-> "duplicate"] \in Reply
        BY DEF Reply
    <2>3. /\ to \in RunRec /\ to.id = r.id /\ to.file = r.file /\ to.here = r.here
          /\ to.at = r.at /\ to.guard = r.guard /\ to.reply = [kind |-> "duplicate"]
        BY <1>0, <2>2 DEF RunRec
    <2> HIDE DEF to
    <2>4. RunOK(to) /\ to.reply.kind # "ok" /\ r.reply.kind # "ok"
        BY <1>0, <1>1, <2>3 DEF RunOK
    <2> QED
        BY <2>1, <2>3, <2>4, ReplyKept
<1>2. CASE ~(recorded[r.file] # 0 /\ r.force = "none")
    BY <1>2, UploadStored
<1> QED
    BY <1>1, <1>2

LEMMA AnswerUploadKept ==
    ASSUME CsvInv, NEW r \in runs, AnswerUpload(r)
    PROVE  CsvInv'
<1>0. /\ RunOK(r) /\ r \in RunRec /\ r.at = "uploading" /\ csv \in CsvRec /\ r.file \in Files
      /\ r.here => csv.phase = "processing" /\ csv.lastFile = r.file
      /\ UNCHANGED <<updates, started, updated, server_vars, unheard, doubtful>>
    BY RunFacts DEF AnswerUpload
<1>1. CASE /\ r.reply.kind = "duplicate" /\ Return(r) /\ UNCHANGED refreshed
           /\ Show(r, [csv EXCEPT !.phase = "duplicate", !.dup = r.file])
    <2>1. /\ csv' \in CsvRec /\ csv'.results = csv.results /\ (~r.here => csv' = csv)
          /\ r.here => csv'.phase = "duplicate" /\ csv'.dup = r.file /\ csv'.lastFile = csv.lastFile
        BY <1>0, <1>1 DEF Show, CsvRec, Phases
    <2>2. recorded[r.file] # 0 /\ r.id \notin DOMAIN jobs
        BY <1>0, <1>1 DEF RunOK
    <2> QED
        BY <1>0, <1>1, <2>1, <2>2, RunReturned
<1>2. CASE /\ r.reply.kind = "ok"
           /\ Done(r, Cardinality(r.reply.saved),
                   {[id |-> row.id, category |-> row.category] : row \in r.reply.saved})
    <2> DEFINE results == {[id |-> row.id, category |-> row.category] : row \in r.reply.saved}
    <2>1. Cardinality(r.reply.saved) \in Nat /\ r.id \notin DOMAIN jobs
        BY <1>0, <1>2, FS_CardinalityType DEF RunOK
    <2>2. r.reply.saved \subseteq RowRec
        BY <1>0, <1>2 DEF RunRec, Reply, NoReply
    <2>3. /\ results \in SUBSET Result
          /\ \A x \in results : \E s \in r.reply.saved : x.id = s.id /\ x.category = s.category
        BY <2>2 DEF RowRec, Result
    <2> HIDE DEF results
    <2>4. Done(r, Cardinality(r.reply.saved), results)
        BY <1>2 DEF results
    <2> QED
        BY <1>0, <1>2, <2>1, <2>3, <2>4, DoneKept
<1> QED
    BY <1>1, <1>2, Zenon DEF AnswerUpload

LEMMA StatusKept ==
    ASSUME CsvInv, NEW r \in runs, ServerStatus(r)
    PROVE  CsvInv'
<1>0. /\ RunOK(r) /\ r \in RunRec /\ r.at = "polling" /\ r.reply.kind = "none" /\ r.id \in DOMAIN jobs
      /\ r.guard \in Nat /\ r.guard < MaxPolls /\ MaxPolls \in Nat /\ jobs[r.id] \in JobRec
      /\ UNCHANGED <<csv, updates, started, updated, server_vars, unheard, doubtful, refreshed>>
    BY RunFacts DEF ServerStatus, RunOK, NoReply, CsvInv, CsvTyped
<1> DEFINE reply == [kind |-> "job", status |-> jobs[r.id].status, inserted |-> jobs[r.id].inserted]
           g == r.guard + 1
           to == [r EXCEPT !.guard = g, !.reply = reply]
<1>1. Step(r, to)
    BY <1>0 DEF ServerStatus, RunRec
<1>5. g \in Nat /\ g = r.guard + 1
    BY <1>0
<1> HIDE DEF g
<1>2. reply \in Reply /\ reply.kind = "job" /\ reply.status = jobs[r.id].status
    BY <1>0 DEF Reply, JobRec
<1> HIDE DEF reply
<1>3. /\ to \in RunRec /\ to.id = r.id /\ to.file = r.file /\ to.here = r.here
      /\ to.at = r.at /\ to.guard = g /\ to.reply = reply
    BY <1>0, <1>2, <1>5 DEF RunRec
<1> HIDE DEF to
<1>4. RunOK(to) /\ to.reply.kind # "ok" /\ r.reply.kind # "ok"
    BY <1>0, <1>2, <1>3, <1>5 DEF RunOK
<1> QED
    BY <1>0, <1>1, <1>3, <1>4, ReplyKept

LEMMA LoopKept ==
    ASSUME CsvInv, NEW r \in runs, Loop(r)
    PROVE  CsvInv'
<1>0. /\ RunOK(r) /\ r \in RunRec /\ r.reply.kind = "job" /\ r.id \in DOMAIN jobs
      /\ r.reply.status \in Statuses /\ r.reply.inserted \in Nat
    <2>1. RunOK(r) /\ r \in RunRec /\ r.reply.kind = "job" /\ r.reply \in Reply
        BY RunFacts DEF Loop, RunRec
    <2>2. r.reply.status \in Statuses /\ r.reply.inserted \in Nat
        BY <2>1 DEF Reply, NoReply
    <2> QED
        BY <2>1, <2>2 DEF RunOK
<1>1. CASE /\ Looping(r) /\ Step(r, [r EXCEPT !.at = "polling", !.reply = NoReply])
           /\ UNCHANGED <<csv, updates, started, updated, server_vars, unheard, doubtful, refreshed>>
    <2> DEFINE to == [r EXCEPT !.at = "polling", !.reply = NoReply]
    <2>1. Step(r, to) /\ r.guard < MaxPolls
        BY <1>1 DEF Looping
    <2>2. /\ to \in RunRec /\ to.id = r.id /\ to.file = r.file /\ to.here = r.here
          /\ to.at = "polling" /\ to.guard = r.guard /\ to.reply = NoReply
        BY <1>0 DEF RunRec, Reply
    <2> HIDE DEF to
    <2>3. RunOK(to) /\ to.reply.kind # "ok" /\ r.reply.kind # "ok"
        BY <1>0, <2>1, <2>2 DEF RunOK, NoReply
    <2> QED
        BY <1>1, <2>1, <2>2, <2>3, ReplyKept
<1>2. CASE GiveUp(r)
    BY <1>2, GiveUpKept
<1>3. CASE /\ r.reply.status = "COMPLETED" /\ Done(r, r.reply.inserted, {})
           /\ UNCHANGED <<updates, started, updated, server_vars, unheard, doubtful>>
    <2>1. jobs[r.id].status = "COMPLETED"
        BY <1>0, <1>3 DEF RunOK
    <2> QED
        BY <1>0, <1>3, <2>1, DoneKept
<1> QED
    BY <1>1, <1>2, <1>3, Zenon DEF Loop

LEMMA BackgroundKept ==
    ASSUME CsvInv, CsvBackground
    PROVE  CsvInv'
<1>1. ASSUME NEW r \in runs, CsvRun(r) PROVE CsvInv'
    BY <1>1, ReadTextKept, SendKept, ServerUploadKept, AnswerUploadKept, EnqueueKept, StatusKept,
       LoopKept, GiveUpKept DEF CsvRun, CallFails
<1> QED
    BY <1>1, JobStep, UpdateServed, UpdateSettled DEF CsvBackground

\* The page is left: its state is dropped, its calls go on.
LEMMA CsvLeft ==
    ASSUME CsvInv, csv' = Blank, runs' = Unmounted(runs), updates' = Unmounted(updates),
           UNCHANGED <<started, updated, server_vars, unheard, doubtful, refreshed>>
    PROVE  CsvInv' /\ \A r \in runs' : ~r.here
<1>0. CsvTyped /\ RunsInv /\ ViewsInv /\ AgreeInv
    BY DEF CsvInv
<1>1. UNCHANGED <<started, updated, rows, nextId, recorded, jobs, unheard, doubtful, refreshed>>
    BY DEF server_vars
<1>2. csv' \in CsvRec /\ csv'.phase = "idle" /\ csv'.results = {}
    BY DEF Blank, CsvRec, Phases, Stages
<1> DEFINE m(r) == [r EXCEPT !.here = FALSE]
<1>3. /\ \A r \in runs : /\ m(r) \in RunRec /\ ~m(r).here /\ m(r).id = r.id /\ m(r).file = r.file
                          /\ m(r).at = r.at /\ m(r).guard = r.guard /\ m(r).reply = r.reply
      /\ \A u \in updates : /\ m(u) \in UpdateRec /\ m(u).id = u.id /\ m(u).category = u.category
                             /\ m(u).state = u.state
    BY <1>0 DEF CsvTyped, RunRec, UpdateRec
<1>4. runs' = {m(r) : r \in runs} /\ updates' = {m(u) : u \in updates}
    BY DEF Unmounted
<1> HIDE DEF m
<1>5. /\ \A x \in runs' : \E r \in runs :
             /\ x = m(r) /\ x \in RunRec /\ ~x.here /\ x.id = r.id /\ x.file = r.file
             /\ x.at = r.at /\ x.guard = r.guard /\ x.reply = r.reply
      /\ \A r \in runs : \E x \in runs' : x.id = r.id
    BY <1>3, <1>4
<1>6. \A v \in updates' : \E u \in updates :
          v = m(u) /\ v \in UpdateRec /\ v.id = u.id /\ v.category = u.category /\ v.state = u.state
    BY <1>3, <1>4
<1>7. CsvTyped'
    BY <1>0, <1>1, <1>2, <1>5, <1>6 DEF CsvTyped
<1>8. RunsInv'
    <2>1. ASSUME NEW x \in runs' PROVE RunOK(x)'
        <3>1. PICK r \in runs : /\ x.id = r.id /\ x.file = r.file /\ x.at = r.at /\ x.guard = r.guard
                                /\ x.reply = r.reply
            BY <1>5
        <3>2. RunOK(r)
            BY <1>0 DEF RunsInv
        <3> QED
            BY <1>1, <3>1, <3>2 DEF RunOK
    <2>2. \A x, y \in runs' : x.id = y.id => x = y
        BY <1>0, <1>5 DEF RunsInv
    <2>3. OneRunPerPage'
        BY <1>2, <1>5 DEF OneRunPerPage
    <2> QED
        BY <2>1, <2>2, <2>3 DEF RunsInv
<1>9. ViewsInv'
    <2>1. TheViewsAreTold'
        BY <1>0, <1>1, <1>5 DEF ViewsInv, TheViewsAreTold
    <2>2. \A row \in rows', r \in runs' :
              row.run = r.id => r.reply.kind = "ok" \/ r.id \in DOMAIN jobs'
        BY <1>0, <1>1, <1>5 DEF ViewsInv
    <2>3. \A j \in DOMAIN jobs' :
              j \in unheard' \/ jobs'[j].status = "COMPLETED" \/ \E r \in runs' : r.id = j
        BY <1>0, <1>1, <1>5 DEF ViewsInv
    <2> QED
        BY <2>1, <2>2, <2>3 DEF ViewsInv
<1>10. AgreeInv'
    <2>1. ASSUME NEW i \in 0..(nextId - 1), i \notin doubtful
          PROVE  Settled(i)'
        <3>1. Settled(i)
            BY <1>0, <2>1 DEF AgreeInv
        <3> QED
            BY <1>1, <1>2, <1>6, <3>1 DEF Settled
    <2> QED
        BY <1>1, <1>5, <2>1 DEF AgreeInv
<1> QED
    BY <1>5, <1>7, <1>8, <1>9, <1>10 DEF CsvInv

\* A step behind a page that is not mounted shows nothing on it.
LEMMA CsvUnseen ==
    ASSUME CsvInv, csv = Blank, \A r \in runs : ~r.here, CsvBackground
    PROVE  csv' = Blank /\ \A r \in runs' : ~r.here
<1>0. \A r \in runs : r \in RunRec
    BY DEF CsvInv, CsvTyped
<1>1. ASSUME NEW r \in runs, NEW to, Step(r, to), to.here = r.here, csv' = csv
      PROVE  csv' = Blank /\ \A q \in runs' : ~q.here
    BY <1>1 DEF Step
<1>2. ASSUME NEW r \in runs, NEW state, Return(r), Show(r, state)
      PROVE  csv' = Blank /\ \A q \in runs' : ~q.here
    BY <1>2 DEF Return, Show
<1>3. ASSUME UNCHANGED <<csv, runs>>
      PROVE  csv' = Blank /\ \A q \in runs' : ~q.here
    BY <1>3
<1>4. ASSUME NEW r \in runs, NEW at, NEW guard, NEW reply,
             Step(r, [r EXCEPT !.at = at]) \/ Step(r, [r EXCEPT !.reply = reply])
               \/ Step(r, [r EXCEPT !.guard = guard, !.reply = reply])
               \/ Step(r, [r EXCEPT !.at = at, !.reply = reply]),
             csv' = csv
      PROVE  csv' = Blank /\ \A q \in runs' : ~q.here
    <2>1. /\ [r EXCEPT !.at = at].here = r.here
          /\ [r EXCEPT !.reply = reply].here = r.here
          /\ [r EXCEPT !.guard = guard, !.reply = reply].here = r.here
          /\ [r EXCEPT !.at = at, !.reply = reply].here = r.here
        BY <1>0 DEF RunRec
    <2> QED
        BY <1>1, <1>4, <2>1
<1>5. ASSUME NEW r \in runs, NEW state, Show(r, state) PROVE csv' = csv
    BY <1>5 DEF Show
<1>6. ASSUME NEW r \in runs, ReadText(r) \/ Send(r)
      PROVE  csv' = Blank /\ \A q \in runs' : ~q.here
    BY <1>2, <1>4, <1>5, <1>6 DEF ReadText, Send
<1>7. ASSUME NEW r \in runs, ServerUpload(r) \/ ServerEnqueue(r) \/ ServerStatus(r)
      PROVE  csv' = Blank /\ \A q \in runs' : ~q.here
    BY <1>4, <1>7 DEF ServerUpload, ServerEnqueue, ServerStatus
<1>8. ASSUME NEW r \in runs, AnswerUpload(r) \/ CallFails(r)
      PROVE  csv' = Blank /\ \A q \in runs' : ~q.here
    BY <1>2, <1>8 DEF AnswerUpload, CallFails, GiveUp, Done
<1>9. ASSUME NEW r \in runs, Loop(r)
      PROVE  csv' = Blank /\ \A q \in runs' : ~q.here
    BY <1>2, <1>4, <1>9 DEF Loop, GiveUp, Done
<1>10. ASSUME NEW j \in DOMAIN jobs, JobDelivered(j) \/ JobCompletes(j) \/ JobFails(j)
       PROVE  csv' = Blank /\ \A q \in runs' : ~q.here
    BY <1>3, <1>10 DEF JobDelivered, JobCompletes, JobFails
<1>11. ASSUME NEW u \in updates, ServerUpdate(u) \/ AnswerUpdate(u) \/ UpdateFails(u)
       PROVE  csv' = Blank /\ \A q \in runs' : ~q.here
    BY <1>3, <1>11 DEF ServerUpdate, AnswerUpdate, UpdateFails, Settle
<1> QED
    BY <1>6, <1>7, <1>8, <1>9, <1>10, <1>11 DEF CsvBackground, CsvRun

LEMMA CsvLeave ==
    ASSUME CsvSide, NEW to \in Pages, page' = to, page = "/upload" => to # page, LeaveCsv(to),
           UNCHANGED <<started, updated, server_vars, unheard, doubtful, refreshed>>
    PROVE  CsvSide'
<1>1. CASE page = "/upload"
    <2>1. csv' = Blank /\ runs' = Unmounted(runs) /\ updates' = Unmounted(updates)
        BY <1>1 DEF LeaveCsv
    <2> QED
        BY <2>1, CsvLeft DEF CsvSide, CsvMounted
<1>2. CASE page # "/upload"
    <2>1. UNCHANGED csv_vars
        BY <1>2 DEF LeaveCsv, server_vars, csv_vars
    <2>2. CsvInv'
        BY <2>1 DEF CsvSide, CsvInv, CsvTyped, RunsInv, RunOK, OneRunPerPage, ViewsInv, TheViewsAreTold,
                    AgreeInv, Settled, Overlaps, OnTheirWay, csv_vars
    <2> QED
        BY <1>2, <2>1, <2>2 DEF CsvSide, CsvMounted, csv_vars
<1> QED
    BY <1>1, <1>2

LEMMA CsvSideStep ==
    ASSUME CsvSide, [Next]_vars
    PROVE  CsvSide'
<1>0. CsvInv /\ CsvMounted
    BY DEF CsvSide
<1>1. ASSUME UNCHANGED <<csv_vars, page>> PROVE CsvSide'
    BY <1>1 DEF CsvSide, CsvInv, CsvTyped, RunsInv, RunOK, OneRunPerPage, ViewsInv, TheViewsAreTold,
                AgreeInv, Settled, Overlaps, OnTheirWay, CsvMounted, csv_vars
<1>2. ASSUME page = "/upload", CsvUser, UNCHANGED page PROVE CsvSide'
    BY <1>0, <1>2, UserKept DEF CsvSide, CsvMounted
<1>3. ASSUME CsvBackground, UNCHANGED page PROVE CsvSide'
    BY <1>0, <1>3, BackgroundKept, CsvUnseen DEF CsvSide, CsvMounted
<1>4. ASSUME NEW p \in Pages, Visit(p) PROVE CsvSide'
    BY <1>4, CsvLeave DEF Visit
<1>5. ASSUME NEW c \in creates, AnswerCreate(c) PROVE CsvSide'
    BY <1>5, CsvLeave DEF AnswerCreate, Pages
<1>6. CASE UNCHANGED vars
    BY <1>1, <1>6 DEF vars
<1>7. CASE Next
    BY <1>1, <1>2, <1>3, <1>4, <1>5, <1>7, Zenon DEF Next
<1> QED
    BY <1>6, <1>7

LEMMA CsvSideInit == Init => CsvSide
<1> SUFFICES ASSUME Init PROVE CsvSide
    OBVIOUS
<1>1. csv \in CsvRec /\ csv.phase = "idle" /\ csv.results = {}
    BY DEF Init, CsvInit, Blank, CsvRec, Phases, Stages
<1>2. jobs \in [DOMAIN jobs -> JobRec] /\ DOMAIN jobs = {}
    BY DEF Init, CsvInit
<1>3. recorded \in [Files -> 0..started] /\ started = 0 /\ updated = 0 /\ nextId = 1
    BY DEF Init, CsvInit
<1>4. runs = {} /\ updates = {} /\ rows = {} /\ unheard = {}
    BY DEF Init, CsvInit
<1>5. CsvTyped
    BY <1>1, <1>2, <1>3, <1>4, UploadCsvAssumption DEF CsvTyped
<1>6. RunsInv /\ ViewsInv /\ AgreeInv
    BY <1>1, <1>2, <1>4 DEF RunsInv, OneRunPerPage, ViewsInv, TheViewsAreTold, AgreeInv, Settled
<1>7. CsvMounted
    BY <1>4 DEF Init, CsvInit, CsvMounted, Pages
<1> QED
    BY <1>5, <1>6, <1>7 DEF CsvSide, CsvInv

-----------------------------------------------------------------------------
(* What an import merges into the ledger *)

\* keep marks the numbers that new holds of and that repeat none of the marked
\* ones before them.
Marks(keep, n, new, same) ==
    keep = [i \in 1..n |-> new[i] /\ ~\E j \in 1..(i - 1) : keep[j] /\ <<j, i>> \in same]

\* There is such a function: one for a prefix goes on with the next number.
LEMMA MarksExist ==
    ASSUME NEW n \in Nat, NEW new, NEW same
    PROVE  \E keep : Marks(keep, n, new, same)
<1> DEFINE less == StrictSubsetOrdering(1..n)
           none == {m \in 0..n : ~\E keep : Marks(keep, m, new, same)}
           prefixes == {1..m : m \in none}
<1> SUFFICES none = {}
    BY DEF none
<1> SUFFICES ASSUME none # {} PROVE FALSE
    OBVIOUS
<1>1. IsFiniteSet(1..n)
    BY FS_Interval
<1>2. PICK m \in none : \A k \in none : ~(k < m)
    <2>1. IsWellFoundedOn(less, FiniteSubsetsOf(1..n))
        BY <1>1, FS_StrictSubsetOrderingWellFounded
    <2>2. prefixes \subseteq FiniteSubsetsOf(1..n)
        <3>1. \A k \in 0..n : 1..k \subseteq 1..n
            OBVIOUS
        <3> QED
            BY <1>1, <3>1, FS_Subset DEF FiniteSubsetsOf
    <2>3. \A S, T \in SUBSET (1..n) : <<T, S>> \in less <=> T \subseteq S /\ T # S
        BY DEF StrictSubsetOrdering
    <2>4. prefixes # {}
        OBVIOUS
    <2>5. PICK P \in prefixes : \A Q \in prefixes : ~(<<Q, P>> \in less)
        <3> HIDE DEF less, prefixes, none
        <3> QED
            BY <2>1, <2>2, <2>4, WFMin
    <2>6. PICK m \in none : P = 1..m
        OBVIOUS
    <2>7. ASSUME NEW k \in none, k < m PROVE FALSE
        <3>1. k \in 0..n /\ m \in 0..n
            OBVIOUS
        <3>2. 1..k \subseteq 1..m /\ 1..k # 1..m /\ 1..m \subseteq 1..n
            BY <2>7, <3>1
        <3>3. 1..k \in prefixes
            BY <2>7
        <3>4. 1..k \in SUBSET (1..n) /\ P \in SUBSET (1..n)
            BY <2>6, <3>2
        <3> HIDE DEF less, prefixes, none
        <3>5. <<1..k, P>> \in less
            BY <2>3, <2>6, <3>2, <3>4, Zenon
        <3> QED
            BY <2>5, <3>3, <3>5
    <2> QED
        BY <2>7
<1>3. m \in 1..n
    <2>1. Marks([i \in 1..0 |-> TRUE], 0, new, same)
        BY DEF Marks
    <2> QED
        BY <1>2, <2>1
<1>4. PICK h : Marks(h, m - 1, new, same)
    BY <1>2, <1>3
<1> DEFINE last == new[m] /\ ~\E j \in 1..(m - 1) : h[j] /\ <<j, m>> \in same
           g == [i \in 1..m |-> IF i = m THEN last ELSE h[i]]
<1>5. \A j \in 1..(m - 1) : g[j] = h[j]
    BY <1>3
<1>6. ASSUME NEW i \in 1..m
      PROVE  g[i] = (new[i] /\ ~\E j \in 1..(i - 1) : g[j] /\ <<j, i>> \in same)
    <2>1. \A j \in 1..(i - 1) : g[j] = h[j]
        BY <1>3, <1>5
    <2>2. CASE i = m
        BY <2>1, <2>2
    <2>3. CASE i # m
        <3>1. i \in 1..(m - 1) /\ g[i] = h[i]
            BY <1>3, <2>3
        <3>2. h[i] = (new[i] /\ ~\E j \in 1..(i - 1) : h[j] /\ <<j, i>> \in same)
            BY <1>4, <3>1 DEF Marks
        <3> HIDE DEF g
        <3> QED
            BY <2>1, <3>1, <3>2
    <2> QED
        BY <2>2, <2>3
<1>7. Marks(g, m, new, same)
    <2>1. DOMAIN g = 1..m /\ g = [i \in 1..m |-> g[i]]
        OBVIOUS
    <2> HIDE DEF g
    <2> QED
        BY <1>6, <2>1 DEF Marks
<1> QED
    BY <1>2, <1>7

\* What SamePurchase compares of a row.
Bought(r) == [date |-> r.date, description |-> r.description, amount |-> r.amount]

LEMMA SameOfBought ==
    ASSUME NEW a, NEW b, NEW x, NEW y, Bought(a) = Bought(x), Bought(b) = Bought(y)
    PROVE  SamePurchase(a, b, 1) <=> SamePurchase(x, y, 1)
<1>1. /\ a.date = x.date /\ a.description = x.description /\ a.amount = x.amount
      /\ b.date = y.date /\ b.description = y.description /\ b.amount = y.amount
    BY DEF Bought
<1> QED
    BY <1>1 DEF SamePurchase, Fingerprint

LEMMA SameIsMutual ==
    ASSUME NEW a, NEW b, a.date \in Nat, b.date \in Nat
    PROVE  /\ SamePurchase(a, a, 1)
           /\ SamePurchase(a, b, 1) => SamePurchase(b, a, 1)
<1>1. DaysApart(a.date, a.date) = 0 /\ DaysApart(a.date, b.date) = DaysApart(b.date, a.date)
    BY DEF DaysApart
<1> QED
    BY <1>1 DEF SamePurchase

\* A row with what Spread gives it has the fields it came with.
LEMMA SpreadBought ==
    ASSUME NEW a, NEW b, {"date", "description", "amount"} \subseteq DOMAIN a
    PROVE  Bought(Spread(a, b)) = Bought(a)
<1> DEFINE s == Spread(a, b)
<1>1. \A f \in DOMAIN a : s[f] = a[f]
    BY DEF Spread
<1>2. s.date = a.date /\ s.description = a.description /\ s.amount = a.amount
    BY <1>1
<1> HIDE DEF s
<1>3. Bought(s) = Bought(a)
    BY <1>2 DEF Bought
<1> QED
    BY <1>3 DEF s

\* all comes of kept by an import of file: no row was dropped; none that was added
\* is the same purchase as a row that was kept or as another one added; and each
\* row of the file is the same purchase as a row that is there now.
Merges(kept, file, all) ==
    /\ kept \subseteq all
    /\ \A x \in all \ kept : /\ \E i \in DOMAIN file : Bought(x) = Bought(file[i])
                            /\ ~\E r \in kept : SamePurchase(r, x, 1)
    /\ \A x, y \in all \ kept : SamePurchase(x, y, 1) => x = y
    /\ \A i \in DOMAIN file : \E r \in all : SamePurchase(r, file[i], 1)

\* The import of the ledger in the browser merges, for every ledger and every file
\* (mock/data.ts, uploadCsv). It says nothing of the server's import, which commits
\* in several steps: see Import.tla.
THEOREM ImportMerges ==
    ASSUME NEW kept, NEW file, NEW n \in Nat, NEW id, DOMAIN file = 1..n,
           \A i \in 1..n : /\ {"date", "description", "amount"} \subseteq DOMAIN file[i]
                          /\ file[i].date \in Nat
    PROVE  Merges(kept, file, Imported(kept, file, id).rows)
<1> DEFINE keep[i \in DOMAIN file] ==
              /\ ~\E r \in kept : SamePurchase(r, file[i], 1)
              /\ ~\E j \in 1..(i - 1) : keep[j] /\ SamePurchase(file[j], file[i], 1)
           row(i) == Spread(file[i], [id |-> id + Cardinality({j \in 1..(i - 1) : keep[j]}),
                        category |-> SuggestCategory(file[i].description, file[i].amount)])
           D == {i \in DOMAIN file : keep[i]}
<1>1. Imported(kept, file, id) = [rows |-> kept \union {row(i) : i \in D},
                                  next |-> id + Cardinality(D)]
    BY DEF Imported
<1>2. \A i \in 1..n : keep[i] <=> /\ ~\E r \in kept : SamePurchase(r, file[i], 1)
                                 /\ ~\E j \in 1..(i - 1) :
                                       keep[j] /\ SamePurchase(file[j], file[i], 1)
    <2> DEFINE new == [i \in 1..n |-> ~\E r \in kept : SamePurchase(r, file[i], 1)]
               same == {p \in (1..n) \X (1..n) : SamePurchase(file[p[1]], file[p[2]], 1)}
    <2>1. PICK h : Marks(h, n, new, same)
        BY MarksExist
    <2>2. \A i \in 1..n : \A j \in 1..(i - 1) : <<j, i>> \in same <=> SamePurchase(file[j], file[i], 1)
        OBVIOUS
    <2>3. h = [i \in DOMAIN file |->
                 /\ ~\E r \in kept : SamePurchase(r, file[i], 1)
                 /\ ~\E j \in 1..(i - 1) : h[j] /\ SamePurchase(file[j], file[i], 1)]
        <3> HIDE DEF same
        <3> QED
            BY <2>1, <2>2 DEF Marks
    <2>4. keep = [i \in DOMAIN file |->
                 /\ ~\E r \in kept : SamePurchase(r, file[i], 1)
                 /\ ~\E j \in 1..(i - 1) : keep[j] /\ SamePurchase(file[j], file[i], 1)]
        BY <2>3, Zenon
    <2> HIDE DEF keep
    <2> QED
        BY <2>4
<1> HIDE DEF keep
<1>3. \A i \in 1..n : Bought(row(i)) = Bought(file[i])
    BY SpreadBought
<1> DEFINE fresh == {row(i) : i \in D}
<1>4. Imported(kept, file, id).rows = kept \union fresh
    BY <1>1
<1>5. D \subseteq 1..n
    OBVIOUS
<1> HIDE DEF row
<1>6. ASSUME NEW i \in D
      PROVE  ~\E r \in kept : SamePurchase(r, row(i), 1)
    <2>1. \A r : SamePurchase(r, row(i), 1) <=> SamePurchase(r, file[i], 1)
        BY <1>3, SameOfBought
    <2> QED
        BY <1>2, <2>1
<1>7. ASSUME NEW i \in D, NEW j \in D, SamePurchase(row(i), row(j), 1)
      PROVE  i = j
    <2>1. SamePurchase(file[i], file[j], 1)
        BY <1>3, <1>7, SameOfBought
    <2>2. SamePurchase(file[j], file[i], 1)
        BY <2>1, SameIsMutual
    <2>3. i \in 1..n /\ j \in 1..n /\ keep[i] /\ keep[j]
        OBVIOUS
    <2>4. ~(i \in 1..(j - 1)) /\ ~(j \in 1..(i - 1))
        BY <1>2, <2>1, <2>2, <2>3
    <2> QED
        BY <2>3, <2>4
<1>8. ASSUME NEW i \in 1..n
      PROVE  \E r \in kept \union fresh : SamePurchase(r, file[i], 1)
    <2>1. CASE i \in D
        <3>1. SamePurchase(row(i), file[i], 1)
            BY <1>3, SameIsMutual, SameOfBought
        <3> QED
            BY <2>1, <3>1
    <2>2. CASE i \notin D
        <3>1. CASE \E r \in kept : SamePurchase(r, file[i], 1)
            BY <3>1
        <3>2. CASE ~\E r \in kept : SamePurchase(r, file[i], 1)
            <4>1. PICK j \in 1..(i - 1) : keep[j] /\ SamePurchase(file[j], file[i], 1)
                BY <1>2, <2>2, <3>2
            <4>2. j \in D /\ j \in 1..n
                BY <4>1
            <4>3. SamePurchase(row(j), file[i], 1)
                BY <1>3, <4>1, <4>2, SameOfBought
            <4> QED
                BY <4>2, <4>3
        <3> QED
            BY <3>1, <3>2
    <2> QED
        BY <2>1, <2>2
<1>9. \A x \in (kept \union fresh) \ kept : \E i \in D : x = row(i)
    OBVIOUS
<1> HIDE DEF fresh, D
<1> QED
    BY <1>3, <1>4, <1>5, <1>6, <1>7, <1>8, <1>9 DEF Merges

-----------------------------------------------------------------------------
(* The theorems *)

\* The invariant of the receipt page.
THEOREM PdfSideInvariance == Spec => []PdfSide
<1>1. Init => PdfSide
    BY UploadPdfAssumption
       DEF Init, PdfInit, PdfSide, PdfInv, PdfMounted, PdfTypeOK, ReadsInv, CreatesInv, ReviewInv,
           PreviewedOnce, ReceiptSavedOnce, BlankPdf, NoData, Data, Pages
<1> QED
    BY <1>1, PdfSideStep, PTL DEF Spec

\* A receipt is stored once, however its confirmation is clicked, cancelled or
\* left, unless one of its answers did not come (UploadPdf.tsx).
THEOREM SavedOnceHolds == Spec => []ReceiptSavedOnce
<1>1. PdfSide => ReceiptSavedOnce
    BY DEF PdfSide, PdfInv, CreatesInv
<1> QED
    BY <1>1, PdfSideInvariance, PTL

\* A receipt on record is being read, was previewed, or was missed, and only one
\* of these, unless two of its readings overlapped (services.process_pdf).
THEOREM PreviewedOnceHolds == Spec => []PreviewedOnce
<1>1. PdfSide => PreviewedOnce
    BY DEF PdfSide, PdfInv, ReadsInv
<1> QED
    BY <1>1, PdfSideInvariance, PTL

\* The invariant of the statement page.
THEOREM CsvSideInvariance == Spec => []CsvSide
BY CsvSideInit, CsvSideStep, PTL DEF Spec

\* The variables keep their types, and only the page that is mounted holds any
\* state (App.tsx, UploadCsv.tsx, UploadPdf.tsx).
THEOREM UploadsTypeCorrect == Spec => []TypeOK
<1>1. CsvSide => CsvTypeOK
    <2> SUFFICES ASSUME CsvTyped, RunsInv PROVE CsvTypeOK
        BY DEF CsvSide, CsvInv
    <2>1. /\ csv.phase \in Phases /\ csv.stage \in Stages /\ csv.asyncMode \in BOOLEAN
          /\ csv.count \in Nat /\ {csv.dup, csv.lastFile} \subseteq Files \union {NoFile}
          /\ \A x \in csv.results : x.id < nextId /\ x.category \in Categories
        BY DEF CsvTyped, CsvRec, Result
    <2>2. \A r \in runs :
             /\ r.id \in 1..started /\ r.file \in Files /\ r.force \in Forces
             /\ r.guard \in 0..MaxPolls
             /\ r.at \in {"reading", "parsing", "uploading", "enqueue", "polling"}
        BY UploadCsvAssumption DEF CsvTyped, RunsInv, RunOK, RunRec
    <2>3. \A j \in DOMAIN jobs : j \in 1..started /\ jobs[j].tries \in 0..MaxReceive
        BY DEF CsvTyped, JobRec
    <2>4. \A row \in rows : row.id < nextId /\ row.category \in Categories
        BY DEF CsvTyped, RowRec
    <2>5. /\ started \in 0..MaxRuns /\ updated \in 0..MaxUpdates
          /\ recorded \in [Files -> 0..started] /\ unheard \subseteq 1..started
        BY DEF CsvTyped
    <2> QED
        BY <2>1, <2>2, <2>3, <2>4, <2>5 DEF CsvTypeOK
<1>2. CsvSide /\ PdfSide => TypeOK
    BY <1>1 DEF CsvSide, PdfSide, PdfInv, CsvMounted, PdfMounted, TypeOK
<1> QED
    BY <1>2, CsvSideInvariance, PdfSideInvariance, PTL

\* One run at a time belongs to the page, and the duplicate card is about the
\* file it offers to append or replace (UploadCsv.tsx, run and runAsync).
THEOREM OneRunHolds == Spec => []OneRunPerPage
<1>1. CsvSide => OneRunPerPage
    BY DEF CsvSide, CsvInv, RunsInv
<1> QED
    BY <1>1, CsvSideInvariance, PTL

\* Every stored row and every saved receipt gets to the views, unless its answer
\* was lost or its job given up (useApi.ts, invalidateData).
THEOREM ToldHolds == Spec => []EverythingIsTold
<1>1. CsvSide /\ PdfSide => EverythingIsTold
    BY DEF CsvSide, CsvInv, ViewsInv, PdfSide, PdfInv, CreatesInv, EverythingIsTold
<1> QED
    BY <1>1, CsvSideInvariance, PdfSideInvariance, PTL

\* The categories shown in the results are those of the ledger, unless an update
\* is under way, failed, or overlapped with another (UploadCsv.tsx, onRecategorize).
THEOREM ResultsAgreeHolds == Spec => []ResultsAgree
<1>1. CsvSide => ResultsAgree
    <2> SUFFICES ASSUME CsvTyped, AgreeInv, NEW x \in csv.results, NEW row \in rows,
                        x.id = row.id, x.id \notin doubtful, ~Overlaps(x.id)
                 PROVE  x.category = row.category
        BY DEF CsvSide, CsvInv, ResultsAgree
    <2>1. x.id \in 0..(nextId - 1)
        BY DEF CsvTyped, CsvRec, Result
    <2>2. Settled(x.id)
        BY <2>1 DEF AgreeInv
    <2> QED
        BY <2>2 DEF Settled
<1> QED
    BY <1>1, CsvSideInvariance, PTL
=============================================================================
