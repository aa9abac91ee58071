------------------------------ MODULE UploadPdf ------------------------------
\* The receipt page (frontend/src/pages/UploadPdf.tsx) with the part of the
\* server it talks to: a receipt is put on record before it is read
\* (services.process_pdf), its preview is edited and confirmed, and the answer of
\* the confirmation leads home from wherever the user is by then.
EXTENDS Naturals, FiniteSets

CONSTANTS
    Receipts,
    Readable,    \* those whose name or type the page accepts
    MaxReads,    \* bound: receipts sent to be read
    MaxCreates   \* bound: confirmations

ASSUME UploadPdfAssumption ==
    /\ Readable \subseteq Receipts
    /\ MaxReads \in Nat /\ MaxCreates \in Nat

VARIABLES
    pdf,        \* the state of the page
    reads,      \* the calls of run that have not returned
    creates,    \* the confirmations that have not been answered
    sent,       \* how many reads there were
    confirmed,  \* how many confirmations
    \* the server
    onRecord,   \* the receipts recorded as uploaded files
    saved,      \* the transactions stored of receipts
    \* history
    overlapped, \* receipts two readings of which were checked before either was recorded
    previewed,  \* receipts whose preview reached the page
    missed,     \* receipts whose reading failed, or was not waited for
    lostSaves,  \* receipts one of whose confirmations was not answered well
    told        \* the transactions when the views were last invalidated

pdf_vars == <<pdf, reads, creates, sent, confirmed, onRecord, saved,
              overlapped, previewed, missed, lostSaves, told>>

NoData == [receipt |-> "none", edited |-> FALSE]
BlankPdf == [phase |-> "idle", data |-> NoData]

PdfInit ==
    /\ pdf = BlankPdf /\ reads = {} /\ creates = {} /\ sent = 0 /\ confirmed = 0
    /\ onRecord = {} /\ saved = {}
    /\ overlapped = {} /\ previewed = {} /\ missed = {} /\ lostSaves = {} /\ told = {}

\* create.isPending: the last mutation of this mount of the page.
IsPending == \E c \in creates : c.here

PickReceipt(f) ==
    /\ pdf.phase = "idle"
    /\ \/ /\ f \notin Readable
          /\ pdf' = [pdf EXCEPT !.phase = "error"]
          /\ UNCHANGED <<reads, sent>>
       \/ /\ f \in Readable /\ sent < MaxReads
          /\ sent' = sent + 1
          /\ pdf' = [pdf EXCEPT !.phase = "reading"]
          /\ reads' = reads \union {[n |-> sent + 1, receipt |-> f, state |-> "sent", here |-> TRUE]}
    /\ UNCHANGED <<creates, confirmed, onRecord, saved, overlapped, previewed, missed, lostSaves, told>>

At(r, state) == reads' = (reads \ {r}) \union {[r EXCEPT !.state = state]}

\* Mutant: the content hash is not looked up.
ServerCheckNothing(r) ==
    /\ r.state = "sent"
    /\ At(r, "checked")
    /\ UNCHANGED <<pdf, creates, sent, confirmed, onRecord, saved, overlapped,
                   previewed, missed, lostSaves, told>>

\* check_file, save_uploaded_file and the extraction, in one handler that nothing
\* keeps from running beside another.
ServerCheck(r) ==
    /\ r.state = "sent"
    /\ At(r, IF r.receipt \in onRecord THEN "refused" ELSE "checked")
    /\ overlapped' = overlapped \union
          {q.receipt : q \in {p \in reads : p.receipt = r.receipt /\ p.state = "checked"}}
    /\ UNCHANGED <<pdf, creates, sent, confirmed, onRecord, saved,
                   previewed, missed, lostSaves, told>>

ServerRecord(r) ==
    /\ r.state = "checked"
    /\ At(r, "recorded")
    /\ onRecord' = onRecord \union {r.receipt}
    /\ UNCHANGED <<pdf, creates, sent, confirmed, saved, overlapped,
                   previewed, missed, lostSaves, told>>

ServerExtract(r) ==
    /\ r.state = "recorded"
    /\ At(r, "extracted")
    /\ UNCHANGED <<pdf, creates, sent, confirmed, onRecord, saved, overlapped,
                   previewed, missed, lostSaves, told>>

AnswerRead(r) ==
    /\ r.state = "extracted"
    /\ reads' = reads \ {r}
    /\ IF r.here
       THEN /\ pdf' = [phase |-> "review", data |-> [receipt |-> r.receipt, edited |-> FALSE]]
            /\ previewed' = previewed \union {r.receipt}
            /\ UNCHANGED missed
       ELSE /\ missed' = missed \union {r.receipt}
            /\ UNCHANGED <<pdf, previewed>>
    /\ UNCHANGED <<creates, sent, confirmed, onRecord, saved, overlapped, lostSaves, told>>

\* A refusal, or an extraction that fails after the record was made.
ReadFails(r) ==
    /\ r.state \in {"refused", "recorded"}
    /\ reads' = reads \ {r}
    /\ pdf' = IF r.here THEN [pdf EXCEPT !.phase = "error"] ELSE pdf
    /\ missed' = IF r.state = "recorded" THEN missed \union {r.receipt} ELSE missed
    /\ UNCHANGED <<creates, sent, confirmed, onRecord, saved, overlapped, previewed,
                   lostSaves, told>>

\* The connection breaks: the server goes on, or never got the file.
ReadBreaks(r) ==
    /\ r.here
    /\ reads' = (reads \ {r}) \union {[r EXCEPT !.here = FALSE]}
    /\ pdf' = [pdf EXCEPT !.phase = "error"]
    /\ UNCHANGED <<creates, sent, confirmed, onRecord, saved, overlapped, previewed,
                   missed, lostSaves, told>>

\* The fields of the review.
EditReceipt ==
    /\ pdf.phase = "review"
    /\ pdf' = [pdf EXCEPT !.data.edited = TRUE]
    /\ UNCHANGED <<reads, creates, sent, confirmed, onRecord, saved,
                   overlapped, previewed, missed, lostSaves, told>>

\* Mutant: the button is not disabled while the confirmation is pending.
ConfirmAgain ==
    /\ pdf.phase = "review" /\ confirmed < MaxCreates
    /\ confirmed' = confirmed + 1
    /\ creates' = creates \union
          {[n |-> confirmed + 1, data |-> pdf.data, state |-> "sent", here |-> TRUE]}
    /\ UNCHANGED <<pdf, reads, sent, onRecord, saved, overlapped, previewed, missed, lostSaves, told>>

Confirm ==
    /\ pdf.phase = "review" /\ ~IsPending
    /\ confirmed < MaxCreates
    /\ confirmed' = confirmed + 1
    /\ creates' = creates \union
          {[n |-> confirmed + 1, data |-> pdf.data, state |-> "sent", here |-> TRUE]}
    /\ UNCHANGED <<pdf, reads, sent, onRecord, saved, overlapped, previewed, missed, lostSaves, told>>

\* Cancel in the review, Retry after an error: the data stay, unseen.
BackToIdle ==
    /\ pdf.phase \in {"review", "error"}
    /\ pdf' = [pdf EXCEPT !.phase = "idle"]
    /\ UNCHANGED <<reads, creates, sent, confirmed, onRecord, saved,
                   overlapped, previewed, missed, lostSaves, told>>

\* POST /transaction?confirm=true: no duplicate check.
ServerCreate(c) ==
    /\ c.state = "sent"
    /\ saved' = saved \union {[n |-> c.n, data |-> c.data]}
    /\ creates' = (creates \ {c}) \union {[c EXCEPT !.state = "saved"]}
    /\ UNCHANGED <<pdf, reads, sent, confirmed, onRecord, overlapped, previewed, missed, lostSaves, told>>

\* Leaving the page unmounts it; its calls go on.
Unmounted(S) == {[x EXCEPT !.here = FALSE] : x \in S}

\* Without the navigation to the dashboard, which follows.
CreateAnswered(c) ==
    /\ c.state = "saved"
    /\ told' = saved
    /\ UNCHANGED <<sent, confirmed, onRecord, saved, overlapped, previewed, missed, lostSaves>>

CreateFails(c) ==
    /\ creates' = creates \ {c}
    /\ lostSaves' = lostSaves \union {c.data.receipt}
    /\ UNCHANGED <<pdf, reads, sent, confirmed, onRecord, saved, overlapped, previewed, missed, told>>

PdfUser == (\E f \in Receipts : PickReceipt(f)) \/ EditReceipt \/ Confirm \/ BackToIdle

PdfBackground ==
    \/ \E r \in reads : \/ ServerCheck(r) \/ ServerRecord(r) \/ ServerExtract(r)
                        \/ AnswerRead(r) \/ ReadFails(r) \/ ReadBreaks(r)
    \/ \E c \in creates : ServerCreate(c) \/ CreateFails(c)

-----------------------------------------------------------------------------
(* Properties *)

Data == [receipt : Receipts \union {"none"}, edited : BOOLEAN]

PdfTypeOK ==
    /\ pdf \in [phase : {"idle", "reading", "review", "error"}, data : Data]
    /\ reads \subseteq [n : 1..MaxReads, receipt : Readable, here : BOOLEAN,
                        state : {"sent", "checked", "recorded", "refused", "extracted"}]
    /\ creates \subseteq [n : 1..MaxCreates, data : Data, state : {"sent", "saved"},
                          here : BOOLEAN]
    /\ sent \in 0..MaxReads /\ confirmed \in 0..MaxCreates
    /\ onRecord \union overlapped \union previewed \union missed \union lostSaves \subseteq Receipts
    /\ saved \subseteq [n : 1..MaxCreates, data : Data] /\ told \subseteq saved

\* A receipt is stored once however often its confirmation is clicked, cancelled
\* or left, unless one of its answers did not come: the confirmed save has no
\* duplicate check.
ReceiptSavedOnce ==
    \A s, q \in saved :
        s.data.receipt = q.data.receipt /\ s # q => s.data.receipt \in lostSaves

\* The file of a receipt is recorded before it is read: whoever misses its
\* preview, by a failure or by leaving the page, is refused from then on.  Unless
\* two readings overlapped, a receipt on record is being read, or was previewed,
\* or was missed, and only one of these.
PreviewedOnce ==
    \A f \in onRecord \ overlapped :
        LET reading == \E r \in reads : r.receipt = f /\ r.state \in {"recorded", "extracted"}
        IN  /\ reading \/ f \in previewed \union missed
            /\ reading => f \notin previewed \union missed
            /\ f \notin previewed \intersect missed
=============================================================================
