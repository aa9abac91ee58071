------------------------------- MODULE Uploads -------------------------------
\* The two upload pages under the router (frontend/src/App.tsx): one page is
\* mounted at a time, leaving it drops its state and leaves its calls running,
\* and a confirmed receipt navigates home whatever page is there by then.
EXTENDS UploadCsv, UploadPdf

CONSTANT MaxCalls   \* bound: calls of all kinds in a behaviour

ASSUME UploadsAssumption == MaxCalls \in Nat

VARIABLE page

vars == <<csv_vars, pdf_vars, page>>

Pages == {"/", "/upload", "/receipt"}

Init == CsvInit /\ PdfInit /\ page = "/"

\* Mutant: the page is hidden and not unmounted.
LeaveCsvMounted(to) == UNCHANGED <<csv, runs, updates>>

\* What the change of the page does to the one that was mounted.
LeaveCsv(to) ==
    IF page = "/upload" /\ to # page
    THEN /\ csv' = Blank /\ runs' = Unmounted(runs) /\ updates' = Unmounted(updates)
    ELSE UNCHANGED <<csv, runs, updates>>

LeavePdf(to, others) ==
    IF page = "/receipt" /\ to # page
    THEN /\ pdf' = BlankPdf /\ reads' = Unmounted(reads) /\ creates' = Unmounted(others)
    ELSE /\ creates' = others
         /\ UNCHANGED <<pdf, reads>>

\* A link, a shortcut or a command.
Visit(to) ==
    /\ page # to /\ page' = to
    /\ LeaveCsv(to) /\ LeavePdf(to, creates)
    /\ UNCHANGED <<started, updated, server_vars, unheard, doubtful, refreshed,
                   sent, confirmed, onRecord, saved, overlapped, previewed, missed,
                   lostSaves, told>>

\* onConfirm after its await: the toast, then navigate("/").
AnswerCreate(c) ==
    /\ CreateAnswered(c)
    /\ page' = "/"
    /\ LeaveCsv("/") /\ LeavePdf("/", creates \ {c})
    /\ UNCHANGED <<started, updated, server_vars, unheard, doubtful, refreshed>>

Bounded == started + updated + sent + confirmed < MaxCalls

Next ==
    \/ \E p \in Pages : Visit(p)
    \/ page = "/upload" /\ Bounded /\ CsvUser /\ UNCHANGED <<pdf_vars, page>>
    \/ CsvBackground /\ UNCHANGED <<pdf_vars, page>>
    \/ page = "/receipt" /\ Bounded /\ PdfUser /\ UNCHANGED <<csv_vars, page>>
    \/ PdfBackground /\ UNCHANGED <<csv_vars, page>>
    \/ \E c \in creates : AnswerCreate(c)

Spec == Init /\ [][Next]_vars

-----------------------------------------------------------------------------
(* Properties *)

\* The variables of the two pages and of the server keep their types, and only
\* the page that is mounted holds any state.
TypeOK ==
    /\ CsvTypeOK /\ PdfTypeOK
    /\ page \in Pages
    /\ page # "/upload" => csv = Blank /\ \A r \in runs : ~r.here
    /\ page # "/receipt" => pdf = BlankPdf /\ \A r \in reads : ~r.here

\* The same for the transactions saved of receipts.
EverythingIsTold ==
    /\ TheViewsAreTold
    /\ \A s \in saved : \/ s \in told
                        \/ s.data.receipt \in lostSaves
                        \/ \E c \in creates : c.n = s.n /\ c.state = "saved"
=============================================================================
