------------------------------- MODULE Import -------------------------------
(***************************************************************************)
(* The statement import, services.process_csv, as it runs in the API tasks *)
(* and the workers: every store method is one committed transaction, and   *)
(* the calls of one user interleave between them.                          *)
(*                                                                         *)
(* A call is one execution of process_csv.  Every query is scoped by       *)
(* user_id, so one user's calls are the whole story.  The row a call c     *)
(* stores for row k of its file is the pair <<c, k>>, and the record it    *)
(* saves in uploaded_files is c itself.  The classification of the rows    *)
(* (guard, catalog, Bedrock) touches neither table: it is the time between *)
(* the last dedup query and SaveFile.                                      *)
(***************************************************************************)
EXTENDS Dedup

CONSTANTS Calls,    \* executions of process_csv
          Files,    \* file contents; equal contents have equal hashes
          RowsOf,   \* the parsed rows of each file
          None      \* no file, no call

Row == [amount : Int, words : Seq(STRING), date : Date]

ASSUME RowsAssumption == RowsOf \in [Files -> Seq(Row)]
ASSUME NoneAssumption == None \notin Files \cup Calls

VARIABLES
    pc,        \* where each call stands
    file,      \* the content it was given
    force,     \* its ?force= parameter; "skip" acts as "none"
    latest,    \* the record check_file found, to be replaced
    idx,       \* the row partition_transactions looks at next
    kept,      \* new_rows: the rows found to be new
    todo,      \* those of them not yet saved
    uploads,   \* uploaded_files, in order of insertion
    txns,      \* transactions imported from a file
    before,    \* history: the calls that had ended when this one began
    ever       \* history: every transaction ever stored

callVars  == <<pc, file, force, latest, idx, kept, todo>>
storeVars == <<uploads, txns>>
histVars  == <<before, ever>>
vars      == <<callVars, storeVars, histVars>>

Forces  == {"none", "append", "replace"}
Active == {"check", "delete", "partition", "add"}
Ended  == {"done", "duplicate", "failed"}

Recorded(c) == \E i \in DOMAIN uploads : uploads[i] = c
RowAt(c, k) == RowsOf[file[c]][k]
RowOf(t)    == RowAt(t[1], t[2])
RowNos(c)   == 1 .. Len(RowsOf[file[c]])

-----------------------------------------------------------------------------
Init ==
    /\ pc = [c \in Calls |-> "idle"]
    /\ file = [c \in Calls |-> None]
    /\ force = [c \in Calls |-> "none"]
    /\ latest = [c \in Calls |-> None]
    /\ idx = [c \in Calls |-> 1]
    /\ kept = [c \in Calls |-> {}]
    /\ todo = [c \in Calls |-> {}]
    /\ uploads = <<>>
    /\ txns = {}
    /\ before = [c \in Calls |-> {}]
    /\ ever = {}

\* The call returns or dies: its local variables go with it.
End(c, how) ==
    /\ pc' = [pc EXCEPT ![c] = how]
    /\ latest' = [latest EXCEPT ![c] = None]
    /\ idx' = [idx EXCEPT ![c] = 1]
    /\ kept' = [kept EXCEPT ![c] = {}]
    /\ todo' = [todo EXCEPT ![c] = {}]
    /\ UNCHANGED <<file, force>>

Begin(c, f, fo) ==
    /\ pc[c] = "idle"
    /\ pc' = [pc EXCEPT ![c] = "check"]
    /\ file' = [file EXCEPT ![c] = f]
    /\ force' = [force EXCEPT ![c] = fo]
    /\ before' = [before EXCEPT ![c] = {d \in Calls : pc[d] \in Ended}]
    /\ UNCHANGED <<latest, idx, kept, todo, storeVars, ever>>

\* find_uploaded_file: the positions of the records of f; the newest counts.
RecordsOf(f) == {i \in DOMAIN uploads : file[uploads[i]] = f}

\* check_file.  A known content ends the call unless append or replace is forced.
Proceed(c, where) ==
    /\ pc' = [pc EXCEPT ![c] = where]
    /\ UNCHANGED <<file, force, idx, kept, todo>>

\* Mutant: a known content does not end an unforced call.
CheckFileNoHash(c) ==
    /\ pc[c] = "check"
    /\ Proceed(c, "partition")
    /\ UNCHANGED <<latest, storeVars, histVars>>

CheckFile(c) ==
    /\ pc[c] = "check"
    /\ LET records == RecordsOf(file[c])
       IN  \/ /\ records = {} \/ force[c] = "append"
              /\ Proceed(c, "partition")
              /\ UNCHANGED latest
           \/ /\ records # {} /\ force[c] = "none"
              /\ End(c, "duplicate")
           \/ /\ records # {} /\ force[c] = "replace"
              /\ \E i \in records :
                    /\ \A j \in records : j <= i
                    /\ latest' = [latest EXCEPT ![c] = uploads[i]]
              /\ Proceed(c, "delete")
    /\ UNCHANGED <<storeVars, histVars>>

\* delete_transactions_by_file of the record found.
DeleteByFile(c) ==
    /\ pc[c] = "delete"
    /\ txns' = {t \in txns : t[1] # latest[c]}
    /\ Proceed(c, "partition")
    /\ UNCHANGED <<latest, uploads, histVars>>

\* Mutants: the rows of the same file, the dates are forgotten.
DuplicateInFile(c, k) == \E j \in kept[c] : Same(RowAt(c, j), RowAt(c, k))
DuplicateAnyDate(c, k) ==
    LET fp(row) == TransactionFingerprint(row)
    IN  \/ \E j \in kept[c] : fp(RowAt(c, j)) = fp(RowAt(c, k))
        \/ \E t \in txns : fp(RowOf(t)) = fp(RowAt(c, k))

\* One round of the loop of partition_transactions, with its own query.
Duplicate(c, k) ==
    \/ \E j \in kept[c] : Same(RowAt(c, j), RowAt(c, k))
    \/ \E t \in txns : Same(RowOf(t), RowAt(c, k))

PartitionRow(c) ==
    /\ pc[c] = "partition"
    /\ idx[c] \in RowNos(c)
    /\ kept' = [kept EXCEPT ![c] = IF Duplicate(c, idx[c]) THEN @ ELSE @ \cup {idx[c]}]
    /\ idx' = [idx EXCEPT ![c] = @ + 1]
    /\ UNCHANGED <<pc, file, force, latest, todo, storeVars, histVars>>

\* Mutant: no record is saved.
SaveNoFile(c) ==
    /\ pc[c] = "partition"
    /\ idx[c] \notin RowNos(c)
    /\ todo' = [todo EXCEPT ![c] = kept[c]]
    /\ pc' = [pc EXCEPT ![c] = "add"]
    /\ UNCHANGED <<file, force, latest, idx, kept, uploads, txns, histVars>>

\* save_uploaded_file, before the first row is saved.
SaveFile(c) ==
    /\ pc[c] = "partition"
    /\ idx[c] \notin RowNos(c)
    /\ uploads' = Append(uploads, c)
    /\ todo' = [todo EXCEPT ![c] = kept[c]]
    /\ pc' = [pc EXCEPT ![c] = "add"]
    /\ UNCHANGED <<file, force, latest, idx, kept, txns, histVars>>

\* add_transaction, row by row in the order of the file.
AddRow(c) ==
    /\ pc[c] = "add"
    /\ \E k \in todo[c] :
          /\ \A j \in todo[c] : k <= j
          /\ txns' = txns \cup {<<c, k>>}
          /\ ever' = ever \cup {<<c, k>>}
          /\ todo' = [todo EXCEPT ![c] = @ \ {k}]
    /\ UNCHANGED <<pc, file, force, latest, idx, kept, uploads, before>>

Finish(c) ==
    /\ pc[c] = "add"
    /\ todo[c] = {}
    /\ End(c, "done")
    /\ UNCHANGED <<storeVars, histVars>>

\* An exception of the store, or the death of the process, between two steps.
Fail(c) ==
    /\ pc[c] \in Active
    /\ End(c, "failed")
    /\ UNCHANGED <<storeVars, histVars>>

\* DELETE /transaction/{id}
DeleteTransaction(t) ==
    /\ t \in txns
    /\ txns' = txns \ {t}
    /\ UNCHANGED <<callVars, uploads, histVars>>

\* DELETE /transactions: the rows go, the records of the files stay.
ClearTransactions ==
    /\ txns # {}
    /\ txns' = {}
    /\ UNCHANGED <<callVars, uploads, histVars>>

Step(c) ==
    \/ CheckFile(c)
    \/ DeleteByFile(c)
    \/ PartitionRow(c)
    \/ SaveFile(c)
    \/ AddRow(c)
    \/ Finish(c)

Next ==
    \/ \E c \in Calls, f \in Files, fo \in Forces : Begin(c, f, fo)
    \/ \E c \in Calls : Step(c) \/ Fail(c)
    \/ \E t \in txns : DeleteTransaction(t)
    \/ ClearTransactions

Spec == Init /\ [][Next]_vars
-----------------------------------------------------------------------------
\* The types of the variables of process_csv and of its two tables.
TypeOK ==
    /\ pc \in [Calls -> {"idle"} \cup Active \cup Ended]
    /\ file \in [Calls -> Files \cup {None}]
    /\ \A c \in Calls : pc[c] # "idle" => file[c] \in Files
    /\ force \in [Calls -> Forces]
    /\ latest \in [Calls -> Calls \cup {None}]
    /\ idx \in [Calls -> Nat \ {0}]
    /\ kept \in [Calls -> SUBSET Nat]
    /\ todo \in [Calls -> SUBSET Nat]
    /\ uploads \in Seq(Calls)
    /\ txns \subseteq Calls \X Nat
    /\ before \in [Calls -> SUBSET Calls]
    /\ ever \subseteq Calls \X Nat

\* A stored row has a committed file record: no crash, replace or clearing
\* leaves rows whose file_id names nothing (services.py saves the record first).
RecordPrecedesRows ==
    \A t \in txns : Recorded(t[1]) /\ t[2] \in RowNos(t[1])

\* Level 2 within one upload: a call never stores two rows that are the same
\* purchase, whatever the other calls do meanwhile.
NoDoubleWithinCall ==
    \A t, u \in ever :
        t[1] = u[1] /\ t # u => ~Same(RowOf(t), RowOf(u))

\* Level 2 across uploads: two stored rows that are the same purchase come from
\* calls that overlapped in time; a later upload never doubles an earlier one,
\* even when the earlier one died half way.
SequentialCallsNeverDouble ==
    \A t, u \in txns :
        t[1] \in before[u[1]] => ~Same(RowOf(t), RowOf(u))

\* Level 1: a content recorded by a call that had ended is recorded again only
\* by a call with ?force=append or replace.
RecordedOnceUnlessForced ==
    \A c, d \in Calls :
        /\ Recorded(c) /\ Recorded(d)
        /\ c \in before[d] /\ file[c] = file[d]
        => force[d] # "none"

\* An upload that answers with success loses no row: each row of the file is
\* the same purchase as a transaction that was stored, by this call or another.
DoneLosesNoRow ==
    \A c \in Calls : pc[c] = "done" =>
        \A k \in RowNos(c) : \E t \in ever : Same(RowOf(t), RowAt(c, k))

\* Only the user deletes rows of other content: an upload removes a stored row
\* only as a forced replacement of the very same content.
UploadRemovesOnlyItsContent ==
    [][ \A t \in txns \ txns' :
          \/ pc' = pc
          \/ \E c \in Calls :
                /\ pc[c] = "delete" /\ pc'[c] # "delete"
                /\ force[c] = "replace" /\ file[c] = file[t[1]] ]_vars

-----------------------------------------------------------------------------
(***************************************************************************)
(* The inductive invariant behind the properties above.                    *)
(***************************************************************************)

\* What a call that has not begun has left behind: nothing.
IdleIsFresh ==
    \A c \in Calls : pc[c] = "idle" => before[c] = {} /\ \A d \in Calls : c \notin before[d]

\* A call waits only for calls that have ended.
BeforeHasEnded ==
    \A c, d \in Calls : c \in before[d] => pc[c] \in Ended

\* A record, and rows, come only from a call that reached SaveFile.
RecordedCalls ==
    \A c \in Calls :
        /\ Recorded(c) => pc[c] \in {"add", "done", "failed"}
        /\ pc[c] \in {"add", "done"} => Recorded(c)

EverRecorded ==
    \A t \in ever : Recorded(t[1]) /\ t[2] \in RowNos(t[1])

\* The local variables: new_rows are rows looked at, pairwise different
\* purchases, and those no longer to be saved have been saved.
NewRows ==
    \A c \in Calls :
        /\ pc[c] \notin {"partition", "add"} => kept[c] = {} /\ todo[c] = {} /\ idx[c] = 1
        /\ pc[c] \in {"partition", "add"} =>
              /\ \A k \in kept[c] : k \in RowNos(c) /\ k < idx[c]
              /\ todo[c] \subseteq kept[c]
              /\ \A j, k \in kept[c] : j # k => ~Same(RowAt(c, j), RowAt(c, k))
        /\ pc[c] = "add" =>
              /\ \A k \in RowNos(c) : k < idx[c]
              /\ \A k \in kept[c] : <<c, k>> \in ever <=> k \notin todo[c]
              /\ \A t \in ever : t[1] = c => t[2] \in kept[c]

\* Every row looked at is new, or the same purchase as a new or a stored one.
Stored(c, k) == \E t \in ever : Same(RowOf(t), RowAt(c, k))

LookedAt ==
    \A c \in Calls : pc[c] \in {"partition", "add"} =>
        \A k \in RowNos(c) : k < idx[c] =>
            (\E j \in kept[c] : Same(RowAt(c, j), RowAt(c, k))) \/ Stored(c, k)

\* No new row of a call is the same purchase as a row of a call that had ended.
NewAgainstEnded ==
    \A c, d \in Calls : c \in before[d] =>
        \A t \in txns : t[1] = c =>
            \A k \in kept[d] : ~Same(RowOf(t), RowAt(d, k))

\* A call past check_file without a force has found no record of its content.
UnforcedIsFirst ==
    \A c, d \in Calls :
        /\ pc[d] \in {"partition", "add"} /\ force[d] = "none"
        /\ c \in before[d] /\ Recorded(c)
        => file[c] # file[d]

\* A call about to delete is a forced replacement of a record of its own content.
Replacing ==
    \A c \in Calls : pc[c] = "delete" =>
        /\ force[c] = "replace"
        /\ latest[c] \in Calls
        /\ Recorded(latest[c])
        /\ file[latest[c]] = file[c]

\* The inductive invariant: it holds initially, every step preserves it, and it
\* implies each of the safety invariants above.
IInv ==
    /\ TypeOK
    /\ IdleIsFresh
    /\ BeforeHasEnded
    /\ RecordedCalls
    /\ EverRecorded
    /\ txns \subseteq ever
    /\ NewRows
    /\ LookedAt
    /\ NewAgainstEnded
    /\ UnforcedIsFirst
    /\ Replacing
    /\ NoDoubleWithinCall
    /\ SequentialCallsNeverDouble
    /\ RecordedOnceUnlessForced
    /\ DoneLosesNoRow
-----------------------------------------------------------------------------
\* One call at a time, none of them dying.
OneAtATime ==
    /\ \A c \in Calls : pc[c] \in {"idle", "done", "duplicate"}
    /\ \A c, d \in Calls :
          pc[c] # "idle" /\ pc[d] # "idle" => c = d \/ c \in before[d] \/ d \in before[c]

=============================================================================
