---------------------------- MODULE ImportProofs ----------------------------
(***************************************************************************)
(* Proofs about Import for every set of calls and files and every content, *)
(* and about AsyncUpload, whose workers make those calls.                  *)
(*                                                                         *)
(* Spec => []IInv is proved once, action by action; the safety properties  *)
(* of Import are conjuncts of IInv or follow from it.                      *)
(***************************************************************************)
EXTENDS AsyncUpload, FiniteSetTheorems, TLAPS

\* Every row is the same purchase as itself: its date is within any tolerance
\* of itself.
LEMMA SameReflexive == \A r \in Row : Same(r, r)
<1> SUFFICES ASSUME NEW r \in Row PROVE Same(r, r)
    OBVIOUS
<1>1. r.date \in Date
    BY DEF Row
<1>2. CASE r.date.iso
  <2>1. r.date.day - r.date.day \in -Tol .. Tol
    BY <1>1, TolAssumption DEF Date
  <2> QED
    BY <1>2, <2>1 DEF Same, WithinDays
<1>3. CASE ~r.date.iso
    BY <1>3 DEF Same, WithinDays
<1> QED
    BY <1>1, <1>2, <1>3 DEF Date

\* The duplicate test does not depend on which row came first.
LEMMA SameSymmetric == \A r, s \in Row : Same(r, s) => Same(s, r)
<1> SUFFICES ASSUME NEW r \in Row, NEW s \in Row, Same(r, s) PROVE Same(s, r)
    OBVIOUS
<1>1. r.date \in Date /\ s.date \in Date
    BY DEF Row
<1>2. CASE r.date.iso /\ s.date.iso
  <2>1. s.date.day - r.date.day \in -Tol .. Tol
    BY <1>1, <1>2, TolAssumption DEF Date, Same, WithinDays
  <2> QED
    BY <1>2, <2>1 DEF Same, WithinDays
<1>3. CASE ~(r.date.iso /\ s.date.iso)
    BY <1>3 DEF Same, WithinDays
<1> QED
    BY <1>2, <1>3

\* The rows of a call that has begun are rows.
LEMMA RowAtType ==
    ASSUME TypeOK, NEW c \in Calls, pc[c] # "idle", NEW k \in RowNos(c)
    PROVE  RowAt(c, k) \in Row
<1>1. RowsOf[file[c]] \in Seq(Row)
    BY RowsAssumption DEF TypeOK
<1> QED
    BY <1>1 DEF RowAt, RowNos

LEMMA InitIInv == Init => IInv
<1> SUFFICES ASSUME Init PROVE IInv
    OBVIOUS
<1> USE DEF Init
<1>1. \A c \in Calls : ~Recorded(c)
    BY DEF Recorded
<1>2. TypeOK
    BY DEF TypeOK, Forces
<1>3. IdleIsFresh /\ BeforeHasEnded /\ NewAgainstEnded /\ UnforcedIsFirst /\ Replacing
    BY DEF IdleIsFresh, BeforeHasEnded, NewAgainstEnded, UnforcedIsFirst, Replacing
<1>4. RecordedCalls /\ RecordedOnceUnlessForced
    BY <1>1 DEF RecordedCalls, RecordedOnceUnlessForced
<1>5. EverRecorded /\ NewRows /\ LookedAt /\ txns \subseteq ever
    BY DEF EverRecorded, NewRows, LookedAt
<1>6. NoDoubleWithinCall /\ SequentialCallsNeverDouble /\ DoneLosesNoRow
    BY DEF NoDoubleWithinCall, SequentialCallsNeverDouble, DoneLosesNoRow
<1> QED
    BY <1>2, <1>3, <1>4, <1>5, <1>6 DEF IInv
-----------------------------------------------------------------------------
(***************************************************************************)
(* Type correctness is inductive by itself.                                *)
(***************************************************************************)
LEMMA NextTypeOK == TypeOK /\ [Next]_vars => TypeOK'
<1> SUFFICES ASSUME TypeOK, [Next]_vars PROVE TypeOK'
    OBVIOUS
<1> USE DEF TypeOK, Active, Ended, callVars, storeVars, histVars
<1>1. CASE \E c \in Calls, f \in Files, fo \in Forces : Begin(c, f, fo)
    BY <1>1 DEF Begin
<1>2. ASSUME NEW c \in Calls, CheckFile(c) PROVE TypeOK'
  <2>1. CASE End(c, "duplicate")
    BY <1>2, <2>1 DEF CheckFile, End
  <2>2. CASE Proceed(c, "partition") /\ UNCHANGED latest
    BY <1>2, <2>2 DEF CheckFile, Proceed
  <2>3. ASSUME NEW i \in RecordsOf(file[c]), Proceed(c, "delete"),
               latest' = [latest EXCEPT ![c] = uploads[i]]
        PROVE  TypeOK'
    <3>1. uploads[i] \in Calls
        BY <2>3 DEF RecordsOf
    <3> QED
        BY <1>2, <2>3, <3>1 DEF CheckFile, Proceed
  <2> QED
    BY <1>2, <2>1, <2>2, <2>3 DEF CheckFile
<1>3. ASSUME NEW c \in Calls, DeleteByFile(c) PROVE TypeOK'
    BY <1>3 DEF DeleteByFile, Proceed
<1>4. ASSUME NEW c \in Calls, PartitionRow(c) PROVE TypeOK'
    BY <1>4 DEF PartitionRow
<1>5. ASSUME NEW c \in Calls, SaveFile(c) PROVE TypeOK'
    BY <1>5 DEF SaveFile
<1>6. ASSUME NEW c \in Calls, AddRow(c) PROVE TypeOK'
    BY <1>6 DEF AddRow
<1>7. ASSUME NEW c \in Calls, Finish(c) PROVE TypeOK'
    BY <1>7 DEF Finish, End
<1>8. ASSUME NEW c \in Calls, Fail(c) PROVE TypeOK'
    BY <1>8 DEF Fail, End
<1>9. CASE ClearTransactions \/ \E t \in txns : DeleteTransaction(t)
    BY <1>9 DEF ClearTransactions, DeleteTransaction
<1>10. CASE UNCHANGED vars
    BY <1>10 DEF vars
<1> QED
    BY <1>1, <1>2, <1>3, <1>4, <1>5, <1>6, <1>7, <1>8, <1>9, <1>10 DEF Next, Step

\* The variables of process_csv and its tables keep their types.
THEOREM TypeCorrect == Spec => []TypeOK
<1>1. Init => TypeOK
    BY InitIInv DEF IInv
<1> QED
    BY <1>1, NextTypeOK, PTL DEF Spec
-----------------------------------------------------------------------------
(***************************************************************************)
(* The steps, one lemma each.  TypeOK' is known from NextTypeOK.           *)
(***************************************************************************)

\* A call that begins: it waits for ended calls and has nothing else.
LEMMA BeginIInv ==
    ASSUME IInv, TypeOK', NEW c \in Calls, NEW f \in Files, NEW fo \in Forces, Begin(c, f, fo)
    PROVE  IInv'
<1> USE DEF IInv, TypeOK, Begin, callVars, storeVars, histVars
<1>1. \A d \in Calls : Recorded(d)' <=> Recorded(d)
    BY DEF Recorded
<1>2. ~Recorded(c) /\ \A t \in ever : t[1] # c
    BY DEF RecordedCalls, EverRecorded
<1>3. \A d \in Calls : d # c => file'[d] = file[d] /\ force'[d] = force[d]
                               /\ before'[d] = before[d] /\ pc'[d] = pc[d]
    OBVIOUS
<1>4. \A t \in ever : t[1] \in Calls /\ t[2] \in Nat /\ RowOf(t)' = RowOf(t)
    BY <1>2, <1>3 DEF RowOf, RowAt
<1>5. IdleIsFresh' /\ BeforeHasEnded'
    BY DEF IdleIsFresh, BeforeHasEnded, Ended
<1>6. RecordedCalls'
    BY <1>1, <1>2 DEF RecordedCalls
<1>7. EverRecorded' /\ (txns \subseteq ever)'
    BY <1>1, <1>2, <1>3, <1>4 DEF EverRecorded, RowNos
<1>8. NewRows'
    BY <1>3 DEF NewRows, RowNos, RowAt
<1>9. LookedAt'
  <2>1. SUFFICES ASSUME NEW d \in Calls, pc'[d] \in {"partition", "add"},
                        NEW k \in RowNos(d)', k < idx'[d], ~Stored(d, k)'
                 PROVE  \E j \in kept'[d] : Same(RowAt(d, j), RowAt(d, k))'
    BY DEF LookedAt
  <2>2. d # c /\ pc[d] \in {"partition", "add"} /\ k \in RowNos(d) /\ k < idx[d]
    BY <2>1, <1>3 DEF RowNos
  <2>3. \A j : RowAt(d, j)' = RowAt(d, j)
    BY <2>2, <1>3 DEF RowAt
  <2>4. ~Stored(d, k)
    BY <2>1, <2>3, <1>4 DEF Stored
  <2>5. PICK j \in kept[d] : Same(RowAt(d, j), RowAt(d, k))
    BY <2>2, <2>4 DEF LookedAt
  <2> QED
    BY <2>3, <2>5
<1>10. NewAgainstEnded'
  <2>1. SUFFICES ASSUME NEW e \in Calls, NEW d \in Calls, e \in before'[d],
                        NEW t \in txns, t[1] = e, NEW k \in kept[d]
                 PROVE  ~Same(RowOf(t)', RowAt(d, k)')
    BY DEF NewAgainstEnded
  <2>2. d # c
    BY DEF NewRows
  <2>3. RowAt(d, k)' = RowAt(d, k) /\ RowOf(t)' = RowOf(t) /\ e \in before[d]
    BY <2>1, <2>2, <1>3, <1>4 DEF RowAt
  <2> QED
    BY <2>1, <2>3 DEF NewAgainstEnded
<1>11. UnforcedIsFirst' /\ RecordedOnceUnlessForced'
    BY <1>1, <1>2, <1>3 DEF UnforcedIsFirst, RecordedOnceUnlessForced, Ended
<1>12. NoDoubleWithinCall' /\ SequentialCallsNeverDouble'
    BY <1>2, <1>3, <1>4 DEF NoDoubleWithinCall, SequentialCallsNeverDouble
<1>13. DoneLosesNoRow'
    BY <1>3, <1>4 DEF DoneLosesNoRow, RowNos, RowAt
<1>14. Replacing'
    BY <1>1, <1>2, <1>3 DEF Replacing
<1> QED
    BY <1>5, <1>6, <1>7, <1>8, <1>9, <1>10, <1>11, <1>12, <1>13, <1>14

\* The steps that change the place and the local variables of one call only,
\* and leave it ended with nothing kept or where it may go on with what it kept.
LEMMA EndIInv ==
    ASSUME IInv, TypeOK', NEW c \in Calls, pc[c] \in Active,
           NEW how \in Ended, End(c, how), UNCHANGED <<storeVars, histVars>>,
           how = "duplicate" => ~Recorded(c),
           how = "done" => pc[c] = "add" /\ todo[c] = {}
    PROVE  IInv'
<1> USE DEF IInv, TypeOK, End, callVars, storeVars, histVars, Active, Ended
<1>1. \A d \in Calls : Recorded(d)' <=> Recorded(d)
    BY DEF Recorded
<1>2. \A t \in ever : RowOf(t)' = RowOf(t)
    BY DEF RowOf, RowAt
<1>3. \A d \in Calls : d # c => pc'[d] = pc[d] /\ kept'[d] = kept[d]
                               /\ todo'[d] = todo[d] /\ idx'[d] = idx[d]
    OBVIOUS
<1>4. pc'[c] = how /\ kept'[c] = {} /\ todo'[c] = {} /\ idx'[c] = 1
    OBVIOUS
<1>5. IdleIsFresh' /\ BeforeHasEnded'
    BY <1>3, <1>4 DEF IdleIsFresh, BeforeHasEnded
<1>6. RecordedCalls'
    BY <1>1, <1>3, <1>4 DEF RecordedCalls
<1>7. EverRecorded' /\ (txns \subseteq ever)'
    BY <1>1 DEF EverRecorded, RowNos
<1>8. NewRows'
    BY <1>3, <1>4 DEF NewRows, RowNos, RowAt
<1>9. LookedAt'
    BY <1>3, <1>4 DEF LookedAt, Stored, RowNos, RowOf, RowAt
<1>10. NewAgainstEnded'
    BY <1>3, <1>4 DEF NewAgainstEnded, RowOf, RowAt
<1>11. UnforcedIsFirst' /\ RecordedOnceUnlessForced'
    BY <1>1, <1>3, <1>4 DEF UnforcedIsFirst, RecordedOnceUnlessForced
<1>12. NoDoubleWithinCall' /\ SequentialCallsNeverDouble'
    BY <1>2 DEF NoDoubleWithinCall, SequentialCallsNeverDouble
<1>13. DoneLosesNoRow'
  <2>1. ASSUME NEW d \in Calls, pc'[d] = "done", NEW k \in RowNos(d)
        PROVE  Stored(d, k)
    <3>1. CASE d # c
        BY <2>1, <3>1, <1>3 DEF DoneLosesNoRow, Stored
    <3>2. CASE d = c
      <4>1. pc[c] = "add" /\ todo[c] = {}
        BY <2>1, <3>2, <1>4
      <4>2. CASE Stored(c, k)
        BY <4>2, <3>2
      <4>3. CASE ~Stored(c, k)
        <5>1. k < idx[c]
            BY <2>1, <3>2, <4>1 DEF NewRows
        <5>2. PICK j \in kept[c] : Same(RowAt(c, j), RowAt(c, k))
            BY <2>1, <3>2, <4>1, <4>3, <5>1 DEF LookedAt
        <5>3. <<c, j>> \in ever
            BY <4>1, <5>2 DEF NewRows
        <5> QED
            BY <3>2, <5>2, <5>3 DEF Stored, RowOf
      <4> QED
        BY <4>2, <4>3
    <3> QED
        BY <3>1, <3>2
  <2> QED
    BY <2>1 DEF DoneLosesNoRow, Stored, RowOf, RowAt, RowNos
<1>14. Replacing'
    BY <1>1, <1>3, <1>4 DEF Replacing
<1> QED
    BY <1>5, <1>6, <1>7, <1>8, <1>9, <1>10, <1>11, <1>12, <1>13, <1>14

\* Going past check_file, and past the deletion of the replaced rows: an unforced
\* call has found no record of its content.
LEMMA ProceedIInv ==
    ASSUME IInv, TypeOK', NEW c \in Calls, pc[c] \in {"check", "delete"},
           \/ /\ Proceed(c, "partition")
              /\ force[c] = "none" => RecordsOf(file[c]) = {}
           \/ /\ Proceed(c, "delete")
              /\ force[c] = "replace"
              /\ latest'[c] \in Calls
              /\ Recorded(latest'[c])
              /\ file[latest'[c]] = file[c],
           \A d \in Calls : d # c => latest'[d] = latest[d],
           txns' \subseteq txns, UNCHANGED <<uploads, histVars>>
    PROVE  IInv'
<1> USE DEF IInv, TypeOK, Proceed, callVars, storeVars, histVars, Active, Ended
<1>1. \A d \in Calls : Recorded(d)' <=> Recorded(d)
    BY DEF Recorded
<1>2. \A t \in ever : RowOf(t)' = RowOf(t)
    BY DEF RowOf, RowAt
<1>3. /\ \A d \in Calls : d # c => pc'[d] = pc[d]
      /\ pc'[c] \in {"partition", "delete"}
    OBVIOUS
<1>4. kept[c] = {} /\ todo[c] = {} /\ idx[c] = 1
    BY DEF NewRows
<1>5. /\ IdleIsFresh'
      /\ BeforeHasEnded'
      /\ RecordedCalls'
  <2>1. IdleIsFresh'
    BY <1>3 DEF IdleIsFresh
  <2>2. BeforeHasEnded'
    BY <1>3 DEF BeforeHasEnded
  <2>3. RecordedCalls'
    BY <1>1, <1>3 DEF RecordedCalls
  <2> QED
    BY <2>1, <2>2, <2>3
<1>6. EverRecorded' /\ (txns \subseteq ever)'
    BY <1>1 DEF EverRecorded, RowNos
<1>7. NewRows'
    BY <1>3, <1>4 DEF NewRows, RowNos, RowAt
<1>8. LookedAt'
  <2>1. SUFFICES ASSUME NEW d \in Calls, pc'[d] \in {"partition", "add"},
                        NEW k \in RowNos(d)', k < idx'[d], ~Stored(d, k)'
                 PROVE  \E j \in kept'[d] : Same(RowAt(d, j), RowAt(d, k))'
    BY DEF LookedAt
  <2>2. k \in RowNos(d) /\ k < idx[d] /\ k \in Nat \ {0}
    BY <2>1 DEF RowNos
  <2>3. d # c
    BY <2>2, <1>4 DEF RowNos
  <2>4. ~Stored(d, k)
    BY <2>1, <1>2 DEF Stored, RowAt
  <2>5. PICK j \in kept[d] : Same(RowAt(d, j), RowAt(d, k))
    BY <2>1, <2>2, <2>3, <2>4, <1>3 DEF LookedAt
  <2> QED
    BY <2>5 DEF RowAt
<1>9. NewAgainstEnded'
    BY DEF NewAgainstEnded, RowOf, RowAt
<1>10. UnforcedIsFirst'
  <2>1. SUFFICES ASSUME NEW e \in Calls, NEW d \in Calls, pc'[d] \in {"partition", "add"},
                        force[d] = "none", e \in before[d], Recorded(e)
                 PROVE  file[e] # file[d]
    BY <1>1 DEF UnforcedIsFirst
  <2>2. CASE d # c
    BY <2>1, <2>2, <1>3 DEF UnforcedIsFirst
  <2>3. CASE d = c
    BY <2>1, <2>3 DEF RecordsOf, Recorded
  <2> QED
    BY <2>2, <2>3
<1>11. RecordedOnceUnlessForced'
    BY <1>1 DEF RecordedOnceUnlessForced
<1>12. NoDoubleWithinCall' /\ SequentialCallsNeverDouble'
    BY <1>2 DEF NoDoubleWithinCall, SequentialCallsNeverDouble
<1>13. DoneLosesNoRow'
    BY <1>3, <1>4 DEF DoneLosesNoRow, RowNos, RowOf, RowAt
<1>14. Replacing'
    BY <1>1, <1>3 DEF Replacing
<1> QED
    BY <1>5, <1>6, <1>7, <1>8, <1>9, <1>10, <1>11, <1>12, <1>13, <1>14

LEMMA CheckFileIInv ==
    ASSUME IInv, TypeOK', NEW c \in Calls, CheckFile(c)
    PROVE  IInv'
<1>1. ~Recorded(c)
    BY DEF CheckFile, IInv, RecordedCalls
<1>2. CASE End(c, "duplicate")
    BY <1>1, <1>2, EndIInv DEF CheckFile, Active, Ended
<1>3. CASE /\ Proceed(c, "partition")
           /\ RecordsOf(file[c]) = {} \/ force[c] = "append"
           /\ UNCHANGED latest
    BY <1>3, ProceedIInv DEF CheckFile, storeVars
<1>4. ASSUME NEW i \in RecordsOf(file[c]), Proceed(c, "delete"), force[c] = "replace",
             latest' = [latest EXCEPT ![c] = uploads[i]]
      PROVE  IInv'
  <2>1. uploads[i] \in Calls /\ Recorded(uploads[i]) /\ file[uploads[i]] = file[c]
    BY <1>4 DEF IInv, TypeOK, RecordsOf, Recorded
  <2>2. latest'[c] = uploads[i] /\ \A d \in Calls : d # c => latest'[d] = latest[d]
    BY <1>4 DEF IInv, TypeOK
  <2> QED
    BY <1>4, <2>1, <2>2, ProceedIInv DEF CheckFile, storeVars
<1> QED
    BY <1>2, <1>3, <1>4 DEF CheckFile

\* Deleting rows, by a replacement or by the user, disturbs nothing: the
\* invariant asks of txns only that it is small enough.
LEMMA FewerRows ==
    ASSUME IInv, TypeOK', txns' \subseteq txns, UNCHANGED <<callVars, uploads, histVars>>
    PROVE  IInv'
<1> USE DEF IInv, TypeOK, callVars, histVars
<1>1. \A d \in Calls : Recorded(d)' <=> Recorded(d)
    BY DEF Recorded
<1>2. IdleIsFresh' /\ BeforeHasEnded' /\ RecordedCalls'
    BY <1>1 DEF IdleIsFresh, BeforeHasEnded, RecordedCalls
<1>3. EverRecorded' /\ (txns \subseteq ever)'
    BY <1>1 DEF EverRecorded, RowNos
<1>4. NewRows'
    BY DEF NewRows, RowNos, RowAt
<1>5. LookedAt'
    BY DEF LookedAt, Stored, RowNos, RowOf, RowAt
<1>6. NewAgainstEnded'
    BY DEF NewAgainstEnded, RowOf, RowAt
<1>7. UnforcedIsFirst' /\ RecordedOnceUnlessForced' /\ Replacing'
    BY <1>1 DEF UnforcedIsFirst, RecordedOnceUnlessForced, Replacing
<1>8. NoDoubleWithinCall' /\ SequentialCallsNeverDouble' /\ DoneLosesNoRow'
    BY DEF NoDoubleWithinCall, SequentialCallsNeverDouble, DoneLosesNoRow, RowNos, RowOf, RowAt
<1> QED
    BY <1>2, <1>3, <1>4, <1>5, <1>6, <1>7, <1>8

\* A round of the dedup loop: a row is new when no new row and no stored row is
\* the same purchase.
LEMMA PartitionRowIInv ==
    ASSUME IInv, TypeOK', NEW c \in Calls, PartitionRow(c)
    PROVE  IInv'
<1> USE DEF IInv, TypeOK, PartitionRow, storeVars, histVars
<1> DEFINE n == idx[c]
<1>1. \A d \in Calls : Recorded(d)' <=> Recorded(d)
    BY DEF Recorded
<1>2. /\ \A t \in ever : RowOf(t)' = RowOf(t)
      /\ \A d, k : RowAt(d, k)' = RowAt(d, k)
      /\ \A d : RowNos(d)' = RowNos(d)
      /\ \A d, k : Stored(d, k)' <=> Stored(d, k)
    BY DEF RowOf, RowAt, RowNos, Stored
<1>3. /\ \A d \in Calls : d # c => kept'[d] = kept[d] /\ idx'[d] = idx[d]
      /\ kept'[c] = kept[c] \/ (kept'[c] = kept[c] \cup {n} /\ ~Duplicate(c, n))
      /\ Duplicate(c, n) \/ n \in kept'[c]
      /\ idx'[c] = n + 1 /\ n \in Nat
  <2>1. CASE Duplicate(c, n)
    BY <2>1
  <2>2. CASE ~Duplicate(c, n)
    BY <2>2
  <2> QED
    BY <2>1, <2>2
<1>4. IdleIsFresh' /\ BeforeHasEnded' /\ RecordedCalls'
    BY <1>1 DEF IdleIsFresh, BeforeHasEnded, RecordedCalls
<1>5. EverRecorded' /\ (txns \subseteq ever)'
    BY <1>1, <1>2 DEF EverRecorded
<1>6. NewRows'
  <2>1. ASSUME NEW d \in Calls, d # c
        PROVE  NewRows!(d)' <=> NewRows!(d)
    BY <2>1, <1>2, <1>3
  <2>2. \A k \in kept'[c] : k \in RowNos(c) /\ k < n + 1
    BY <1>3 DEF NewRows, RowNos
  <2>3. ASSUME NEW j \in kept'[c], NEW k \in kept'[c], j # k
        PROVE  ~Same(RowAt(c, j), RowAt(c, k))
    <3>1. CASE j \in kept[c] /\ k \in kept[c]
        BY <3>1, <2>3 DEF NewRows
    <3>2. CASE j \in kept[c] /\ k = n /\ ~Duplicate(c, n)
        BY <3>2 DEF Duplicate
    <3>3. CASE k \in kept[c] /\ j = n /\ ~Duplicate(c, n)
      <4>1. ~Same(RowAt(c, k), RowAt(c, j))
        BY <3>3 DEF Duplicate
      <4>2. RowAt(c, k) \in Row /\ RowAt(c, j) \in Row
        BY <3>3, RowAtType DEF NewRows
      <4> QED
        BY <4>1, <4>2, SameSymmetric
    <3> QED
        BY <2>3, <3>1, <3>2, <3>3, <1>3
  <2>4. NewRows!(c)'
    BY <2>2, <2>3, <1>2, <1>3 DEF NewRows
  <2> QED
    BY <2>1, <2>4 DEF NewRows
<1>7. LookedAt'
  <2>1. SUFFICES ASSUME NEW d \in Calls, pc[d] \in {"partition", "add"},
                        NEW k \in RowNos(d), k < idx'[d], ~Stored(d, k)
                 PROVE  \E j \in kept'[d] : Same(RowAt(d, j), RowAt(d, k))
    BY <1>2 DEF LookedAt
  <2>2. CASE d # c
    BY <2>1, <2>2, <1>3 DEF LookedAt
  <2>3. CASE d = c /\ k < n
    BY <2>1, <2>3, <1>3 DEF LookedAt
  <2>4. CASE d = c /\ k = n
    <3>1. RowAt(c, n) \in Row
        BY <2>1, <2>4, RowAtType
    <3>2. CASE n \in kept'[c]
        BY <2>4, <3>1, <3>2, SameReflexive
    <3>3. CASE Duplicate(c, n)
        BY <2>1, <2>4, <3>3, <1>3 DEF Duplicate, Stored
    <3> QED
        BY <3>2, <3>3, <1>3
  <2>5. k \in Nat
    BY DEF RowNos
  <2>6. d = c => k < n \/ k = n
    BY <2>1, <2>5, <1>3
  <2> QED
    BY <2>2, <2>3, <2>4, <2>6
<1>8. NewAgainstEnded'
  <2>1. SUFFICES ASSUME NEW e \in Calls, NEW d \in Calls, e \in before[d],
                        NEW t \in txns, t[1] = e, NEW k \in kept'[d]
                 PROVE  ~Same(RowOf(t), RowAt(d, k))
    BY <1>2 DEF NewAgainstEnded
  <2>2. CASE k \in kept[d]
    BY <2>1, <2>2 DEF NewAgainstEnded
  <2>3. CASE d = c /\ k = n /\ ~Duplicate(c, n)
    BY <2>1, <2>3 DEF Duplicate
  <2> QED
    BY <2>1, <2>2, <2>3, <1>3
<1>9. UnforcedIsFirst' /\ RecordedOnceUnlessForced' /\ Replacing'
    BY <1>1 DEF UnforcedIsFirst, RecordedOnceUnlessForced, Replacing
<1>10. NoDoubleWithinCall' /\ SequentialCallsNeverDouble' /\ DoneLosesNoRow'
    BY <1>2 DEF NoDoubleWithinCall, SequentialCallsNeverDouble, DoneLosesNoRow
<1> QED
    BY <1>4, <1>5, <1>6, <1>7, <1>8, <1>9, <1>10

\* Saving the file record: the call is recorded, and none of its rows is stored.
LEMMA SaveFileIInv ==
    ASSUME IInv, TypeOK', NEW c \in Calls, SaveFile(c)
    PROVE  IInv'
<1> USE DEF IInv, TypeOK, SaveFile, histVars
<1>1. \A d \in Calls : Recorded(d)' <=> Recorded(d) \/ d = c
  <2>1. /\ Len(uploads) \in Nat
        /\ DOMAIN uploads = 1 .. Len(uploads)
        /\ DOMAIN uploads' = 1 .. Len(uploads) + 1
        /\ \A i \in 1 .. Len(uploads) : uploads'[i] = uploads[i]
        /\ uploads'[Len(uploads) + 1] = c
    OBVIOUS
  <2>2. ASSUME NEW d \in Calls, Recorded(d)
        PROVE  Recorded(d)'
    BY <2>1, <2>2 DEF Recorded
  <2>3. Recorded(c)'
    <3>1. Len(uploads) + 1 \in 1 .. Len(uploads) + 1
        BY <2>1
    <3> QED
        BY <2>1, <3>1 DEF Recorded
  <2>4. ASSUME NEW d \in Calls, Recorded(d)', d # c
        PROVE  Recorded(d)
    <3>1. PICK i \in 1 .. Len(uploads) + 1 : uploads'[i] = d
        BY <2>1, <2>4 DEF Recorded
    <3>2. i \in 1 .. Len(uploads)
        BY <2>1, <2>4, <3>1
    <3> QED
        BY <2>1, <3>1, <3>2 DEF Recorded
  <2> QED
    BY <2>2, <2>3, <2>4
<1>2. /\ \A t \in ever : RowOf(t)' = RowOf(t)
      /\ \A d, k : RowAt(d, k)' = RowAt(d, k)
      /\ \A d : RowNos(d)' = RowNos(d)
      /\ \A d, k : Stored(d, k)' <=> Stored(d, k)
    BY DEF RowOf, RowAt, RowNos, Stored
<1>3. /\ \A d \in Calls : d # c => pc'[d] = pc[d] /\ todo'[d] = todo[d]
      /\ pc'[c] = "add" /\ todo'[c] = kept[c]
    OBVIOUS
<1>4. ~Recorded(c) /\ \A t \in ever : t[1] # c
    BY DEF RecordedCalls, EverRecorded
<1>5. IdleIsFresh' /\ BeforeHasEnded' /\ RecordedCalls'
    BY <1>1, <1>3 DEF IdleIsFresh, BeforeHasEnded, RecordedCalls, Ended
<1>6. EverRecorded' /\ (txns \subseteq ever)'
    BY <1>1, <1>2 DEF EverRecorded
<1>7. NewRows'
  <2>1. ASSUME NEW d \in Calls, d # c
        PROVE  NewRows!(d)' <=> NewRows!(d)
    BY <2>1, <1>2, <1>3
  <2>2. \A k \in RowNos(c) : k < idx[c]
    <3>1. Len(RowsOf[file[c]]) \in Nat /\ idx[c] \in Nat \ {0}
        BY RowsAssumption
    <3> QED
        BY <3>1 DEF RowNos
  <2>3. \A k \in kept[c] : <<c, k>> \notin ever
    BY <1>4
  <2>4. NewRows!(c)'
    BY <2>2, <2>3, <1>2, <1>3, <1>4 DEF NewRows
  <2> QED
    BY <2>1, <2>4 DEF NewRows
<1>8. LookedAt'
    BY <1>2, <1>3 DEF LookedAt
<1>9. NewAgainstEnded'
    BY <1>2 DEF NewAgainstEnded
<1>10. UnforcedIsFirst' /\ RecordedOnceUnlessForced' /\ Replacing'
  <2>1. \A d \in Calls : c \notin before[d]
    BY DEF BeforeHasEnded, Ended
  <2>2. UnforcedIsFirst'
    BY <2>1, <1>1, <1>3 DEF UnforcedIsFirst
  <2>3. ASSUME NEW e \in Calls, e \in before[c], Recorded(e), force[c] = "none"
        PROVE  file[e] # file[c]
    BY <2>3 DEF UnforcedIsFirst
  <2>4. ASSUME NEW e \in Calls, NEW d \in Calls, Recorded(e)', Recorded(d)',
               e \in before[d], file[e] = file[d], force[d] = "none"
        PROVE  FALSE
    <3>1. Recorded(e)
        BY <2>1, <2>4, <1>1
    <3>2. CASE d = c
        BY <3>1, <3>2, <2>3, <2>4
    <3>3. CASE d # c
        BY <3>1, <3>3, <2>4, <1>1 DEF RecordedOnceUnlessForced
    <3> QED
        BY <3>2, <3>3
  <2>5. RecordedOnceUnlessForced'
    BY <2>4 DEF RecordedOnceUnlessForced
  <2>6. Replacing'
    BY <1>1, <1>3 DEF Replacing
  <2> QED
    BY <2>2, <2>5, <2>6
<1>11. NoDoubleWithinCall' /\ SequentialCallsNeverDouble' /\ DoneLosesNoRow'
    BY <1>2, <1>3 DEF NoDoubleWithinCall, SequentialCallsNeverDouble, DoneLosesNoRow
<1> QED
    BY <1>5, <1>6, <1>7, <1>8, <1>9, <1>10, <1>11

\* Storing a row: it is one of the new rows, which no stored row of the call nor
\* of a call that had ended doubles.
LEMMA AddRowIInv ==
    ASSUME IInv, TypeOK', NEW c \in Calls, AddRow(c)
    PROVE  IInv'
<1> USE DEF IInv, TypeOK
<1> PICK n \in todo[c] : /\ txns' = txns \cup {<<c, n>>}
                         /\ ever' = ever \cup {<<c, n>>}
                         /\ todo' = [todo EXCEPT ![c] = @ \ {n}]
    BY DEF AddRow
<1>1. /\ UNCHANGED <<pc, file, force, latest, idx, kept, uploads, before>>
      /\ pc[c] = "add"
    BY DEF AddRow
<1>2. /\ \A t : RowOf(t)' = RowOf(t)
      /\ \A d, k : RowAt(d, k)' = RowAt(d, k)
      /\ \A d : RowNos(d)' = RowNos(d)
      /\ \A d : Recorded(d)' <=> Recorded(d)
      /\ \A d, k : Stored(d, k) => Stored(d, k)'
    BY <1>1 DEF RowOf, RowAt, RowNos, Recorded, Stored
<1>3. n \in kept[c] /\ n \in RowNos(c) /\ <<c, n>> \notin ever
    BY <1>1 DEF NewRows
<1>4. RowOf(<<c, n>>) = RowAt(c, n)
    BY DEF RowOf
<1>5. \A d \in Calls : c \notin before[d]
    BY <1>1 DEF BeforeHasEnded, Ended
<1>6. \A t \in ever : t = <<t[1], t[2]>> /\ t[1] \in Calls
    OBVIOUS
<1>7. IdleIsFresh' /\ BeforeHasEnded' /\ RecordedCalls'
    BY <1>1, <1>2 DEF IdleIsFresh, BeforeHasEnded, RecordedCalls
<1>8. EverRecorded' /\ (txns \subseteq ever)'
    BY <1>1, <1>2, <1>3 DEF EverRecorded, RecordedCalls
<1>9. NewRows'
  <2>1. ASSUME NEW d \in Calls, d # c
        PROVE  NewRows!(d)' <=> NewRows!(d)
    BY <2>1, <1>1, <1>2
  <2>2. \A k \in kept[c] : <<c, k>> \in ever' <=> k \notin todo'[c]
    BY <1>1, <1>3 DEF NewRows
  <2>3. \A t \in ever' : t[1] = c => t[2] \in kept[c]
    BY <1>1, <1>3 DEF NewRows
  <2>4. todo'[c] \subseteq kept[c]
    BY <1>1 DEF NewRows
  <2>5. NewRows!(c)'
    BY <2>2, <2>3, <2>4, <1>1, <1>2 DEF NewRows
  <2>6. ASSUME NEW d \in Calls PROVE NewRows!(d)'
    <3>1. CASE d = c
        BY <2>5, <3>1
    <3>2. CASE d # c
        BY <2>1, <3>2 DEF NewRows
    <3> QED
        BY <3>1, <3>2
  <2> QED
    BY <2>6 DEF NewRows
<1>10. LookedAt'
    BY <1>1, <1>2 DEF LookedAt
<1>11. NewAgainstEnded'
    BY <1>1, <1>2, <1>5 DEF NewAgainstEnded
<1>12. UnforcedIsFirst' /\ RecordedOnceUnlessForced' /\ Replacing'
    BY <1>1, <1>2 DEF UnforcedIsFirst, RecordedOnceUnlessForced, Replacing
<1>13. NoDoubleWithinCall'
  <2>1. ASSUME NEW u \in ever, u[1] = c
        PROVE  ~Same(RowOf(u), RowAt(c, n)) /\ ~Same(RowAt(c, n), RowOf(u))
    <3>1. u[2] \in kept[c] /\ u[2] # n
        BY <2>1, <1>1, <1>3, <1>6 DEF NewRows
    <3>2. RowOf(u) = RowAt(c, u[2])
        BY <2>1 DEF RowOf
    <3> QED
        BY <3>1, <3>2, <1>1, <1>3 DEF NewRows
  <2>2. SUFFICES ASSUME NEW t \in ever', NEW u \in ever', t[1] = u[1], t # u
                 PROVE  ~Same(RowOf(t), RowOf(u))
    BY <1>2 DEF NoDoubleWithinCall
  <2>3. CASE t \in ever /\ u \in ever
    BY <2>2, <2>3 DEF NoDoubleWithinCall
  <2>4. CASE t = <<c, n>> /\ u \in ever
    BY <2>1, <2>2, <2>4, <1>4
  <2>5. CASE u = <<c, n>> /\ t \in ever
    BY <2>1, <2>2, <2>5, <1>4
  <2> QED
    BY <2>2, <2>3, <2>4, <2>5
<1>14. SequentialCallsNeverDouble'
  <2>1. ASSUME NEW t \in txns, t[1] \in before[c]
        PROVE  ~Same(RowOf(t), RowAt(c, n))
    BY <2>1, <1>3, <1>6 DEF NewAgainstEnded
  <2>2. SUFFICES ASSUME NEW t \in txns', NEW u \in txns', t[1] \in before[u[1]]
                 PROVE  ~Same(RowOf(t), RowOf(u))
    BY <1>1, <1>2 DEF SequentialCallsNeverDouble
  <2>3. u[1] \in Calls /\ t \in txns
    BY <2>2, <1>5
  <2>4. CASE u \in txns
    BY <2>2, <2>3, <2>4 DEF SequentialCallsNeverDouble
  <2>5. CASE u = <<c, n>>
    BY <2>1, <2>2, <2>3, <2>5, <1>4
  <2> QED
    BY <2>2, <2>4, <2>5
<1>15. DoneLosesNoRow'
    BY <1>1, <1>2 DEF DoneLosesNoRow
<1> QED
    BY <1>7, <1>8, <1>9, <1>10, <1>11, <1>12, <1>13, <1>14, <1>15

\* Deleting the rows of the record that is replaced.
LEMMA DeleteByFileIInv ==
    ASSUME IInv, TypeOK', NEW c \in Calls, DeleteByFile(c)
    PROVE  IInv'
<1>1. pc[c] = "delete" /\ force[c] = "replace" /\ txns' \subseteq txns
    BY DEF DeleteByFile, IInv, Replacing
<1> QED
    BY <1>1, ProceedIInv DEF DeleteByFile
-----------------------------------------------------------------------------
LEMMA NextIInv == IInv /\ [Next]_vars => IInv'
<1> SUFFICES ASSUME IInv, [Next]_vars PROVE IInv'
    OBVIOUS
<1>1. TypeOK'
    BY NextTypeOK DEF IInv
<1>2. CASE \E c \in Calls, f \in Files, fo \in Forces : Begin(c, f, fo)
    BY <1>1, <1>2, BeginIInv
<1>3. CASE \E c \in Calls : CheckFile(c)
    BY <1>1, <1>3, CheckFileIInv
<1>4. ASSUME NEW c \in Calls, DeleteByFile(c) PROVE IInv'
  <2> QED
    BY <1>1, <1>4, DeleteByFileIInv
<1>5. CASE \E c \in Calls : PartitionRow(c)
    BY <1>1, <1>5, PartitionRowIInv
<1>6. CASE \E c \in Calls : SaveFile(c)
    BY <1>1, <1>6, SaveFileIInv
<1>7. CASE \E c \in Calls : AddRow(c)
    BY <1>1, <1>7, AddRowIInv
<1>8. ASSUME NEW c \in Calls, Finish(c) PROVE IInv'
    BY <1>1, <1>8, EndIInv DEF Finish, Active, Ended
<1>9. ASSUME NEW c \in Calls, Fail(c) PROVE IInv'
    BY <1>1, <1>9, EndIInv DEF Fail, Ended
<1>10. CASE ClearTransactions \/ \E t \in txns : DeleteTransaction(t)
    BY <1>1, <1>10, FewerRows DEF ClearTransactions, DeleteTransaction
<1>11. CASE UNCHANGED vars
    BY <1>1, <1>11, FewerRows DEF vars, storeVars, IInv
<1> QED
    BY <1>2, <1>3, <1>4, <1>5, <1>6, <1>7, <1>8, <1>9, <1>10, <1>11 DEF Next, Step

\* The inductive invariant holds in every reachable state.
THEOREM Invariance == Spec => []IInv
    BY InitIInv, NextIInv, PTL DEF Spec

\* A stored row has its file record.
THEOREM RowsAreRecorded == Spec => []RecordPrecedesRows
<1>1. IInv => RecordPrecedesRows
    BY DEF IInv, EverRecorded, RecordPrecedesRows
<1> QED
    BY <1>1, Invariance, PTL

\* A call never stores the same purchase twice, whatever the others do.
THEOREM CallsNeverDouble == Spec => []NoDoubleWithinCall
<1>1. IInv => NoDoubleWithinCall
    BY DEF IInv
<1> QED
    BY <1>1, Invariance, PTL

\* Two stored rows that are the same purchase come from overlapping calls.
THEOREM LaterCallsNeverDouble == Spec => []SequentialCallsNeverDouble
<1>1. IInv => SequentialCallsNeverDouble
    BY DEF IInv
<1> QED
    BY <1>1, Invariance, PTL

\* A content on record is recorded again only when append or replace is forced.
THEOREM FileLevelDedup == Spec => []RecordedOnceUnlessForced
<1>1. IInv => RecordedOnceUnlessForced
    BY DEF IInv
<1> QED
    BY <1>1, Invariance, PTL

\* An upload deletes only rows of the content it replaces.
THEOREM ReplacesItsOwn == Spec => UploadRemovesOnlyItsContent
<1> DEFINE A == \A t \in txns \ txns' :
                   \/ pc' = pc
                   \/ \E c \in Calls :
                         /\ pc[c] = "delete" /\ pc'[c] # "delete"
                         /\ force[c] = "replace" /\ file[c] = file[t[1]]
<1>1. IInv /\ [Next]_vars => [A]_vars
  <2> SUFFICES ASSUME IInv, Next, NEW t \in txns \ txns', pc' # pc
               PROVE  \E c \in Calls : /\ pc[c] = "delete" /\ pc'[c] # "delete"
                                       /\ force[c] = "replace" /\ file[c] = file[t[1]]
    OBVIOUS
  <2>1. PICK c \in Calls : DeleteByFile(c)
    BY DEF Next, Step, Begin, CheckFile, PartitionRow, SaveFile, AddRow, Finish, Fail,
           DeleteTransaction, ClearTransactions, callVars, storeVars
  <2>2. t[1] = latest[c]
    BY <2>1 DEF DeleteByFile
  <2> QED
    BY <2>1, <2>2 DEF DeleteByFile, Proceed, IInv, TypeOK, Replacing
<1> QED
    BY <1>1, Invariance, PTL DEF Spec, UploadRemovesOnlyItsContent

\* A call that succeeds loses no row of its file.
THEOREM SuccessLosesNoRow == Spec => []DoneLosesNoRow
<1>1. IInv => DoneLosesNoRow
    BY DEF IInv
<1> QED
    BY <1>1, Invariance, PTL
-----------------------------------------------------------------------------
(***************************************************************************)
(* The asynchronous upload.  Its steps are steps of Import, so everything  *)
(* proved of Import holds of it, and it keeps the promise of JobQueue.     *)
(***************************************************************************)
\* The worker's message at hand.
LEMMA CurrentType ==
    ASSUME AsyncTypeOK, NEW w \in Workers, Busy(w)
    PROVE  /\ Current(w) \in Calls
           /\ Current(w) = batch[w][1]
           /\ 1 \in DOMAIN batch[w]
           /\ JobOf(w) \in Jobs
           /\ Current(w)[2] \in 1 .. MaxReceive
           /\ Current(w) = <<JobOf(w), Current(w)[2]>>
           /\ Content[JobOf(w)] \in Files
<1>1. batch[w] \in Seq(Calls) /\ batch[w] # <<>>
    BY DEF AsyncTypeOK, Busy
<1>2. /\ Head(batch[w]) \in Calls /\ Head(batch[w]) = batch[w][1]
      /\ 1 \in DOMAIN batch[w]
    BY <1>1
<1> QED
    BY <1>2, CallsAssumption, ContentAssumption DEF Current, JobOf

\* A step of the pipeline is, to process_csv and its tables, a step of Import.
LEMMA AsyncStepIsImportStep ==
    ASSUME AsyncTypeOK, [AsyncNext]_asyncVars
    PROVE  [Next]_vars
<1>1. CASE UNCHANGED asyncVars
    BY <1>1 DEF asyncVars
<1>2. CASE \E j \in Jobs : CreateJob(j) \/ SendMessage(j) \/ Expire(j)
    BY <1>2 DEF CreateJob, SendMessage, Expire
<1>3. ASSUME NEW w \in Workers, WorkerStep(w) \/ ImportFails(w) \/ StoreError(w) \/ Crash(w)
      PROVE  [Next]_vars
  <2>1. CASE Receive(w) \/ ReadJob(w) \/ Complete(w) \/ ReportFailure(w) \/ Delete(w) \/ StoreError(w)
    BY <2>1 DEF Receive, ReadJob, Complete, ReportFailure, Delete, StoreError
  <2>2. CASE MarkProcessing(w)
    <3>1. Begin(Current(w), Content[JobOf(w)], "none") /\ Busy(w)
        BY <2>2 DEF MarkProcessing
    <3> QED
        BY <3>1, CurrentType DEF Next, Forces
  <2>3. CASE Importing(w)
    <3>1. Step(Current(w)) /\ Busy(w)
        BY <2>3 DEF Importing
    <3> QED
        BY <3>1, CurrentType DEF Next
  <2>4. CASE ImportFails(w)
    <3>1. Fail(Current(w)) /\ Busy(w)
        BY <2>4 DEF ImportFails
    <3> QED
        BY <3>1, CurrentType DEF Next
  <2>5. CASE Crash(w)
    <3>1. (Fail(Current(w)) \/ UNCHANGED vars) /\ Busy(w)
        BY <2>5 DEF Crash
    <3> QED
        BY <3>1, CurrentType DEF Next
  <2> QED
    BY <1>3, <2>1, <2>2, <2>3, <2>4, <2>5 DEF WorkerStep
<1> QED
    BY <1>1, <1>2, <1>3 DEF AsyncNext

\* Finitely many rows are ever stored.
LEMMA EverStaysFinite ==
    ASSUME IsFiniteSet(ever), [Next]_vars
    PROVE  IsFiniteSet(ever')
<1>1. CASE \E c \in Calls : AddRow(c)
  <2>1. PICK t : ever' = ever \cup {t}
    BY <1>1 DEF AddRow
  <2> QED
    BY <2>1, FS_AddElement
<1>2. CASE ~\E c \in Calls : AddRow(c)
  <2>1. ever' = ever
    BY <1>2 DEF Next, Step, Begin, CheckFile, DeleteByFile, PartitionRow, SaveFile, Finish,
                Fail, DeleteTransaction, ClearTransactions, vars, histVars, storeVars
  <2> QED
    BY <2>1
<1> QED
    BY <1>1, <1>2

LEMMA RowsInsertedType ==
    ASSUME IsFiniteSet(ever), NEW c
    PROVE  RowsInserted(c) \in Nat
<1>1. IsFiniteSet({t \in ever : t[1] = c})
    BY FS_Subset
<1> QED
    BY <1>1, FS_CardinalityType DEF RowsInserted

LEMMA AsyncInitIInv == AsyncInit => AsyncIInv
<1> SUFFICES ASSUME AsyncInit PROVE AsyncIInv
    OBVIOUS
<1> USE DEF AsyncInit
<1>1. TypeOK
    BY InitIInv DEF IInv
<1>2. AsyncTypeOK
    BY <1>1, LimitsAssumption DEF AsyncTypeOK
<1>3. IsFiniteSet(ever)
    BY FS_EmptySet DEF Init
<1>4. HoldsCurrent /\ HeldOnce /\ StageMatchesStatus /\ DeliveriesLeft
    BY LimitsAssumption DEF DeliveriesLeft, HoldsCurrent, HeldOnce, StageMatchesStatus, Busy
<1>5. DeliveredWasSent /\ DeletedIsCompleted /\ SuccessBehind
    BY DEF DeliveredWasSent, DeletedIsCompleted, SuccessBehind, Busy
<1> QED
    BY <1>2, <1>3, <1>4, <1>5 DEF AsyncIInv, QueueIInv, AsyncTyped
-----------------------------------------------------------------------------
(***************************************************************************)
(* Types, and the bound on the deliveries, whatever the timeout.           *)
(***************************************************************************)

\* What a receive puts into the batch of a worker are calls.
LEMMA ReceiveTyped ==
    ASSUME AsyncTyped, TypeOK', NEW w \in Workers, Receive(w)
    PROVE  AsyncTypeOK' /\ DeliveriesLeft'
<1> USE DEF AsyncTyped, AsyncTypeOK
<1>1. PICK n \in 1 .. Batch : \E q \in [1 .. n -> {j \in Jobs : msg[j] = "visible"}] :
          LET taken == {q[i] : i \in 1 .. n}
          IN  /\ \A i, k \in 1 .. n : i # k => q[i] # q[k]
              /\ msg' = [j \in Jobs |-> IF j \in taken THEN "inflight" ELSE msg[j]]
              /\ receives' = [j \in Jobs |-> IF j \in taken THEN receives[j] + 1 ELSE receives[j]]
              /\ batch' = [batch EXCEPT ![w] = [i \in 1 .. n |-> <<q[i], receives[q[i]] + 1>>]]
    BY DEF Receive
<1>2. PICK q \in [1 .. n -> {j \in Jobs : msg[j] = "visible"}] :
          LET taken == {q[i] : i \in 1 .. n}
          IN  /\ msg' = [j \in Jobs |-> IF j \in taken THEN "inflight" ELSE msg[j]]
              /\ receives' = [j \in Jobs |-> IF j \in taken THEN receives[j] + 1 ELSE receives[j]]
              /\ batch' = [batch EXCEPT ![w] = [i \in 1 .. n |-> <<q[i], receives[q[i]] + 1>>]]
    BY <1>1
<1>3. \A i \in 1 .. n : q[i] \in Jobs /\ receives[q[i]] < MaxReceive
    BY <1>2 DEF DeliveriesLeft
<1>4. \A i \in 1 .. n : <<q[i], receives[q[i]] + 1>> \in Calls
    BY <1>3, CallsAssumption, LimitsAssumption
<1>5. [i \in 1 .. n |-> <<q[i], receives[q[i]] + 1>>] \in Seq(Calls)
    BY <1>4, LimitsAssumption
<1>6. batch' \in [Workers -> Seq(Calls)]
    BY <1>2, <1>5
<1>7. receives' \in [Jobs -> 0 .. MaxReceive]
    BY <1>2, <1>3, LimitsAssumption
<1>8. msg' \in [Jobs -> {"none", "created", "lost", "visible", "inflight", "deleted", "dlq"}]
    BY <1>2
<1>9. DeliveriesLeft'
    BY <1>2 DEF DeliveriesLeft
<1> QED
    BY <1>6, <1>7, <1>8, <1>9 DEF Receive

LEMMA AsyncNextTyped ==
    ASSUME AsyncTyped, [AsyncNext]_asyncVars
    PROVE  AsyncTyped'
<1> USE DEF AsyncTyped, AsyncTypeOK
<1>1. TypeOK' /\ IsFiniteSet(ever)'
    BY AsyncStepIsImportStep, NextTypeOK, EverStaysFinite
<1>2. ASSUME NEW j \in Jobs, CreateJob(j) \/ SendMessage(j) \/ Expire(j)
      PROVE  AsyncTyped'
  <2>1. CASE CreateJob(j)
    BY <1>1, <2>1 DEF CreateJob, DeliveriesLeft
  <2>2. CASE SendMessage(j)
    BY <1>1, <2>2 DEF SendMessage, DeliveriesLeft
  <2>3. CASE Expire(j)
    BY <1>1, <2>3 DEF Expire, DeliveriesLeft
  <2> QED
    BY <1>2, <2>1, <2>2, <2>3
<1>3. ASSUME NEW w \in Workers, WorkerStep(w) \/ ImportFails(w) \/ StoreError(w) \/ Crash(w)
      PROVE  AsyncTyped'
  <2>1. Busy(w) => JobOf(w) \in Jobs /\ Tail(batch[w]) \in Seq(Calls)
    BY CurrentType DEF Busy
  <2>2. CASE Receive(w)
    BY <1>1, <2>2, ReceiveTyped
  <2>3. CASE ReadJob(w)
    BY <1>1, <2>3 DEF ReadJob, GoTo, DeliveriesLeft
  <2>4. CASE MarkProcessing(w)
    BY <1>1, <2>1, <2>4 DEF MarkProcessing, UpdateJobStatus, GoTo, DeliveriesLeft
  <2>5. CASE Importing(w) \/ ImportFails(w)
    BY <1>1, <2>5 DEF Importing, ImportFails, DeliveriesLeft
  <2>6. CASE Complete(w)
    <3>1. RowsInserted(Current(w)) \in Nat
        BY RowsInsertedType
    <3> QED
        BY <1>1, <2>1, <2>6, <3>1 DEF Complete, UpdateJobStatus, GoTo, DeliveriesLeft
  <2>7. CASE ReportFailure(w)
    <3>1. CASE UNCHANGED <<status, inserted>>
        BY <1>1, <2>1, <2>7, <3>1 DEF ReportFailure, NextMessage, DeliveriesLeft
    <3>2. CASE UpdateJobStatus(JobOf(w), "FAILED", 0)
        BY <1>1, <2>1, <2>7, <3>2 DEF ReportFailure, UpdateJobStatus, NextMessage, DeliveriesLeft
    <3> QED
        BY <2>7, <3>1, <3>2 DEF ReportFailure
  <2>8. CASE StoreError(w)
    BY <1>1, <2>1, <2>8 DEF StoreError, NextMessage, DeliveriesLeft
  <2>9. CASE Delete(w)
    BY <1>1, <2>1, <2>9 DEF Delete, NextMessage, DeliveriesLeft
  <2>10. CASE Crash(w)
    BY <1>1, <2>10 DEF Crash, DeliveriesLeft
  <2> QED
    BY <1>3, <2>2, <2>3, <2>4, <2>5, <2>6, <2>7, <2>8, <2>9, <2>10 DEF WorkerStep
<1>4. CASE UNCHANGED asyncVars
    BY <1>1, <1>4 DEF asyncVars, DeliveriesLeft
<1> QED
    BY <1>2, <1>3, <1>4 DEF AsyncNext
-----------------------------------------------------------------------------
(***************************************************************************)
(* The steps, grouped by what they do to the batches.                      *)
(***************************************************************************)

\* process_job goes on with the message at hand; at most the job's row changes.
LEMMA GoOnIInv ==
    ASSUME QueueIInv, AsyncTyped', NEW w \in Workers, Busy(w),
           UNCHANGED <<msg, receives, batch, overrun>>,
           NEW to \in {"mark", "import", "delete"}, stage' = [stage EXCEPT ![w] = to],
           \/ UNCHANGED <<status, inserted>>
           \/ \E s \in {"PROCESSING", "COMPLETED"}, n \in Nat : UpdateJobStatus(JobOf(w), s, n),
           JobOf(w) \notin overrun => (to = "delete" <=> status'[JobOf(w)] = "COMPLETED")
    PROVE  QueueIInv'
<1> USE DEF QueueIInv, AsyncTyped, AsyncTypeOK
<1>1. JobOf(w) \in Jobs /\ JobOf(w) = batch[w][1][1] /\ 1 \in DOMAIN batch[w]
    BY CurrentType DEF JobOf
<1>2. /\ msg[JobOf(w)] \notin NotSent
      /\ JobOf(w) \notin overrun => msg[JobOf(w)] = "inflight"
    BY <1>1 DEF HoldsCurrent, DeliveredWasSent
<1>3. \A j \in Jobs : j # JobOf(w) => status'[j] = status[j]
    BY DEF UpdateJobStatus
<1>5. HoldsCurrent' /\ HeldOnce'
    BY DEF HoldsCurrent, HeldOnce
<1>6. StageMatchesStatus'
  <2>1. SUFFICES ASSUME NEW v \in Workers, Busy(v), JobOf(v) \notin overrun
                 PROVE  /\ stage'[v] = "delete" => status'[JobOf(v)] = "COMPLETED"
                        /\ stage'[v] \in {"mark", "import"} => status'[JobOf(v)] # "COMPLETED"
    BY DEF StageMatchesStatus, Busy, JobOf, Current
  <2>2. CASE v = w
    BY <2>1, <2>2
  <2>3. CASE v # w
    <3>1. JobOf(v) \in Jobs /\ JobOf(v) = batch[v][1][1] /\ 1 \in DOMAIN batch[v]
        BY <2>1, CurrentType DEF JobOf
    <3>2. JobOf(v) # JobOf(w)
        BY <1>1, <2>1, <2>3, <3>1 DEF HeldOnce
    <3> QED
        BY <1>3, <2>1, <2>3, <3>1, <3>2 DEF StageMatchesStatus
  <2> QED
    BY <2>2, <2>3
<1>7. DeliveredWasSent' /\ DeletedIsCompleted'
    BY <1>2, <1>3 DEF DeliveredWasSent, DeletedIsCompleted
<1> QED
    BY <1>5, <1>6, <1>7

\* The worker drops the message at hand, alone or with the rest of its batch.
LEMMA DropIInv ==
    ASSUME QueueIInv, AsyncTyped', NEW w \in Workers, Busy(w),
           UNCHANGED <<receives, overrun>>,
           NEW b \in {Tail(batch[w]), <<>>}, batch' = [batch EXCEPT ![w] = b],
           stage' = [stage EXCEPT ![w] = "read"],
           \/ UNCHANGED <<status, inserted>>
           \/ stage[w] = "import" /\ UpdateJobStatus(JobOf(w), "FAILED", 0),
           \/ UNCHANGED msg
           \/ /\ JobOf(w) \notin overrun => status'[JobOf(w)] = "COMPLETED"
              /\ msg' = [msg EXCEPT ![JobOf(w)] = "deleted"]
    PROVE  QueueIInv'
<1> USE DEF QueueIInv, AsyncTyped, AsyncTypeOK
<1>1. JobOf(w) \in Jobs /\ JobOf(w) = batch[w][1][1] /\ 1 \in DOMAIN batch[w]
    BY CurrentType DEF JobOf
<1>2. /\ msg[JobOf(w)] \notin NotSent
      /\ JobOf(w) \notin overrun => msg[JobOf(w)] = "inflight"
    BY <1>1 DEF HoldsCurrent, DeliveredWasSent
<1>3. \A j \in Jobs : j # JobOf(w) => status'[j] = status[j] /\ msg'[j] = msg[j]
    BY DEF UpdateJobStatus
<1>4. /\ b \in Seq(Calls)
      /\ \A i \in DOMAIN b : i + 1 \in DOMAIN batch[w] /\ b[i] = batch[w][i + 1] /\ i \in Nat \ {0}
  <2>1. batch[w] \in Seq(Calls) /\ batch[w] # <<>>
    BY DEF Busy
  <2>2. CASE b = <<>>
    BY <2>2
  <2>3. CASE b = Tail(batch[w])
    <3>1. /\ Tail(batch[w]) \in Seq(Calls)
          /\ Len(batch[w]) \in Nat \ {0}
          /\ Len(Tail(batch[w])) = Len(batch[w]) - 1
          /\ \A i \in 1 .. Len(batch[w]) - 1 : Tail(batch[w])[i] = batch[w][i + 1]
        BY <2>1
    <3>2. /\ DOMAIN batch[w] = 1 .. Len(batch[w])
          /\ DOMAIN Tail(batch[w]) = 1 .. Len(batch[w]) - 1
        BY <2>1, <3>1
    <3> QED
        BY <2>3, <3>1, <3>2
  <2> QED
    BY <2>2, <2>3
<1>5. \A v \in Workers : v # w => batch'[v] = batch[v] /\ stage'[v] = stage[v]
    OBVIOUS
<1>6. batch'[w] = b /\ stage'[w] = "read"
    OBVIOUS
<1>8. \A v \in Workers : \A i \in DOMAIN batch'[v] :
        \E k \in DOMAIN batch[v] : /\ batch'[v][i] = batch[v][k]
                                   /\ v = w => k = i + 1
                                   /\ v # w => k = i
                                   /\ JobOf(w) \notin overrun => batch[v][k][1] # JobOf(w)
  <2>1. SUFFICES ASSUME NEW v \in Workers, NEW i \in DOMAIN batch'[v]
                 PROVE  \E k \in DOMAIN batch[v] : /\ batch'[v][i] = batch[v][k]
                                                   /\ v = w => k = i + 1
                                                   /\ v # w => k = i
                                                   /\ JobOf(w) \notin overrun => batch[v][k][1] # JobOf(w)
    OBVIOUS
  <2>2. CASE v # w
    <3>1. JobOf(w) \notin overrun => batch[v][i][1] # JobOf(w)
        BY <1>1, <1>5, <2>1, <2>2 DEF HeldOnce
    <3> QED
        BY <1>5, <2>1, <2>2, <3>1
  <2>3. CASE v = w
    <3>1. i + 1 \in DOMAIN batch[w] /\ b[i] = batch[w][i + 1] /\ i + 1 # 1
        BY <1>4, <1>6, <2>1, <2>3
    <3>2. JobOf(w) \notin overrun => batch[w][i + 1][1] # JobOf(w)
        BY <1>1, <3>1 DEF HeldOnce
    <3> QED
        BY <1>6, <2>1, <2>3, <3>1, <3>2
  <2> QED
    BY <2>2, <2>3
<1>9. HoldsCurrent'
  <2>1. SUFFICES ASSUME NEW v \in Workers, NEW i \in DOMAIN batch'[v],
                        batch'[v][i][1] \notin overrun
                 PROVE  /\ batch'[v][i][2] = receives[batch'[v][i][1]]
                        /\ msg'[batch'[v][i][1]] = "inflight"
    BY DEF HoldsCurrent
  <2>2. PICK k \in DOMAIN batch[v] : /\ batch'[v][i] = batch[v][k]
                                     /\ JobOf(w) \notin overrun => batch[v][k][1] # JobOf(w)
    <3> HIDE DEF QueueIInv, AsyncTyped, AsyncTypeOK
    <3> QED
        BY <1>8, <2>1
  <2>3. batch[v][k][1] \in Jobs
    BY CallsAssumption
  <2> QED
    BY <1>3, <2>1, <2>2, <2>3 DEF HoldsCurrent
<1>10. HeldOnce'
  <2>1. SUFFICES ASSUME NEW u \in Workers, NEW v \in Workers,
                        NEW i \in DOMAIN batch'[u], NEW k \in DOMAIN batch'[v],
                        batch'[u][i][1] = batch'[v][k][1], batch'[u][i][1] \notin overrun
                 PROVE  u = v /\ i = k
    BY DEF HeldOnce
  <2>2. PICK m \in DOMAIN batch[u] : /\ batch'[u][i] = batch[u][m]
                                     /\ u = w => m = i + 1
                                     /\ u # w => m = i
    BY <1>8, <2>1
  <2>3. PICK n \in DOMAIN batch[v] : /\ batch'[v][k] = batch[v][n]
                                     /\ v = w => n = k + 1
                                     /\ v # w => n = k
    BY <1>8, <2>1
  <2>4. u = v /\ m = n
    BY <2>1, <2>2, <2>3 DEF HeldOnce
  <2>5. i \in Nat /\ k \in Nat
    BY <1>4, <1>5, <1>6, <2>1
  <2> QED
    BY <2>2, <2>3, <2>4, <2>5
<1>11. StageMatchesStatus'
  <2>1. SUFFICES ASSUME NEW v \in Workers, batch'[v] # <<>>, v # w,
                        JobOf(v) \notin overrun
                 PROVE  /\ stage'[v] = "delete" => status'[JobOf(v)] = "COMPLETED"
                        /\ stage'[v] \in {"mark", "import"} => status'[JobOf(v)] # "COMPLETED"
    BY <1>5, <1>6 DEF StageMatchesStatus, Busy, JobOf, Current
  <2>2. Busy(v)
    BY <1>5, <2>1 DEF Busy
  <2>3. JobOf(v) \in Jobs /\ JobOf(v) = batch[v][1][1] /\ 1 \in DOMAIN batch[v]
    BY <2>2, CurrentType DEF JobOf
  <2>4. JobOf(v) # JobOf(w)
    BY <1>1, <2>1, <2>3 DEF HeldOnce
  <2> QED
    BY <1>3, <1>5, <2>1, <2>2, <2>3, <2>4 DEF StageMatchesStatus
<1>12. DeliveredWasSent'
  <2>1. ASSUME NEW v \in Workers, NEW i \in DOMAIN batch'[v]
        PROVE  /\ batch'[v][i][2] <= receives'[batch'[v][i][1]]
               /\ msg'[batch'[v][i][1]] \notin NotSent
    <3>1. PICK k \in DOMAIN batch[v] : batch'[v][i] = batch[v][k]
        <4> HIDE DEF QueueIInv, AsyncTyped, AsyncTypeOK
        <4> QED
            BY <1>8, <2>1
    <3>2. batch[v][k][1] \in Jobs
        BY CallsAssumption
    <3> QED
        BY <1>3, <3>1, <3>2 DEF DeliveredWasSent, NotSent
  <2>2. \A j \in Jobs : msg[j] \notin NotSent => msg'[j] \notin NotSent
    BY <1>1 DEF NotSent
  <2>3. \A j \in Jobs : status'[j] = "COMPLETED" => status[j] = "COMPLETED"
    BY <1>1 DEF UpdateJobStatus
  <2> QED
    BY <2>1, <2>2, <2>3 DEF DeliveredWasSent
<1>13. DeletedIsCompleted'
    BY <1>1, <1>2, <1>3 DEF DeletedIsCompleted
<1> QED
    BY <1>9, <1>10, <1>11, <1>12, <1>13

LEMMA LeqTransitive == \A a, b, c \in Int : a <= b /\ b <= c => a <= c
OBVIOUS

LEMMA LeqReflexive == \A a \in Int : a <= a
OBVIOUS

LEMMA CountsAreInt ==
    ASSUME NEW f \in [Jobs -> 0 .. MaxReceive]
    PROVE  \A j \in Jobs : f[j] \in Int
BY LimitsAssumption

LEMMA HandlesAreInt ==
    \A c \in Jobs \X (1 .. MaxReceive) : c[2] \in Int
BY LimitsAssumption

LEMMA HeldAreCalls ==
    ASSUME AsyncTypeOK
    PROVE  \A v \in Workers : \A i \in DOMAIN batch[v] : batch[v][i] \in Jobs \X (1 .. MaxReceive)
BY CallsAssumption DEF AsyncTypeOK

\* A worker receives visible messages: nobody holds them, but an overrun one.
LEMMA ReceiveIInv ==
    ASSUME QueueIInv, AsyncTyped', NEW w \in Workers, Receive(w)
    PROVE  QueueIInv'
<1> USE DEF QueueIInv, AsyncTyped, AsyncTypeOK
<1>1. PICK n \in 1 .. Batch : \E q \in [1 .. n -> {j \in Jobs : msg[j] = "visible"}] :
          LET taken == {q[i] : i \in 1 .. n}
          IN  /\ \A i, k \in 1 .. n : i # k => q[i] # q[k]
              /\ msg' = [j \in Jobs |-> IF j \in taken THEN "inflight" ELSE msg[j]]
              /\ receives' = [j \in Jobs |-> IF j \in taken THEN receives[j] + 1 ELSE receives[j]]
              /\ batch' = [batch EXCEPT ![w] = [i \in 1 .. n |-> <<q[i], receives[q[i]] + 1>>]]
    BY DEF Receive
<1>2. PICK q \in [1 .. n -> {j \in Jobs : msg[j] = "visible"}] :
          LET taken == {q[i] : i \in 1 .. n}
          IN  /\ \A i, k \in 1 .. n : i # k => q[i] # q[k]
              /\ msg' = [j \in Jobs |-> IF j \in taken THEN "inflight" ELSE msg[j]]
              /\ receives' = [j \in Jobs |-> IF j \in taken THEN receives[j] + 1 ELSE receives[j]]
              /\ batch' = [batch EXCEPT ![w] = [i \in 1 .. n |-> <<q[i], receives[q[i]] + 1>>]]
    BY <1>1
<1> DEFINE taken == {q[i] : i \in 1 .. n}
<1>3. UNCHANGED <<status, inserted, stage>> /\ batch[w] = <<>>
    BY DEF Receive, Busy
<1>3a. overrun' = overrun
    BY DEF Receive
<1>4. \A i \in 1 .. n : q[i] \in Jobs /\ msg[q[i]] = "visible"
    BY <1>2
<1>6. \A v \in Workers : v # w => batch'[v] = batch[v]
    BY <1>2
<1>7. batch'[w] = [i \in 1 .. n |-> <<q[i], receives[q[i]] + 1>>] /\ n \in Nat
    BY <1>2, LimitsAssumption
<1>7a. \A v \in Workers : \A i \in DOMAIN batch[v] : batch[v][i] \in Jobs \X (1 .. MaxReceive)
    BY HeldAreCalls
<1>7b. \A j \in Jobs : receives[j] \in Int /\ receives'[j] \in Int
  <2>1. receives \in [Jobs -> 0 .. MaxReceive] /\ receives' \in [Jobs -> 0 .. MaxReceive]
    OBVIOUS
  <2> QED
    BY <2>1, CountsAreInt, Zenon
<1>9. \A v \in Workers : \A i \in DOMAIN batch[v] :
          batch[v][i][1] \in Jobs /\ (batch[v][i][1] \notin overrun => batch[v][i][1] \notin taken)
  <2>1. \A v \in Workers : \A i \in DOMAIN batch[v] : batch[v][i][1] \in Jobs
    BY <1>7a
  <2>2. \A v \in Workers : \A i \in DOMAIN batch[v] :
            batch[v][i][1] \notin overrun => msg[batch[v][i][1]] = "inflight"
    BY DEF HoldsCurrent
  <2>3. \A j \in taken : msg[j] = "visible"
    BY <1>4
  <2> HIDE DEF taken
  <2> QED
    BY <2>1, <2>2, <2>3
<1>10. HoldsCurrent'
  <2>1. SUFFICES ASSUME NEW v \in Workers, NEW i \in DOMAIN batch'[v],
                        batch'[v][i][1] \notin overrun
                 PROVE  /\ batch'[v][i][2] = receives'[batch'[v][i][1]]
                        /\ msg'[batch'[v][i][1]] = "inflight"
    BY <1>3a DEF HoldsCurrent
  <2>2. CASE v # w
    BY <1>2, <1>6, <1>9, <2>1, <2>2 DEF HoldsCurrent
  <2>3. CASE v = w
    BY <1>2, <1>4, <1>7, <2>1, <2>3
  <2> QED
    BY <2>2, <2>3
<1>11. HeldOnce'
  <2>1. SUFFICES ASSUME NEW u \in Workers, NEW v \in Workers,
                        NEW i \in DOMAIN batch'[u], NEW k \in DOMAIN batch'[v],
                        batch'[u][i][1] = batch'[v][k][1], batch'[u][i][1] \notin overrun
                 PROVE  u = v /\ i = k
    BY <1>3a DEF HeldOnce
  <2>2. CASE u # w /\ v # w
    BY <1>6, <2>1, <2>2 DEF HeldOnce
  <2>3. CASE u = w /\ v = w
    BY <1>2, <1>7, <2>1, <2>3
  <2>4. CASE u = w /\ v # w
    <3>1. batch'[u][i][1] \in taken /\ batch'[v][k][1] \notin taken
        <4>1. batch'[u][i] = <<q[i], receives[q[i]] + 1>> /\ i \in 1 .. n
            BY <1>7, <2>1, <2>4
        <4>2. batch'[v][k][1] \notin taken
            BY <1>6, <1>9, <2>1, <2>4
        <4> QED
            BY <4>1, <4>2
    <3> QED
        BY <2>1, <3>1
  <2>5. CASE u # w /\ v = w
    <3>1. batch'[v][k][1] \in taken /\ batch'[u][i][1] \notin taken
        <4>1. batch'[v][k] = <<q[k], receives[q[k]] + 1>> /\ k \in 1 .. n
            BY <1>7, <2>1, <2>5
        <4>2. batch'[u][i][1] \notin taken
            BY <1>6, <1>9, <2>1, <2>5
        <4> QED
            BY <4>1, <4>2
    <3> QED
        BY <2>1, <3>1
  <2> QED
    BY <2>2, <2>3, <2>4, <2>5
<1>12. StageMatchesStatus'
  <2>1. stage[w] = "read"
    BY <1>3 DEF StageMatchesStatus, Busy
  <2> QED
    BY <1>3, <1>3a, <1>6, <2>1 DEF StageMatchesStatus, Busy, JobOf, Current
<1>13. DeliveredWasSent'
  <2>1. \A j \in Jobs : receives[j] <= receives'[j] /\ (msg[j] \notin NotSent => msg'[j] \notin NotSent)
    BY <1>2 DEF NotSent
  <2>2. ASSUME NEW v \in Workers, NEW i \in DOMAIN batch'[v]
        PROVE  /\ batch'[v][i][2] <= receives'[batch'[v][i][1]]
               /\ msg'[batch'[v][i][1]] \notin NotSent
    <3>1. CASE v # w
        <4>1. i \in DOMAIN batch[v] /\ batch'[v][i] = batch[v][i]
            BY <1>6, <2>2, <3>1
        <4>2. PICK j \in Jobs : j = batch[v][i][1]
            BY <1>9, <3>1, <4>1
        <4>3. batch[v][i][2] <= receives[j] /\ msg[j] \notin NotSent
            BY <4>1, <4>2 DEF DeliveredWasSent
        <4>4. batch[v][i] \in Jobs \X (1 .. MaxReceive)
            BY <1>7a, <4>1, Zenon
        <4>5. batch[v][i][2] \in Int /\ receives[j] \in Int /\ receives'[j] \in Int
            BY <1>7b, <4>2, <4>4, HandlesAreInt, Zenon
        <4>6. receives[j] <= receives'[j] /\ msg'[j] \notin NotSent
            BY <2>1, <4>2, <4>3
        <4>7. batch[v][i][2] <= receives'[j]
            BY <4>3, <4>5, <4>6, LeqTransitive, Zenon
        <4> QED
            BY <4>1, <4>2, <4>6, <4>7
    <3>2. CASE v = w
        <4>1. i \in 1 .. n /\ batch'[v][i] = <<q[i], receives[q[i]] + 1>>
            BY <1>7, <2>2, <3>2
        <4>2. receives'[q[i]] = receives[q[i]] + 1 /\ msg'[q[i]] = "inflight"
            BY <1>2, <1>4, <4>1
        <4>3. batch'[v][i][1] = q[i] /\ batch'[v][i][2] = receives'[q[i]] /\ receives'[q[i]] \in Int
            BY <1>4, <4>1, <4>2, LimitsAssumption
        <4>4. batch'[v][i][2] <= receives'[batch'[v][i][1]]
            BY <4>3, LeqReflexive, Zenon
        <4>5. msg'[batch'[v][i][1]] \notin NotSent
            BY <4>2, <4>3 DEF NotSent
        <4> QED
            BY <4>4, <4>5
    <3> QED
        BY <3>1, <3>2
  <2> QED
    BY <1>3, <1>3a, <2>1, <2>2 DEF DeliveredWasSent
<1>14. DeletedIsCompleted'
    BY <1>2, <1>3, <1>3a DEF DeletedIsCompleted
<1> QED
    BY <1>10, <1>11, <1>12, <1>13, <1>14

\* handle_enqueue and SQS touch only messages that no worker holds, or overrun.
LEMMA UnheldIInv ==
    ASSUME QueueIInv, AsyncTyped', NEW j \in Jobs,
           UNCHANGED <<inserted, receives, batch, stage>>,
           NEW to \in {"created", "lost", "visible", "dlq"}, msg' = [msg EXCEPT ![j] = to],
           overrun' \in {overrun, overrun \cup {j}},
           \/ msg[j] # "inflight"
           \/ j \in overrun'
           \/ \A w \in Workers : ~Holds(w, <<j, receives[j]>>),
           \/ UNCHANGED status
           \/ msg[j] = "none" /\ status' = [status EXCEPT ![j] = "QUEUED"],
           to \in NotSent => msg[j] \in NotSent /\ UNCHANGED overrun
    PROVE  QueueIInv'
<1> USE DEF QueueIInv, AsyncTyped, AsyncTypeOK
<1>1. ASSUME j \notin overrun', NEW w \in Workers, NEW i \in DOMAIN batch[w], batch[w][i][1] = j
      PROVE  FALSE
  <2>1. msg[j] = "inflight" /\ batch[w][i][2] = receives[j]
    BY <1>1 DEF HoldsCurrent
  <2>2. batch[w][i] \in Jobs \X (1 .. MaxReceive)
    BY <1>1, CallsAssumption
  <2>3. batch[w][i] = <<j, receives[j]>>
    BY <1>1, <2>1, <2>2
  <2>4. Holds(w, <<j, receives[j]>>)
    BY <1>1, <2>3 DEF Holds
  <2> QED
    BY <1>1, <2>1, <2>4
<1>2. \A i \in Jobs : i # j => status'[i] = status[i] /\ msg'[i] = msg[i]
    OBVIOUS
<1>3. \A w \in Workers : \A i \in DOMAIN batch[w] : batch[w][i] \in Jobs \X (1 .. MaxReceive)
    BY CallsAssumption
<1>4. HoldsCurrent' /\ HeldOnce'
    BY <1>1, <1>2, <1>3 DEF HoldsCurrent, HeldOnce
<1>5. StageMatchesStatus'
  <2>1. \A w \in Workers : Busy(w) /\ JobOf(w) \notin overrun' => JobOf(w) \in Jobs /\ JobOf(w) # j
    BY <1>1, CurrentType DEF JobOf
  <2> QED
    BY <1>2, <2>1 DEF StageMatchesStatus, Busy, JobOf, Current
<1>6. \A i \in Jobs : msg[i] \notin NotSent => msg'[i] \notin NotSent
    BY <1>2
<1>7. DeliveredWasSent'
  <2>1. overrun' \subseteq {i \in Jobs : msg'[i] \notin NotSent}
    BY <1>6 DEF DeliveredWasSent
  <2>2. \A i \in Jobs : status'[i] = "COMPLETED" => status[i] = "COMPLETED"
    OBVIOUS
  <2> QED
    BY <1>3, <1>6, <2>1, <2>2 DEF DeliveredWasSent
<1>8. DeletedIsCompleted'
    BY <1>2, <1>1 DEF DeletedIsCompleted, NotSent
<1> QED
    BY <1>4, <1>5, <1>7, <1>8

LEMMA QueueNext ==
    ASSUME QueueIInv, [AsyncNext]_asyncVars
    PROVE  QueueIInv'
<1> USE DEF QueueIInv, AsyncTyped
<1>2. AsyncTyped'
    BY AsyncNextTyped
<1>3. ASSUME NEW j \in Jobs, CreateJob(j) \/ SendMessage(j) \/ Expire(j)
      PROVE  QueueIInv'
  <2>1. CASE CreateJob(j)
    BY <1>2, <2>1, UnheldIInv DEF CreateJob, NotSent
  <2>2. CASE SendMessage(j)
    <3>1. PICK to \in {"visible", "lost"} : msg' = [msg EXCEPT ![j] = to]
        BY <2>2 DEF SendMessage
    <3> QED
        BY <1>2, <2>2, <3>1, UnheldIInv DEF SendMessage, NotSent
  <2>3. CASE Expire(j)
    <3>1. PICK to \in {"visible", "dlq"} : msg' = [msg EXCEPT ![j] = to]
        BY <2>3 DEF Expire
    <3>2. /\ overrun' \in {overrun, overrun \cup {j}}
          /\ j \in overrun' \/ \A w \in Workers : ~Holds(w, <<j, receives[j]>>)
        BY <2>3 DEF Expire
    <3> QED
        BY <1>2, <2>3, <3>1, <3>2, UnheldIInv DEF Expire, NotSent
  <2> QED
    BY <1>3, <2>1, <2>2, <2>3
<1>4. ASSUME NEW w \in Workers, WorkerStep(w) \/ ImportFails(w) \/ StoreError(w) \/ Crash(w)
      PROVE  QueueIInv'
  <2>1. CASE Receive(w)
    BY <1>2, <2>1, ReceiveIInv
  <2>2. CASE ReadJob(w)
    BY <1>2, <2>2, GoOnIInv DEF ReadJob, GoTo
  <2>3. CASE MarkProcessing(w)
    <3>1. JobOf(w) \in Jobs
        BY <2>3, CurrentType DEF MarkProcessing
    <3>2. status'[JobOf(w)] # "COMPLETED"
        BY <2>3, <3>1 DEF MarkProcessing, UpdateJobStatus, AsyncTypeOK
    <3> QED
        BY <1>2, <2>3, <3>2, GoOnIInv DEF MarkProcessing, GoTo
  <2>4. CASE Importing(w) \/ ImportFails(w)
    <3>1. stage' = [stage EXCEPT ![w] = "import"]
        BY <2>4 DEF Importing, ImportFails, AsyncTypeOK
    <3>2. JobOf(w) \notin overrun => status'[JobOf(w)] # "COMPLETED"
        BY <2>4 DEF Importing, ImportFails, StageMatchesStatus
    <3> QED
        BY <1>2, <2>4, <3>1, <3>2, GoOnIInv DEF Importing, ImportFails
  <2>5. CASE Complete(w)
    <3>1. JobOf(w) \in Jobs /\ RowsInserted(Current(w)) \in Nat
        BY <2>5, CurrentType, RowsInsertedType DEF Complete
    <3>2. status'[JobOf(w)] = "COMPLETED"
        BY <2>5, <3>1 DEF Complete, UpdateJobStatus, AsyncTypeOK
    <3> QED
        BY <1>2, <2>5, <3>1, <3>2, GoOnIInv DEF Complete, GoTo
  <2>6. CASE ReportFailure(w)
    BY <1>2, <2>6, DropIInv DEF ReportFailure, NextMessage
  <2>7. CASE StoreError(w)
    BY <1>2, <2>7, DropIInv DEF StoreError, NextMessage
  <2>8. CASE Delete(w)
    <3>1. JobOf(w) \notin overrun => status'[JobOf(w)] = "COMPLETED"
        BY <2>8 DEF Delete, StageMatchesStatus
    <3> QED
        BY <1>2, <2>8, <3>1, DropIInv DEF Delete, NextMessage
  <2>9. CASE Crash(w)
    BY <1>2, <2>9, DropIInv DEF Crash
  <2> QED
    BY <1>4, <2>1, <2>2, <2>3, <2>4, <2>5, <2>6, <2>7, <2>8, <2>9 DEF WorkerStep
<1>5. CASE UNCHANGED asyncVars
    BY <1>2, <1>5 DEF asyncVars, HoldsCurrent, HeldOnce, StageMatchesStatus,
                      DeliveredWasSent, DeletedIsCompleted, Busy, JobOf, Current
<1> QED
    BY <1>3, <1>4, <1>5 DEF AsyncNext
-----------------------------------------------------------------------------
\* The types and the bound on the deliveries hold whatever the timeout does.
THEOREM AsyncTypeCorrect == AsyncSpec => []AsyncTyped
<1>1. AsyncInit => AsyncTyped
    BY AsyncInitIInv DEF AsyncIInv, QueueIInv
<1>2. AsyncTyped /\ [AsyncNext]_asyncVars => AsyncTyped'
    BY AsyncNextTyped
<1> QED
    BY <1>1, <1>2, PTL DEF AsyncSpec

\* The asynchronous path is an execution of Import: what is proved of Import,
\* whatever the interleaving, holds of the workers' imports, redelivered or not.
THEOREM AsyncIsImport == AsyncSpec => Spec
<1>1. AsyncInit => Init
    BY DEF AsyncInit
<1>2. AsyncTyped /\ [AsyncNext]_asyncVars => [Next]_vars
    BY AsyncStepIsImportStep DEF AsyncTyped
<1> QED
    BY <1>1, <1>2, AsyncTypeCorrect, PTL DEF AsyncSpec, Spec

-----------------------------------------------------------------------------
(***************************************************************************)
(* What is completed or deleted had a success, overrun or not.             *)
(***************************************************************************)
LEMMA SuccessStays ==
    ASSUME TypeOK, [Next]_vars, NEW j \in Jobs, Succeeded(j)
    PROVE  Succeeded(j)'
<1>1. PICK n \in 1 .. MaxReceive : pc[<<j, n>>] \in {"done", "duplicate"}
    BY DEF Succeeded
<1>2. PICK c \in Calls : c = <<j, n>>
    BY CallsAssumption
<1>3. pc'[c] = pc[c]
    BY <1>1, <1>2 DEF Next, Step, Begin, CheckFile, DeleteByFile, PartitionRow, SaveFile, AddRow,
        Finish, Fail, DeleteTransaction, ClearTransactions, Proceed, End, Active, TypeOK,
        vars, callVars
<1> QED
    BY <1>1, <1>2, <1>3 DEF Succeeded

LEMMA SuccessNext ==
    ASSUME QueueIInv, SuccessBehind, [AsyncNext]_asyncVars
    PROVE  SuccessBehind'
<1> USE DEF QueueIInv, AsyncTyped, AsyncTypeOK
<1>1. \A j \in Jobs : Succeeded(j) => Succeeded(j)'
    BY AsyncStepIsImportStep, SuccessStays
<1>2. \A w \in Workers : Busy(w) => JobOf(w) \in Jobs
    BY CurrentType
<1>3. ASSUME NEW w \in Workers, Complete(w), NEW j \in Jobs, j = JobOf(w) PROVE Succeeded(j)'
  <2>1. Succeeded(j)
    BY <1>3, CurrentType DEF Complete, Succeeded
  <2> QED
    BY <1>1, <2>1
<1>4. ASSUME NEW j \in Jobs, status'[j] = "COMPLETED" \/ msg'[j] = "deleted"
      PROVE  Succeeded(j)'
  <2>1. CASE status[j] = "COMPLETED" \/ msg[j] = "deleted"
    BY <1>1, <2>1 DEF SuccessBehind
  <2>2. CASE \E w \in Workers : Complete(w) /\ JobOf(w) = j
    BY <1>3, <2>2
  <2>3. CASE \E w \in Workers : Delete(w) /\ JobOf(w) = j
    BY <1>1, <2>3 DEF Delete, SuccessBehind
  <2>4. ASSUME NEW w \in Workers, Complete(w), JobOf(w) # j
        PROVE  status'[j] = status[j] /\ msg'[j] = msg[j]
    BY <2>4 DEF Complete, UpdateJobStatus
  <2>5. ASSUME NEW w \in Workers, Delete(w), JobOf(w) # j
        PROVE  status'[j] = status[j] /\ msg'[j] = msg[j]
    BY <2>5 DEF Delete
  <2>6. ASSUME NEW w \in Workers, MarkProcessing(w) \/ ReportFailure(w)
        PROVE  (status'[j] = "COMPLETED" => status[j] = "COMPLETED") /\ msg'[j] = msg[j]
    BY <2>6 DEF MarkProcessing, ReportFailure, UpdateJobStatus
  <2>7. ASSUME NEW i \in Jobs, CreateJob(i) \/ SendMessage(i) \/ Expire(i)
        PROVE  /\ status'[j] = "COMPLETED" => status[j] = "COMPLETED"
               /\ msg'[j] = "deleted" => msg[j] = "deleted"
    BY <2>7 DEF CreateJob, SendMessage, Expire
  <2>8. ASSUME NEW w \in Workers, Receive(w)
        PROVE  /\ status'[j] = status[j]
               /\ msg'[j] = "deleted" => msg[j] = "deleted"
    BY <2>8 DEF Receive
  <2>9. ASSUME NEW w \in Workers, ReadJob(w) \/ Importing(w) \/ ImportFails(w) \/ StoreError(w) \/ Crash(w)
        PROVE  UNCHANGED <<status, msg>>
    BY <2>9 DEF ReadJob, Importing, ImportFails, StoreError, Crash
  <2>10. CASE UNCHANGED asyncVars
    BY <1>4, <2>1, <2>10 DEF asyncVars
  <2> QED
    BY <1>4, <2>1, <2>2, <2>3, <2>4, <2>5, <2>6, <2>7, <2>8, <2>9, <2>10 DEF AsyncNext, WorkerStep
<1>5. ASSUME NEW v \in Workers, batch'[v] # <<>>, stage'[v] = "delete"
      PROVE  \E j \in Jobs : JobOf(v)' = j /\ Succeeded(j)'
  <2>1. CASE batch'[v] = batch[v] /\ stage'[v] = stage[v]
    BY <1>1, <1>2, <1>5, <2>1 DEF SuccessBehind, Busy, JobOf, Current
  <2>2. CASE Complete(v)
    BY <1>2, <1>3, <2>2 DEF Complete, GoTo, JobOf, Current
  <2>3. CASE ReadJob(v)
    <3>1. status[JobOf(v)] = "COMPLETED"
        BY <1>5, <2>3 DEF ReadJob, GoTo
    <3> QED
        BY <1>1, <1>2, <2>3, <3>1 DEF ReadJob, GoTo, SuccessBehind, JobOf, Current
  <2>4. ASSUME NEW j \in Jobs, CreateJob(j) \/ SendMessage(j) \/ Expire(j)
        PROVE  UNCHANGED <<batch, stage>>
    BY <2>4 DEF CreateJob, SendMessage, Expire
  <2>5. ASSUME NEW w \in Workers, w # v, WorkerStep(w) \/ ImportFails(w) \/ StoreError(w) \/ Crash(w)
        PROVE  batch'[v] = batch[v] /\ stage'[v] = stage[v]
    BY <2>5 DEF WorkerStep, Receive, ReadJob, MarkProcessing, Importing, Complete, ReportFailure,
                Delete, ImportFails, StoreError, Crash, NextMessage, GoTo
  <2>6. ~Receive(v)
    BY <1>5 DEF Receive, StageMatchesStatus
  <2>7. CASE ReportFailure(v) \/ Delete(v) \/ StoreError(v) \/ Crash(v) \/ MarkProcessing(v)
    BY <1>5, <2>7 DEF ReportFailure, Delete, StoreError, Crash, MarkProcessing, NextMessage, GoTo
  <2>8. CASE Importing(v) \/ ImportFails(v)
    BY <2>1, <2>8 DEF Importing, ImportFails
  <2>9. CASE UNCHANGED asyncVars
    BY <2>1, <2>9 DEF asyncVars
  <2> QED
    BY <2>1, <2>2, <2>3, <2>4, <2>5, <2>6, <2>7, <2>8, <2>9 DEF AsyncNext, WorkerStep
<1> QED
    BY <1>4, <1>5 DEF SuccessBehind, Busy, JobOf, Current, Succeeded

LEMMA AsyncNextIInv ==
    ASSUME AsyncIInv, [AsyncNext]_asyncVars
    PROVE  AsyncIInv'
BY QueueNext, SuccessNext DEF AsyncIInv

\* The inductive invariant of the queue holds in every reachable state.
THEOREM AsyncInvariance == AsyncSpec => []AsyncIInv
<1>1. AsyncIInv /\ [AsyncNext]_asyncVars => AsyncIInv'
    BY AsyncNextIInv
<1> QED
    BY <1>1, AsyncInitIInv, PTL DEF AsyncSpec

\* A message is deleted only after a delivery of its job succeeded, and of a job
\* that is not overrun only when it says COMPLETED.
THEOREM DeletedOnlyWhenCompleted == AsyncSpec => []DeletedMeansCompleted
<1>1. AsyncIInv => DeletedMeansCompleted
    BY DEF AsyncIInv, QueueIInv, SuccessBehind, DeletedIsCompleted, DeletedMeansCompleted
<1> QED
    BY <1>1, AsyncInvariance, PTL

\* A completed job that is not overrun keeps its count.
LEMMA CompletedStays ==
    ASSUME AsyncIInv, [AsyncNext]_asyncVars, NEW j \in Jobs \ overrun, status[j] = "COMPLETED"
    PROVE  status'[j] = "COMPLETED" /\ inserted'[j] = inserted[j]
<1> USE DEF AsyncIInv, QueueIInv, AsyncTyped, AsyncTypeOK
<1>1. ASSUME NEW i \in Jobs, CreateJob(i)
      PROVE  status'[j] = "COMPLETED" /\ inserted'[j] = inserted[j]
    BY <1>1 DEF CreateJob, DeliveredWasSent, NotSent
<1>2. ASSUME NEW w \in Workers, MarkProcessing(w) \/ Complete(w) \/ ReportFailure(w)
      PROVE  status'[j] = "COMPLETED" /\ inserted'[j] = inserted[j]
  <2>1. JobOf(w) # j
    BY <1>2 DEF MarkProcessing, Complete, ReportFailure, StageMatchesStatus
  <2> QED
    BY <1>2, <2>1 DEF MarkProcessing, Complete, ReportFailure, UpdateJobStatus
<1>3. CASE UNCHANGED asyncVars
    BY <1>3 DEF asyncVars
<1> QED
    BY <1>1, <1>2, <1>3 DEF AsyncNext, WorkerStep, SendMessage, Expire, Receive, ReadJob, Importing,
                            ImportFails, StoreError, Delete, Crash

\* A completed job that is not overrun stays so, with the count first reported.
THEOREM CompletedForGood == AsyncSpec => CompletedIsFinal
<1> DEFINE A == \A j \in Jobs \ overrun : status[j] = "COMPLETED" =>
                    status'[j] = "COMPLETED" /\ inserted'[j] = inserted[j]
<1>1. AsyncIInv /\ [AsyncNext]_asyncVars => [A]_asyncVars
    BY CompletedStays
<1> QED
    BY <1>1, AsyncInvariance, PTL DEF AsyncSpec, CompletedIsFinal
-----------------------------------------------------------------------------
(***************************************************************************)
(* The pipeline implements JobQueue.                                       *)
(***************************************************************************)
\* A step of a worker is a delivery, a completion, an acknowledgement or nothing.
LEMMA WorkerStepPromised ==
    ASSUME AsyncIInv, NEW w \in Workers,
           WorkerStep(w) \/ ImportFails(w) \/ StoreError(w) \/ Crash(w)
    PROVE  [Queue!Next]_(Queue!vars)
<1> USE DEF AsyncIInv, QueueIInv, AsyncTyped, AsyncTypeOK
<1>1. Busy(w) => /\ JobOf(w) \in Jobs /\ receives[JobOf(w)] > 0
                 /\ JobOf(w) \in overrun \/ msg[JobOf(w)] = "inflight"
  <2> SUFFICES ASSUME Busy(w)
               PROVE  /\ JobOf(w) \in Jobs /\ receives[JobOf(w)] > 0
                      /\ JobOf(w) \in overrun \/ msg[JobOf(w)] = "inflight"
    OBVIOUS
  <2>1. Current(w)[2] <= receives[JobOf(w)]
    BY CurrentType DEF JobOf, DeliveredWasSent
  <2>2. JobOf(w) \in Jobs /\ Current(w)[2] \in 1 .. MaxReceive
    BY CurrentType
  <2>3. JobOf(w) \in overrun \/ msg[JobOf(w)] = "inflight"
    BY CurrentType DEF JobOf, HoldsCurrent
  <2> QED
    BY <2>1, <2>2, <2>3, LimitsAssumption
<1>2. CASE Receive(w)
  <2>1. PICK n \in 1 .. Batch : \E q \in [1 .. n -> {j \in Jobs : msg[j] = "visible"}] :
          LET taken == {q[i] : i \in 1 .. n}
          IN  /\ msg' = [j \in Jobs |-> IF j \in taken THEN "inflight" ELSE msg[j]]
              /\ receives' = [j \in Jobs |-> IF j \in taken THEN receives[j] + 1 ELSE receives[j]]
    BY <1>2 DEF Receive
  <2>2. PICK q \in [1 .. n -> {j \in Jobs : msg[j] = "visible"}] :
          LET taken == {q[i] : i \in 1 .. n}
          IN  /\ msg' = [j \in Jobs |-> IF j \in taken THEN "inflight" ELSE msg[j]]
              /\ receives' = [j \in Jobs |-> IF j \in taken THEN receives[j] + 1 ELSE receives[j]]
    BY <2>1
  <2> DEFINE taken == {q[i] : i \in 1 .. n}
  <2>3. taken \in SUBSET Jobs /\ \A j \in taken : msg[j] = "visible" /\ receives[j] < MaxReceive
    BY <2>2 DEF DeliveriesLeft
  <2>4. Queue!Deliver(taken)
    BY <1>2, <2>2, <2>3 DEF Receive, Queue!Deliver
  <2> QED
    BY <2>3, <2>4 DEF Queue!Next
<1>3. CASE Complete(w)
  <2>1. PICK j \in Jobs : j = JobOf(w)
    BY <1>1, <1>3 DEF Complete
  <2>2. Queue!Complete(j)
    BY <1>1, <1>3, <2>1 DEF Complete, UpdateJobStatus, Queue!Complete
  <2> QED
    BY <2>2 DEF Queue!Next
<1>4. CASE Delete(w)
  <2>1. CASE UNCHANGED msg
    BY <1>4, <2>1 DEF Delete, Queue!vars
  <2>2. CASE /\ msg[JobOf(w)] \in {"visible", "inflight"}
             /\ msg' = [msg EXCEPT ![JobOf(w)] = "deleted"]
    <3>1. PICK j \in Jobs : j = JobOf(w)
        BY <1>1, <1>4 DEF Delete
    <3>2. status[j] = "COMPLETED" \/ j \in overrun
        BY <1>4, <3>1 DEF Delete, StageMatchesStatus
    <3>3. Queue!Ack(j)
        BY <1>4, <2>2, <3>1, <3>2 DEF Delete, Queue!Ack, Queue!Move
    <3> QED
        BY <3>3 DEF Queue!Next
  <2> QED
    BY <1>4, <2>1, <2>2 DEF Delete
<1>5. CASE MarkProcessing(w) \/ ReportFailure(w)
  <2>1. UNCHANGED <<msg, receives, overrun>> /\ Busy(w)
    BY <1>5 DEF MarkProcessing, ReportFailure
  <2>2. PICK j \in Jobs : j = JobOf(w)
    BY <1>1, <2>1
  <2>3. CASE status[j] = "COMPLETED" /\ ~UNCHANGED status
    <3>1. j \in overrun
        BY <1>5, <2>2, <2>3 DEF MarkProcessing, ReportFailure, StageMatchesStatus
    <3>2. PICK s \in {"PROCESSING", "FAILED"} : status' = [status EXCEPT ![j] = s]
        BY <1>5, <2>2, <2>3 DEF MarkProcessing, ReportFailure, UpdateJobStatus
    <3>3. Queue!Redo(j)
        BY <2>1, <3>1, <3>2 DEF Queue!Redo
    <3> QED
        BY <3>3 DEF Queue!Next
  <2>4. CASE ~(status[j] = "COMPLETED" /\ ~UNCHANGED status)
    <3>1. \A i \in Jobs : status'[i] = "COMPLETED" <=> status[i] = "COMPLETED"
        BY <1>5, <2>2, <2>4 DEF MarkProcessing, ReportFailure, UpdateJobStatus
    <3> QED
        BY <2>1, <3>1 DEF Queue!vars
  <2> QED
    BY <2>3, <2>4
<1>6. CASE ReadJob(w) \/ Importing(w) \/ ImportFails(w) \/ StoreError(w) \/ Crash(w)
    BY <1>6 DEF ReadJob, Importing, ImportFails, StoreError, Crash, Queue!vars
<1> QED
    BY <1>2, <1>3, <1>4, <1>5, <1>6 DEF WorkerStep

LEMMA JobStepPromised ==
    ASSUME AsyncIInv, NEW j \in Jobs, CreateJob(j) \/ SendMessage(j) \/ Expire(j)
    PROVE  [Queue!Next]_(Queue!vars)
<1> USE DEF AsyncIInv, QueueIInv, AsyncTyped, AsyncTypeOK
<1>1. CASE CreateJob(j)
  <2>1. Queue!Create(j)
    BY <1>1 DEF CreateJob, DeliveredWasSent, NotSent, Queue!Create, Queue!Move
  <2> QED
    BY <2>1 DEF Queue!Next
<1>2. CASE SendMessage(j)
  <2>1. CASE msg' = [msg EXCEPT ![j] = "visible"]
    <3>1. Queue!Publish(j)
        BY <1>2, <2>1 DEF SendMessage, Queue!Publish, Queue!Move
    <3> QED
        BY <3>1 DEF Queue!Next
  <2>2. CASE msg' = [msg EXCEPT ![j] = "lost"]
    <3>1. Queue!Lose(j)
        BY <1>2, <2>2 DEF SendMessage, Queue!Lose, Queue!Move
    <3> QED
        BY <3>1 DEF Queue!Next
  <2> QED
    BY <1>2, <2>1, <2>2 DEF SendMessage
<1>3. CASE Expire(j)
  <2>1. overrun' \in {overrun, overrun \cup {j}} /\ UNCHANGED <<receives, status>>
    BY <1>3 DEF Expire
  <2>2. CASE receives[j] < MaxReceive
    <3>1. msg[j] = "inflight" /\ msg' = [msg EXCEPT ![j] = "visible"]
        BY <1>3, <2>2 DEF Expire
    <3>2. CASE overrun' = overrun
        BY <2>1, <3>1, <3>2 DEF Queue!vars
    <3>3. CASE overrun' # overrun
        <4>1. PICK w \in Workers : Holds(w, <<j, receives[j]>>)
            BY <1>3, <3>3 DEF Expire
        <4>2. <<j, receives[j]>> \in Jobs \X (1 .. MaxReceive)
            BY <4>1, CallsAssumption DEF Holds
        <4>3. Queue!Overrun(j)
            BY <2>1, <3>1, <3>3, <4>2, LimitsAssumption DEF Queue!Overrun
        <4> QED
            BY <4>3 DEF Queue!Next
    <3> QED
        BY <3>2, <3>3
  <2>3. CASE ~(receives[j] < MaxReceive)
    <3>1. receives[j] = MaxReceive
        BY <2>3, LimitsAssumption
    <3>2. msg[j] = "inflight" /\ msg' = [msg EXCEPT ![j] = "dlq"]
        BY <1>3, <2>3 DEF Expire
    <3>3. Queue!Bury(j)
        BY <2>1, <3>1, <3>2 DEF Queue!Bury, Queue!Move
    <3> QED
        BY <3>3 DEF Queue!Next
  <2> QED
    BY <2>2, <2>3
<1> QED
    BY <1>1, <1>2, <1>3

\* The workers, the queue and the job table together keep JobQueue's promise.
THEOREM PromiseKept == AsyncSpec => KeepsPromise
<1>1. AsyncInit => Queue!Init
    BY DEF AsyncInit, Queue!Init
<1>2. AsyncIInv /\ [AsyncNext]_asyncVars => [Queue!Next]_(Queue!vars)
  <2> SUFFICES ASSUME AsyncIInv, [AsyncNext]_asyncVars PROVE [Queue!Next]_(Queue!vars)
    OBVIOUS
  <2>1. CASE UNCHANGED asyncVars
    BY <2>1 DEF asyncVars, Queue!vars
  <2> QED
    BY <2>1, WorkerStepPromised, JobStepPromised DEF AsyncNext
<1> QED
    BY <1>1, <1>2, AsyncInvariance, PTL DEF AsyncSpec, KeepsPromise, Queue!Spec
-----------------------------------------------------------------------------
(***************************************************************************)
(* What becomes of a job's rows.  A redelivered job imports nothing twice: *)
(* its deliveries take turns, because a worker holds the last delivery     *)
(* alone until the job is overrun, and Import keeps two calls that take    *)
(* turns from storing the same purchase, or recording the same content.    *)
(* What completes a job, overrun or not, is on record.                     *)
(***************************************************************************)
\* The active calls are not idle and have not ended.
LEMMA Stages ==
    /\ \A c \in Calls : pc[c] \in Active => pc[c] # "idle" /\ pc[c] \notin Ended
    /\ TypeOK => \A c \in Calls : pc[c] = "idle" \/ pc[c] \in Active \/ pc[c] \in Ended
BY DEF Active, Ended, TypeOK

\* What a step does to the calls: a worker begins the import of the message at
\* hand, goes on with it, or lets it be.
LEMMA CallStep ==
    ASSUME AsyncTypeOK, [AsyncNext]_asyncVars
    PROVE  \/ \E w \in Workers : MarkProcessing(w)
           \/ \E w \in Workers : /\ Busy(w)
                                 /\ Step(Current(w)) \/ Fail(Current(w))
           \/ UNCHANGED vars
<1>1. CASE UNCHANGED asyncVars
    BY <1>1 DEF asyncVars
<1>2. CASE \E j \in Jobs : CreateJob(j) \/ SendMessage(j) \/ Expire(j)
    BY <1>2 DEF CreateJob, SendMessage, Expire
<1>3. ASSUME NEW w \in Workers, WorkerStep(w) \/ ImportFails(w) \/ StoreError(w) \/ Crash(w)
      PROVE  \/ MarkProcessing(w)
             \/ Busy(w) /\ (Step(Current(w)) \/ Fail(Current(w)))
             \/ UNCHANGED vars
  <2>1. CASE Receive(w) \/ ReadJob(w) \/ Complete(w) \/ ReportFailure(w) \/ Delete(w) \/ StoreError(w)
    BY <2>1 DEF Receive, ReadJob, Complete, ReportFailure, Delete, StoreError
  <2>2. CASE Importing(w) \/ ImportFails(w) \/ Crash(w)
    BY <2>2 DEF Importing, ImportFails, Crash
  <2> QED
    BY <1>3, <2>1, <2>2 DEF WorkerStep
<1> QED
    BY <1>1, <1>2, <1>3 DEF AsyncNext

\* A step of Import moves the call whose step it is, from active, and begins none.
LEMMA StepMovesOne ==
    ASSUME TypeOK, NEW c \in Calls, Step(c) \/ Fail(c)
    PROVE  /\ pc[c] \in Active
           /\ pc'[c] # "idle"
           /\ \A d \in Calls : d # c => pc'[d] = pc[d]
           /\ UNCHANGED <<before, force>>
<1> USE DEF TypeOK, Active, storeVars, histVars
<1>1. CASE CheckFile(c)
    BY <1>1 DEF CheckFile, Proceed, End
<1>2. CASE DeleteByFile(c)
    BY <1>2 DEF DeleteByFile, Proceed
<1>3. CASE PartitionRow(c) \/ SaveFile(c) \/ AddRow(c)
    BY <1>3 DEF PartitionRow, SaveFile, AddRow
<1>4. CASE Finish(c) \/ Fail(c)
    BY <1>4 DEF Finish, Fail, End
<1> QED
    BY <1>1, <1>2, <1>3, <1>4 DEF Step

\* The deletion of an old upload needs ?force=replace, which no worker gives.
LEMMA NothingRemovedNext ==
    ASSUME IInv, AsyncTypeOK, NothingRemoved, [AsyncNext]_asyncVars
    PROVE  NothingRemoved'
<1> USE DEF NothingRemoved, TypeOK, IInv
<1>1. ASSUME NEW w \in Workers, MarkProcessing(w) PROVE NothingRemoved'
  <2>1. Begin(Current(w), Content[JobOf(w)], "none") /\ Current(w) \in Calls
    BY <1>1, CurrentType DEF MarkProcessing
  <2> QED
    BY <2>1 DEF Begin, storeVars
<1>2. ASSUME NEW w \in Workers, Busy(w), Step(Current(w)) \/ Fail(Current(w))
      PROVE  NothingRemoved'
  <2>1. PICK c \in Calls : c = Current(w)
    BY <1>2, CurrentType
  <2>2. UNCHANGED force
    BY <1>2, <2>1, StepMovesOne
  <2>3. ~DeleteByFile(c)
    BY DEF DeleteByFile, Replacing
  <2>4. txns' = ever'
    BY <1>2, <2>1, <2>3 DEF Step, CheckFile, PartitionRow, SaveFile, AddRow, Finish, Fail,
                             storeVars, histVars
  <2> QED
    BY <2>2, <2>4
<1>3. CASE UNCHANGED vars
    BY <1>3 DEF vars, callVars, storeVars, histVars
<1> QED
    BY <1>1, <1>2, <1>3, CallStep

\* A delivery begins after those before it ended, and before those after it.
LEMMA MarkInTurn ==
    ASSUME TypeOK, TypeOK', AsyncIInv, InTurn, NEW w \in Workers, MarkProcessing(w)
    PROVE  InTurn'
<1> DEFINE c == Current(w)
<1>1. /\ c \in Calls /\ c[2] <= receives[c[1]] /\ Busy(w)
      /\ c[1] \notin overrun => c[2] = receives[c[1]]
      /\ c \in Jobs \X (1 .. MaxReceive)
      /\ Begin(c, Content[JobOf(w)], "none")
      /\ UNCHANGED <<receives, batch, overrun>> /\ stage' = [stage EXCEPT ![w] = "import"]
      /\ stage[w] = "mark"
    BY CurrentType, CallsAssumption
       DEF MarkProcessing, GoTo, AsyncIInv, QueueIInv, AsyncTyped, HoldsCurrent, DeliveredWasSent
<1>2. /\ pc[c] = "idle" /\ pc' = [pc EXCEPT ![c] = "check"]
      /\ before' = [before EXCEPT ![c] = {d \in Calls : pc[d] \in Ended}]
    BY <1>1 DEF Begin
<1> HIDE DEF c
<1>3. \A d \in Calls : d # c => pc'[d] = pc[d] /\ before'[d] = before[d]
    BY <1>1, <1>2 DEF TypeOK
<1>4. pc'[c] = "check" /\ before'[c] = {d \in Calls : pc[d] \in Ended}
    BY <1>1, <1>2 DEF TypeOK
<1>5. \A d \in Calls : d[2] > receives'[d[1]] => pc'[d] = "idle"
  <2> TAKE d \in Calls
  <2>1. d = c => ~(d[2] > receives[d[1]])
    BY <1>1, LimitsAssumption DEF AsyncIInv, QueueIInv, AsyncTyped, AsyncTypeOK
  <2> QED
    BY <1>1, <1>3, <2>1 DEF InTurn
<1>6. \A d \in Calls : pc'[d] \in Active =>
          \E v \in Workers : Busy(v)' /\ stage'[v] = "import" /\ Current(v)' = d
  <2> SUFFICES ASSUME NEW d \in Calls, pc'[d] \in Active
               PROVE  \E v \in Workers : Busy(v)' /\ stage'[v] = "import" /\ Current(v)' = d
    OBVIOUS
  <2>1. CASE d = c
    <3>1. Busy(w)' /\ stage'[w] = "import" /\ Current(w)' = c
        BY <1>1 DEF c, Busy, Current, AsyncIInv, QueueIInv, AsyncTyped, AsyncTypeOK
    <3> QED
        BY <2>1, <3>1
  <2>2. CASE d # c
    <3>1. PICK v \in Workers : Busy(v) /\ stage[v] = "import" /\ Current(v) = d
        BY <1>3, <2>2 DEF InTurn
    <3>2. Busy(v)' /\ stage'[v] = "import" /\ Current(v)' = d
        BY <1>1, <3>1 DEF Busy, Current, AsyncIInv, QueueIInv, AsyncTyped, AsyncTypeOK
    <3> QED
        BY <3>2
  <2> QED
    BY <2>1, <2>2
<1>7. \A a, b \in Calls :
          a[1] = b[1] /\ a[1] \notin overrun' /\ a[2] < b[2] /\ pc'[a] # "idle" /\ pc'[b] # "idle"
          => a \in before'[b]
  <2> SUFFICES ASSUME NEW a \in Calls, NEW b \in Calls,
                      a[1] = b[1], a[1] \notin overrun, a[2] < b[2], pc'[a] # "idle", pc'[b] # "idle"
               PROVE  a \in before'[b]
    BY <1>1
  <2>1. CASE a = c
    <3>1. b[2] > receives[b[1]] /\ b # c
        BY <1>1, <2>1, CallsAssumption DEF AsyncIInv, QueueIInv, AsyncTyped, AsyncTypeOK
    <3> QED
        BY <1>3, <3>1 DEF InTurn
  <2>2. CASE b = c /\ a # c
    <3>1. pc[a] # "idle"
        BY <1>3, <2>2
    <3>2. ASSUME pc[a] \in Active PROVE FALSE
      <4>1. PICK v \in Workers : Busy(v) /\ Current(v) = a
        BY <3>2 DEF InTurn
      <4>2. a[2] = receives[a[1]]
        BY <4>1, CurrentType DEF AsyncIInv, QueueIInv, AsyncTyped, HoldsCurrent
      <4> QED
        BY <1>1, <2>2, <4>2, CallsAssumption DEF AsyncIInv, QueueIInv, AsyncTyped, AsyncTypeOK
    <3> QED
        BY <1>4, <2>2, <3>1, <3>2, Stages
  <2>3. CASE a # c /\ b # c
    BY <1>3, <2>3 DEF InTurn
  <2> QED
    BY <2>1, <2>2, <2>3
<1> QED
    BY <1>5, <1>6, <1>7 DEF InTurn

\* A step that begins no import: what it leaves of the calls, and who is at them.
LEMMA GoOnInTurn ==
    ASSUME TypeOK, TypeOK', AsyncTypeOK, AsyncTypeOK', InTurn,
           UNCHANGED before,
           \A d \in Calls : pc'[d] # pc[d] => pc[d] \in Active /\ pc'[d] # "idle",
           \A j \in Jobs : receives'[j] >= receives[j],
           overrun \subseteq overrun',
           \A w \in Workers : Busy(w) /\ stage[w] = "import" /\ pc'[Current(w)] \in Active
                => Busy(w)' /\ stage'[w] = "import" /\ Current(w)' = Current(w)
    PROVE  InTurn'
<1>1. \A d \in Calls : pc'[d] # "idle" <=> pc[d] # "idle"
    BY Stages
<1>2. \A d \in Calls : pc'[d] \in Active => pc[d] \in Active
    BY Stages
<1>3. \A d \in Calls : d[2] > receives'[d[1]] => pc'[d] = "idle"
  <2> SUFFICES ASSUME NEW d \in Calls, d[2] > receives'[d[1]] PROVE pc'[d] = "idle"
    OBVIOUS
  <2>1. d[1] \in Jobs /\ d[2] \in Nat
    BY CallsAssumption, LimitsAssumption
  <2>2. /\ receives[d[1]] \in Nat /\ receives'[d[1]] \in Nat
        /\ receives'[d[1]] >= receives[d[1]]
    BY <2>1, LimitsAssumption DEF AsyncTypeOK
  <2>3. d[2] > receives[d[1]]
    BY <2>1, <2>2
  <2> QED
    BY <1>1, <2>3 DEF InTurn
<1>4. \A d \in Calls : pc'[d] \in Active =>
          \E w \in Workers : Busy(w)' /\ stage'[w] = "import" /\ Current(w)' = d
    BY <1>2 DEF InTurn
<1>5. \A a, b \in Calls :
          a[1] = b[1] /\ a[1] \notin overrun' /\ a[2] < b[2] /\ pc'[a] # "idle" /\ pc'[b] # "idle"
          => a \in before'[b]
    BY <1>1 DEF InTurn
<1> QED
    BY <1>3, <1>4, <1>5 DEF InTurn

LEMMA NextInTurn ==
    ASSUME IInv, AsyncIInv, AsyncIInv', InTurn, [AsyncNext]_asyncVars
    PROVE  InTurn'
<1>1. TypeOK /\ TypeOK' /\ AsyncTypeOK /\ AsyncTypeOK'
    BY DEF IInv, AsyncIInv, QueueIInv, AsyncTyped, AsyncTypeOK
<1> DEFINE Stays(v) == Busy(v)' /\ stage'[v] = "import" /\ Current(v)' = Current(v)
<1>2. \A v \in Workers :
          Busy(v) /\ batch'[v] = batch[v] /\ stage[v] = "import" /\ stage'[v] = stage[v] => Stays(v)
    BY DEF Busy, Current
<1>0. overrun \subseteq overrun'
    BY DEF AsyncNext, WorkerStep, CreateJob, SendMessage, Expire, Receive, ReadJob, MarkProcessing,
        Importing, ImportFails, Complete, ReportFailure, StoreError, Delete, Crash, asyncVars
<1>3. ASSUME UNCHANGED vars, \A j \in Jobs : receives'[j] >= receives[j],
             \A v \in Workers : Busy(v) /\ stage[v] = "import" /\ pc[Current(v)] \in Active => Stays(v)
      PROVE  InTurn'
    BY <1>0, <1>1, <1>3, GoOnInTurn DEF vars, callVars, histVars
<1>4. \A j \in Jobs : receives[j] >= receives[j] /\ receives[j] + 1 >= receives[j]
    BY <1>1, LimitsAssumption DEF AsyncTypeOK
<1>5. CASE UNCHANGED asyncVars
    BY <1>2, <1>3, <1>4, <1>5 DEF asyncVars
<1>6. CASE \E j \in Jobs : CreateJob(j) \/ SendMessage(j) \/ Expire(j)
    BY <1>2, <1>3, <1>4, <1>6 DEF CreateJob, SendMessage, Expire
<1>7. ASSUME NEW w \in Workers, WorkerStep(w) \/ ImportFails(w) \/ StoreError(w) \/ Crash(w)
      PROVE  InTurn'
  <2>1. CASE Receive(w)
    <3>1. /\ ~Busy(w) /\ UNCHANGED <<vars, stage>>
          /\ \A v \in Workers : v # w => batch'[v] = batch[v]
          /\ \A j \in Jobs : receives'[j] = receives[j] \/ receives'[j] = receives[j] + 1
        BY <1>1, <2>1 DEF Receive, AsyncTypeOK
    <3> QED
        BY <1>2, <1>3, <1>4, <3>1
  <2>2. CASE MarkProcessing(w)
    BY <1>1, <2>2, MarkInTurn
  <2>3. CASE ReadJob(w) \/ Complete(w) \/ ReportFailure(w) \/ StoreError(w) \/ Delete(w)
    <3>1. /\ ~(stage[w] = "import" /\ pc[Current(w)] \in Active)
          /\ UNCHANGED <<vars, receives>>
          /\ \A v \in Workers : v # w => batch'[v] = batch[v] /\ stage'[v] = stage[v]
        BY <1>1, <2>3 DEF ReadJob, Complete, ReportFailure, StoreError, Delete, NextMessage,
                          GoTo, AsyncTypeOK, Active
    <3> QED
        BY <1>2, <1>3, <1>4, <3>1
  <2>4. ASSUME Step(Current(w)) \/ Fail(Current(w)), Busy(w), UNCHANGED receives,
               \A v \in Workers : v # w => batch'[v] = batch[v] /\ stage'[v] = stage[v],
               pc'[Current(w)] \in Active => batch'[w] = batch[w] /\ stage'[w] = stage[w]
        PROVE  InTurn'
    <3>1. PICK c \in Calls : c = Current(w)
        BY <1>1, <2>4, CurrentType
    <3>2. /\ UNCHANGED before
          /\ \A d \in Calls : pc'[d] # pc[d] => pc[d] \in Active /\ pc'[d] # "idle"
        BY <1>1, <2>4, <3>1, StepMovesOne
    <3> QED
        BY <1>0, <1>1, <1>2, <1>4, <2>4, <3>2, GoOnInTurn
  <2>5. CASE Importing(w) \/ ImportFails(w)
    BY <2>4, <2>5 DEF Importing, ImportFails
  <2>6. CASE Crash(w)
    <3>1. CASE pc[Current(w)] \in Active
      <4>1. PICK c \in Calls : c = Current(w)
        BY <1>1, <2>6, CurrentType DEF Crash
      <4>2. Fail(c) /\ pc'[c] = "failed"
        BY <1>1, <2>6, <3>1, <4>1 DEF Crash, Fail, End, TypeOK
      <4> QED
        BY <1>1, <2>4, <2>6, <4>1, <4>2 DEF Crash, Active, AsyncTypeOK
    <3>2. CASE pc[Current(w)] \notin Active
      <4>1. UNCHANGED <<vars, receives>>
            /\ \A v \in Workers : v # w => batch'[v] = batch[v] /\ stage'[v] = stage[v]
        BY <1>1, <2>6, <3>2 DEF Crash, AsyncTypeOK
      <4> QED
        BY <1>2, <1>3, <1>4, <3>2, <4>1
    <3> QED
        BY <3>1, <3>2
  <2> QED
    BY <1>7, <2>1, <2>2, <2>3, <2>5, <2>6 DEF WorkerStep
<1> QED
    BY <1>5, <1>6, <1>7 DEF AsyncNext
-----------------------------------------------------------------------------
\* The deliveries of every job that is not overrun take turns.
THEOREM TurnInvariance == AsyncSpec => []TurnIInv
<1>1. AsyncInit => TurnIInv
  <2> SUFFICES ASSUME AsyncInit PROVE TurnIInv
    OBVIOUS
  <2>1. IInv /\ AsyncIInv
    BY InitIInv, AsyncInitIInv DEF AsyncInit
  <2>2. NothingRemoved /\ InTurn
    BY DEF AsyncInit, Init, NothingRemoved, InTurn, Active
  <2> QED
    BY <2>1, <2>2 DEF TurnIInv
<1>2. TurnIInv /\ [AsyncNext]_asyncVars => TurnIInv'
  <2> SUFFICES ASSUME TurnIInv, [AsyncNext]_asyncVars PROVE TurnIInv'
    OBVIOUS
  <2>1. AsyncTypeOK
    BY DEF TurnIInv, AsyncIInv, QueueIInv, AsyncTyped
  <2>2. IInv'
    BY <2>1, AsyncStepIsImportStep, NextIInv DEF TurnIInv
  <2>3. AsyncIInv'
    BY AsyncNextIInv DEF TurnIInv
  <2>4. NothingRemoved'
    BY <2>1, NothingRemovedNext DEF TurnIInv
  <2>5. InTurn'
    BY <2>3, NextInTurn DEF TurnIInv
  <2> QED
    BY <2>2, <2>3, <2>4, <2>5 DEF TurnIInv
<1> QED
    BY <1>1, <1>2, PTL DEF AsyncSpec

\* No double-import on redelivery: two rows stored by deliveries of one job are
\* never the same purchase, unless the job is overrun.
THEOREM RedeliveryNeverDoubles == AsyncSpec => []NoDoubleOnRedelivery
<1>1. TurnIInv => NoDoubleOnRedelivery
  <2> SUFFICES ASSUME TurnIInv, NEW t \in ever, NEW u \in ever,
                      t[1][1] = u[1][1], t # u, t[1][1] \notin overrun
               PROVE  ~Same(RowOf(t), RowOf(u))
    BY DEF NoDoubleOnRedelivery
  <2> USE DEF TurnIInv
  <2>1. /\ t[1] \in Calls /\ u[1] \in Calls
        /\ pc[t[1]] # "idle" /\ pc[u[1]] # "idle"
        /\ RowOf(t) \in Row /\ RowOf(u) \in Row
    <3>1. \A r \in ever : r[1] \in Calls /\ Recorded(r[1]) /\ r[2] \in RowNos(r[1])
        BY DEF IInv, EverRecorded, TypeOK
    <3>2. \A r \in ever : pc[r[1]] # "idle"
        BY <3>1 DEF IInv, RecordedCalls
    <3> QED
        BY <3>1, <3>2, RowAtType DEF IInv, RowOf
  <2>2. CASE t[1] = u[1]
    BY <2>2 DEF IInv, NoDoubleWithinCall
  <2>3. CASE t[1] # u[1]
    <3>1. t[1][2] \in Int /\ u[1][2] \in Int /\ t[1][2] # u[1][2]
        BY <2>1, <2>3, CallsAssumption, LimitsAssumption
    <3>2. t[1] \in before[u[1]] \/ u[1] \in before[t[1]]
        BY <2>1, <3>1 DEF InTurn
    <3>3. t \in txns /\ u \in txns
        BY DEF NothingRemoved
    <3> QED
        BY <2>1, <3>2, <3>3, SameSymmetric DEF IInv, SequentialCallsNeverDouble
  <2> QED
    BY <2>2, <2>3
<1> QED
    BY <1>1, TurnInvariance, PTL
-----------------------------------------------------------------------------
(***************************************************************************)
(* What a completed job stands for, overrun or not.                        *)
(***************************************************************************)
\* Records and duplicates stay; a duplicate has found a record.
LEMMA ImportOnlyAdds ==
    ASSUME TypeOK, RecordedCalls, [Next]_vars
    PROVE  \A c \in Calls :
             /\ Recorded(c) => Recorded(c)'
             /\ pc[c] # "idle" => pc'[c] # "idle" /\ file'[c] = file[c]
             /\ pc[c] = "duplicate" => pc'[c] = "duplicate"
             /\ pc'[c] = "duplicate" => pc[c] = "duplicate" \/ (pc[c] = "check" /\ OnRecord(file[c]))
<1> USE DEF TypeOK, callVars, storeVars, histVars, Active
<1> DEFINE Adds(c) ==
             /\ Recorded(c) => Recorded(c)'
             /\ pc[c] # "idle" => pc'[c] # "idle" /\ file'[c] = file[c]
             /\ pc[c] = "duplicate" => pc'[c] = "duplicate"
             /\ pc'[c] = "duplicate" => pc[c] = "duplicate" \/ (pc[c] = "check" /\ OnRecord(file[c]))
<1>1. CASE \E c \in Calls, f \in Files, fo \in Forces : Begin(c, f, fo)
    BY <1>1 DEF Begin, Recorded
<1>2. ASSUME NEW d \in Calls, CheckFile(d) PROVE \A c \in Calls : Adds(c)
  <2>1. RecordsOf(file[d]) # {} => OnRecord(file[d])
    BY DEF RecordsOf, OnRecord, Recorded
  <2> QED
    BY <1>2, <2>1 DEF CheckFile, Proceed, End, Recorded
<1>3. CASE \E d \in Calls : DeleteByFile(d) \/ PartitionRow(d)
    BY <1>3 DEF DeleteByFile, PartitionRow, Proceed, Recorded
<1>4. ASSUME NEW d \in Calls, SaveFile(d) PROVE \A c \in Calls : Adds(c)
  <2>1. \A c \in Calls : Recorded(c) => Recorded(c)'
    <3>1. /\ Len(uploads) \in Nat /\ DOMAIN uploads = 1 .. Len(uploads)
          /\ uploads' = Append(uploads, d)
          /\ \A i \in DOMAIN uploads : i \in DOMAIN uploads' /\ uploads'[i] = uploads[i]
        BY <1>4 DEF SaveFile
    <3> QED
        BY <3>1 DEF Recorded
  <2> QED
    BY <1>4, <2>1 DEF SaveFile
<1>5. CASE \E d \in Calls : AddRow(d)
    BY <1>5 DEF AddRow, Recorded
<1>6. CASE \E d \in Calls : Finish(d) \/ Fail(d)
    BY <1>6 DEF Finish, Fail, End, Recorded
<1>7. CASE ClearTransactions \/ (\E t \in txns : DeleteTransaction(t)) \/ UNCHANGED vars
    BY <1>7 DEF ClearTransactions, DeleteTransaction, vars, Recorded
<1> QED
    BY <1>1, <1>2, <1>3, <1>4, <1>5, <1>6, <1>7 DEF Next, Step

LEMMA OnRecordStays ==
    ASSUME TypeOK, RecordedCalls, [Next]_vars, NEW f, OnRecord(f)
    PROVE  OnRecord(f)'
<1>1. PICK c \in Calls : Recorded(c) /\ file[c] = f
    BY DEF OnRecord
<1>2. pc[c] # "idle"
    BY <1>1 DEF RecordedCalls
<1> QED
    BY <1>1, <1>2, ImportOnlyAdds DEF OnRecord

\* What is written to the row of a job, and when.
LEMMA JobRowWrites ==
    ASSUME AsyncTyped, [AsyncNext]_asyncVars, NEW j \in Jobs
    PROVE  \/ /\ status'[j] = "COMPLETED" => status[j] = "COMPLETED"
              /\ inserted'[j] = inserted[j] \/ inserted'[j] = 0
           \/ \E w \in Workers : Complete(w) /\ JobOf(w) = j
<1> USE DEF AsyncTyped, AsyncTypeOK
<1>1. ASSUME NEW i \in Jobs, CreateJob(i) \/ SendMessage(i) \/ Expire(i)
      PROVE  (status'[j] = "COMPLETED" => status[j] = "COMPLETED") /\ inserted'[j] = inserted[j]
    BY <1>1 DEF CreateJob, SendMessage, Expire
<1>2. ASSUME NEW w \in Workers, MarkProcessing(w) \/ ReportFailure(w)
      PROVE  /\ status'[j] = "COMPLETED" => status[j] = "COMPLETED"
             /\ inserted'[j] = inserted[j] \/ inserted'[j] = 0
  <2>1. UNCHANGED <<status, inserted>> \/ \E s \in {"PROCESSING", "FAILED"} : UpdateJobStatus(JobOf(w), s, 0)
    BY <1>2 DEF MarkProcessing, ReportFailure
  <2> QED
    BY <2>1 DEF UpdateJobStatus
<1>3. ASSUME NEW w \in Workers, Complete(w)
      PROVE  JobOf(w) = j \/ (status'[j] = status[j] /\ inserted'[j] = inserted[j])
    BY <1>3 DEF Complete, UpdateJobStatus
<1>4. ASSUME NEW w \in Workers, \/ Receive(w) \/ ReadJob(w) \/ Importing(w) \/ ImportFails(w)
                                \/ StoreError(w) \/ Delete(w) \/ Crash(w)
      PROVE  UNCHANGED <<status, inserted>>
    BY <1>4 DEF Receive, ReadJob, Importing, ImportFails, StoreError, Delete, Crash
<1>5. CASE UNCHANGED asyncVars
    BY <1>5 DEF asyncVars
<1> QED
    BY <1>1, <1>2, <1>3, <1>4, <1>5 DEF AsyncNext, WorkerStep

LEMMA NextOutcome ==
    ASSUME OutcomeIInv, [AsyncNext]_asyncVars
    PROVE  OutcomeIInv'
<1>1. TypeOK /\ AsyncTypeOK /\ RecordedCalls /\ [Next]_vars
    BY AsyncStepIsImportStep DEF OutcomeIInv, IInv, AsyncTyped
<1>2. IInv' /\ AsyncTyped'
    BY <1>1, NextIInv, AsyncNextTyped DEF OutcomeIInv
<1>3. OfItsJob'
  <2> SUFFICES ASSUME NEW c \in Calls, pc'[c] # "idle" PROVE file'[c] = Content[c[1]]
    BY DEF OfItsJob
  <2>1. CASE pc[c] # "idle"
    BY <1>1, <2>1, ImportOnlyAdds DEF OutcomeIInv, OfItsJob
  <2>2. CASE pc[c] = "idle"
    <3>1. ASSUME NEW w \in Workers, MarkProcessing(w) PROVE file'[c] = Content[c[1]]
      <4>1. Begin(Current(w), Content[JobOf(w)], "none") /\ Busy(w)
        BY <3>1 DEF MarkProcessing
      <4>2. c = Current(w)
        BY <1>1, <2>2, <4>1 DEF Begin, TypeOK
      <4> QED
        BY <1>1, <4>1, <4>2, CurrentType DEF Begin, TypeOK, JobOf
    <3>2. ASSUME NEW w \in Workers, Busy(w), Step(Current(w)) \/ Fail(Current(w)) PROVE FALSE
      <4>1. PICK d \in Calls : d = Current(w)
        BY <1>1, <3>2, CurrentType
      <4>2. pc[d] \in Active /\ \A e \in Calls : e # d => pc'[e] = pc[e]
        BY <1>1, <3>2, <4>1, StepMovesOne
      <4> QED
        BY <2>2, <4>2, Stages
    <3>3. ~UNCHANGED vars
        BY <2>2 DEF vars, callVars
    <3> QED
        BY <1>1, <3>1, <3>2, <3>3, CallStep
  <2> QED
    BY <2>1, <2>2
<1>4. DuplicateOnRecord'
  <2> SUFFICES ASSUME NEW c \in Calls, pc'[c] = "duplicate" PROVE OnRecord(file[c])' 
    BY DEF DuplicateOnRecord
  <2>1. OnRecord(file[c]) /\ file'[c] = file[c]
    BY <1>1, ImportOnlyAdds DEF OutcomeIInv, DuplicateOnRecord
  <2>2. PICK f : f = file[c]
    OBVIOUS
  <2>3. OnRecord(f)'
    BY <1>1, <2>1, <2>2, OnRecordStays
  <2> QED
    BY <2>1, <2>2, <2>3 DEF OnRecord
<1>5. CompletedOnRecord'
  <2> SUFFICES ASSUME NEW j \in Jobs, status'[j] = "COMPLETED" PROVE OnRecord(Content[j])'
    BY DEF CompletedOnRecord, OnRecord, Recorded
  <2>1. OnRecord(Content[j])
    <3>1. CASE status[j] = "COMPLETED"
        BY <3>1 DEF OutcomeIInv, CompletedOnRecord
    <3>2. CASE \E w \in Workers : Complete(w) /\ JobOf(w) = j
      <4>1. PICK w \in Workers : Complete(w) /\ JobOf(w) = j
        BY <3>2
      <4>2. PICK c \in Calls : c = Current(w) /\ c[1] = j
        BY <1>1, <4>1, CurrentType DEF Complete, JobOf
      <4>3. pc[c] \in {"done", "duplicate"} /\ file[c] = Content[j]
        BY <4>1, <4>2 DEF Complete, OutcomeIInv, OfItsJob
      <4> QED
        BY <1>1, <4>3 DEF OutcomeIInv, DuplicateOnRecord, RecordedCalls, OnRecord
    <3> QED
        BY <3>1, <3>2, JobRowWrites DEF OutcomeIInv
  <2> QED
    BY <1>1, <2>1, OnRecordStays
<1> QED
    BY <1>2, <1>3, <1>4, <1>5 DEF OutcomeIInv

\* What is completed is on record, overrun or not.
THEOREM OutcomeInvariance == AsyncSpec => []OutcomeIInv
<1>1. AsyncInit => OutcomeIInv
  <2> SUFFICES ASSUME AsyncInit PROVE OutcomeIInv
    OBVIOUS
  <2>1. IInv /\ AsyncTyped
    BY InitIInv, AsyncInitIInv DEF AsyncInit, AsyncIInv, QueueIInv
  <2>2. OfItsJob /\ DuplicateOnRecord /\ CompletedOnRecord
    BY DEF AsyncInit, Init, OfItsJob, DuplicateOnRecord, CompletedOnRecord
  <2> QED
    BY <2>1, <2>2 DEF OutcomeIInv
<1>2. OutcomeIInv /\ [AsyncNext]_asyncVars => OutcomeIInv'
    BY NextOutcome
<1> QED
    BY <1>1, <1>2, PTL DEF AsyncSpec

-----------------------------------------------------------------------------
(***************************************************************************)
(* The count of a job whose deliveries take turns.                         *)
(***************************************************************************)
\* Rows come from deliveries that saved their record, none of them to come.
LEMMA StoredWasDelivered ==
    ASSUME TurnIInv, NEW j \in Jobs, NEW t \in StoredBy(j)
    PROVE  \E n \in 1 .. MaxReceive : t[1] = <<j, n>> /\ Recorded(<<j, n>>) /\ n <= receives[j]
<1> USE DEF TurnIInv
<1>1. t \in ever /\ t[1][1] = j /\ t[1] \in Calls /\ Recorded(t[1])
    BY DEF StoredBy, IInv, TypeOK, EverRecorded
<1>2. pc[t[1]] # "idle"
    BY <1>1 DEF IInv, RecordedCalls
<1>3. t[1] = <<j, t[1][2]>> /\ t[1][2] \in 1 .. MaxReceive
    BY <1>1, CallsAssumption
<1>4. ~(t[1][2] > receives[j])
    BY <1>1, <1>2 DEF InTurn
<1>5. t[1][2] <= receives[j]
    BY <1>3, <1>4, LimitsAssumption DEF AsyncIInv, QueueIInv, AsyncTyped, AsyncTypeOK
<1> QED
    BY <1>1, <1>3, <1>5

\* An import that ran to its end found no record of an earlier delivery.
LEMMA DoneIsFirst ==
    ASSUME TurnIInv, OfItsJob, NEW j \in Jobs \ overrun, NEW n \in 1 .. MaxReceive,
           NEW m \in 1 .. MaxReceive, n < m, pc[<<j, m>>] = "done"
    PROVE  ~Recorded(<<j, n>>)
<1> USE DEF TurnIInv
<1> SUFFICES ASSUME Recorded(<<j, n>>) PROVE FALSE
    OBVIOUS
<1>1. PICK c \in Calls : c = <<j, n>>
    BY CallsAssumption
<1>2. PICK d \in Calls : d = <<j, m>>
    BY CallsAssumption
<1>3. /\ Recorded(c) /\ Recorded(d) /\ pc[c] # "idle" /\ pc[d] # "idle"
      /\ c[1] = j /\ d[1] = j /\ c[2] < d[2]
    BY <1>1, <1>2 DEF IInv, RecordedCalls
<1>4. c \in before[d] /\ file[c] = file[d]
    BY <1>3 DEF InTurn, OfItsJob
<1>5. force[d] # "none"
    BY <1>3, <1>4 DEF IInv, RecordedOnceUnlessForced
<1> QED
    BY <1>5 DEF NothingRemoved

\* No delivery of a completed job that is not overrun is at its rows.
LEMMA CompletedStoresNothing ==
    ASSUME TurnIInv, [AsyncNext]_asyncVars, NEW j \in Jobs \ overrun, status[j] = "COMPLETED"
    PROVE  {t \in ever' : t[1][1] = j} = StoredBy(j)
<1> USE DEF TurnIInv
<1>1. AsyncTypeOK /\ TypeOK /\ StageMatchesStatus
    BY DEF AsyncIInv, QueueIInv, AsyncTyped, AsyncTypeOK
<1>2. CASE ever' = ever
    BY <1>2 DEF StoredBy
<1>3. ASSUME NEW c \in Calls, AddRow(c) PROVE {t \in ever' : t[1][1] = j} = StoredBy(j)
  <2>1. PICK w \in Workers : Busy(w) /\ stage[w] = "import" /\ Current(w) = c
    BY <1>3 DEF AddRow, Active, InTurn
  <2>2. c[1] # j
    BY <1>1, <2>1 DEF StageMatchesStatus, JobOf
  <2>3. PICK k : ever' = ever \cup {<<c, k>>}
    BY <1>3 DEF AddRow
  <2> QED
    BY <2>2, <2>3 DEF StoredBy
<1>4. [Next]_vars
    BY <1>1, AsyncStepIsImportStep
<1> QED
    BY <1>2, <1>3, <1>4 DEF Next, Step, Begin, CheckFile, DeleteByFile, PartitionRow, SaveFile, Finish,
        Fail, DeleteTransaction, ClearTransactions, vars, histVars, storeVars

\* The count of a completed job that is not overrun stays that of its rows: its
\* deliveries are over.
LEMMA NextCount ==
    ASSUME CountIInv, TurnIInv', OfItsJob', [AsyncNext]_asyncVars
    PROVE  CountIsOfTheJob'
<1> USE DEF CountIInv, TurnIInv
<1>1. /\ TypeOK /\ AsyncTypeOK /\ RecordedCalls /\ [Next]_vars /\ AsyncTyped
      /\ overrun \subseteq overrun'
  <2>1. TypeOK /\ AsyncTypeOK /\ RecordedCalls /\ AsyncTyped
    BY DEF IInv, AsyncIInv, QueueIInv, AsyncTyped
  <2>2. overrun \subseteq overrun'
    BY DEF AsyncNext, WorkerStep, CreateJob, SendMessage, Expire, Receive, ReadJob, MarkProcessing,
        Importing, ImportFails, Complete, ReportFailure, StoreError, Delete, Crash, asyncVars
  <2> QED
    BY <2>1, <2>2, AsyncStepIsImportStep
<1> SUFFICES ASSUME NEW j \in Jobs \ overrun', status'[j] = "COMPLETED"
             PROVE  \/ inserted'[j] = Cardinality({t \in ever' : t[1][1] = j})
                    \/ /\ inserted'[j] = 0
                       /\ \E n, m \in 1 .. MaxReceive :
                             /\ n < m /\ Recorded(<<j, n>>)'
                             /\ pc'[<<j, m>>] = "duplicate"
    BY DEF CountIsOfTheJob, StoredBy
<1>2. j \in Jobs \ overrun
    BY <1>1
<1>3. \A n \in 1 .. MaxReceive : <<j, n>> \in Calls
    BY CallsAssumption
<1>4. CASE status[j] = "COMPLETED"
  <2>1. inserted'[j] = inserted[j]
    BY <1>2, <1>4, CompletedStays
  <2>2. {t \in ever' : t[1][1] = j} = StoredBy(j)
    BY <1>2, <1>4, CompletedStoresNothing
  <2>3. ASSUME NEW n \in 1 .. MaxReceive
        PROVE  /\ Recorded(<<j, n>>) => Recorded(<<j, n>>)'
               /\ pc[<<j, n>>] = "duplicate" => pc'[<<j, n>>] = "duplicate"
    BY <1>1, <1>3, ImportOnlyAdds
  <2> QED
    BY <1>2, <1>4, <2>1, <2>2, <2>3 DEF CountIsOfTheJob
<1>5. CASE \E w \in Workers : Complete(w) /\ JobOf(w) = j
  <2>1. PICK w \in Workers : Complete(w) /\ JobOf(w) = j
    BY <1>5
  <2>2. PICK m \in 1 .. MaxReceive : Current(w) = <<j, m>> /\ m = receives[j]
    <3>1. Current(w)[2] = receives[j]
        BY <1>1, <1>2, <2>1, CurrentType DEF Complete, JobOf, AsyncIInv, QueueIInv, HoldsCurrent
    <3> QED
        BY <1>1, <2>1, <3>1, CurrentType DEF Complete
  <2>3. UNCHANGED vars /\ inserted'[j] = RowsInserted(<<j, m>>) /\ pc[<<j, m>>] \in {"done", "duplicate"}
    BY <1>1, <1>2, <2>1, <2>2 DEF Complete, UpdateJobStatus, AsyncTypeOK
  <2>4. ever' = ever /\ pc' = pc /\ uploads' = uploads
    BY <2>3 DEF vars, callVars, storeVars, histVars
  <2>5. \A t \in StoredBy(j) : \E n \in 1 .. MaxReceive : t[1] = <<j, n>> /\ Recorded(<<j, n>>) /\ n <= m
    BY <1>1, <1>2, <2>2, StoredWasDelivered
  <2>6. CASE pc[<<j, m>>] = "duplicate"
    <3>1. inserted'[j] = 0 /\ ~Recorded(<<j, m>>)
        BY <1>1, <1>3, <2>3, <2>6 DEF RowsInserted, RecordedCalls
    <3>2. CASE \E n \in 1 .. MaxReceive : n < m /\ Recorded(<<j, n>>)
        BY <2>4, <2>6, <3>1, <3>2 DEF Recorded
    <3>3. CASE ~\E n \in 1 .. MaxReceive : n < m /\ Recorded(<<j, n>>)
        <4>1. StoredBy(j) = {}
            BY <2>5, <3>1, <3>3, LimitsAssumption
        <4> QED
            BY <2>4, <3>1, <4>1, FS_EmptySet DEF StoredBy
    <3> QED
        BY <3>2, <3>3
  <2>7. CASE pc[<<j, m>>] = "done"
    <3>1. \A n \in 1 .. MaxReceive : n < m => ~Recorded(<<j, n>>)
        BY <1>2, <2>2, <2>7, DoneIsFirst
    <3>2. \A t \in StoredBy(j) : t[1] = <<j, m>>
        <4> SUFFICES ASSUME NEW t \in StoredBy(j) PROVE t[1] = <<j, m>>
            OBVIOUS
        <4>1. PICK n \in 1 .. MaxReceive : t[1] = <<j, n>> /\ Recorded(<<j, n>>) /\ n <= m
            BY <2>5
        <4>2. ~(n < m)
            BY <3>1, <4>1
        <4>3. n = m
            BY <4>1, <4>2, LimitsAssumption
        <4> QED
            BY <4>1, <4>3
    <3>3. StoredBy(j) = {t \in ever : t[1] = <<j, m>>}
        BY <3>2 DEF StoredBy
    <3> QED
        BY <2>3, <2>4, <2>7, <3>3 DEF RowsInserted, StoredBy
  <2> QED
    BY <2>3, <2>6, <2>7
<1> QED
    BY <1>1, <1>4, <1>5, JobRowWrites

\* The count of a job that is not overrun is that of all its rows, or 0 after an
\* earlier delivery that recorded the file and did not report.
THEOREM CountedWhole == AsyncSpec => []CountIsOfTheJob
<1>1. AsyncInit => CountIsOfTheJob
    BY DEF AsyncInit, CountIsOfTheJob
<1>2. TurnIInv /\ TurnIInv' /\ OutcomeIInv /\ OutcomeIInv' /\ CountIsOfTheJob /\ [AsyncNext]_asyncVars
      => CountIsOfTheJob'
    BY NextCount DEF CountIInv, OutcomeIInv
<1> QED
    BY <1>1, <1>2, TurnInvariance, OutcomeInvariance, PTL DEF AsyncSpec

\* A completed job's rows are stored, or an import of its content has saved its
\* record and not its rows.
THEOREM CompletedWasImported == AsyncSpec => []CompletedIsImported
<1>1. OutcomeIInv => CompletedIsImported
  <2> SUFFICES ASSUME OutcomeIInv, NEW j \in Jobs, status[j] = "COMPLETED"
               PROVE  \/ Imported(j)
                      \/ \E c \in Calls : /\ Recorded(c) /\ file[c] = Content[j]
                                          /\ pc[c] \in {"add", "failed"}
    BY DEF CompletedIsImported
  <2>1. PICK c \in Calls : Recorded(c) /\ file[c] = Content[j]
    BY DEF OutcomeIInv, CompletedOnRecord, OnRecord
  <2>2. pc[c] \in {"add", "done", "failed"}
    BY <2>1 DEF OutcomeIInv, IInv, RecordedCalls
  <2>3. pc[c] = "done" => Imported(j)
    BY <2>1 DEF OutcomeIInv, IInv, DoneLosesNoRow, Imported, RowNos, RowAt
  <2> QED
    BY <2>1, <2>2, <2>3
<1> QED
    BY <1>1, OutcomeInvariance, PTL
=============================================================================
