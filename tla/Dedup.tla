------------------------------- MODULE Dedup -------------------------------
(***************************************************************************)
(* The duplicate tests of src/dedup: the date-less transaction             *)
(* fingerprint, the date tolerance, and when two rows count as the same    *)
(* purchase.                                                               *)
(*                                                                         *)
(* A statement row is a record of an amount (in hundredths of a dong), the *)
(* words of its description and a date.  A word is opaque: Noise holds the *)
(* transaction ids, dates and punctuation that normalize_description       *)
(* drops.  A date is its day number when it parses as ISO, else an opaque  *)
(* text, numbered too.                                                     *)
(***************************************************************************)
EXTENDS Integers, Sequences, FiniteSets

CONSTANTS Tol,    \* dedup_date_tolerance_days
          Noise   \* the words normalize_description drops

ASSUME TolAssumption == Tol \in Nat

Date == [iso : BOOLEAN, day : Int]

\* round() of Python: half to even.
NormalizeAmount(cents) ==
    LET whole == cents \div 100
        rest  == cents % 100
    IN  IF rest < 50 \/ (rest = 50 /\ whole % 2 = 0) THEN whole ELSE whole + 1

\* Sorting the tokens keeps how often each occurs and nothing of their order.
NormalizeDescription(words) ==
    LET kept == {w \in {words[i] : i \in DOMAIN words} : w \notin Noise}
    IN  [w \in kept |-> Cardinality({i \in DOMAIN words : words[i] = w})]

TransactionFingerprint(row) ==
    <<NormalizeAmount(row.amount), NormalizeDescription(row.words)>>

WithinDays(a, b, tolerance) ==
    \/ a.iso /\ b.iso /\ a.day - b.day \in -tolerance .. tolerance
    \/ ~(a.iso /\ b.iso) /\ a = b

\* The level-2 test: same fingerprint, dates within the tolerance.
Same(r, s) ==
    /\ TransactionFingerprint(r) = TransactionFingerprint(s)
    /\ WithinDays(r.date, s.date, Tol)
=============================================================================
