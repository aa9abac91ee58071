------------------------------ MODULE JobQueue ------------------------------
(***************************************************************************)
(* What the asynchronous upload promises of a job, whatever the workers,   *)
(* the queue and the store do: it is delivered a bounded number of times,  *)
(* is done once and for all, leaves the queue as done only when it is      *)
(* done, and does leave the queue in the end.  Of a job that is late, one  *)
(* that was delivered again while it was worked on, only the number of     *)
(* deliveries and the end are promised.                                    *)
(***************************************************************************)
EXTENDS Naturals

CONSTANTS Jobs, MaxReceive

VARIABLES place,   \* of the job's message
          tries,   \* its deliveries so far
          done,    \* whether the job is done
          late     \* the jobs delivered again while they were worked on

vars == <<place, tries, done, late>>

Init ==
    /\ place = [j \in Jobs |-> "none"]
    /\ tries = [j \in Jobs |-> 0]
    /\ done = [j \in Jobs |-> FALSE]
    /\ late = {}

Move(j, from, to) ==
    /\ place[j] = from
    /\ place' = [place EXCEPT ![j] = to]

Create(j) == Move(j, "none", "created") /\ UNCHANGED <<tries, done, late>>
Publish(j) == Move(j, "created", "queued") /\ UNCHANGED <<tries, done, late>>
Lose(j) == Move(j, "created", "lost") /\ UNCHANGED <<tries, done, late>>

\* One receive delivers a batch.
Deliver(S) ==
    /\ \A j \in S : place[j] = "queued" /\ tries[j] < MaxReceive
    /\ tries' = [j \in Jobs |-> IF j \in S THEN tries[j] + 1 ELSE tries[j]]
    /\ UNCHANGED <<place, done, late>>

Overrun(j) ==
    /\ place[j] = "queued" /\ tries[j] > 0
    /\ late' = late \cup {j}
    /\ UNCHANGED <<place, tries, done>>

Complete(j) ==
    /\ place[j] = "queued" \/ j \in late
    /\ tries[j] > 0
    /\ done' = [done EXCEPT ![j] = TRUE]
    /\ UNCHANGED <<place, tries, late>>

Redo(j) ==
    /\ j \in late
    /\ done' = [done EXCEPT ![j] = FALSE]
    /\ UNCHANGED <<place, tries, late>>

Ack(j) ==
    /\ done[j] \/ j \in late
    /\ Move(j, "queued", "deleted")
    /\ UNCHANGED <<tries, done, late>>

Bury(j) ==
    /\ tries[j] = MaxReceive
    /\ Move(j, "queued", "dlq")
    /\ late' \in {late, late \cup {j}}
    /\ UNCHANGED <<tries, done>>

Next ==
    \/ \E j \in Jobs : \/ Create(j) \/ Publish(j) \/ Lose(j) \/ Overrun(j)
                       \/ Complete(j) \/ Redo(j) \/ Ack(j) \/ Bury(j)
    \/ \E S \in SUBSET Jobs : Deliver(S)

Spec == Init /\ [][Next]_vars

\* A queued job leaves the queue.
Drains == \A j \in Jobs : place[j] = "queued" ~> place[j] \in {"deleted", "dlq"}
=============================================================================
