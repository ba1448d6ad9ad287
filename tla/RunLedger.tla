------------------------------- MODULE RunLedger -------------------------------
(***************************************************************************)
(* What the admission queue promises the rest of the program, without       *)
(* lanes, backends, executors or rows: a ledger with one line per run.  A   *)
(* photo has at most one open line, lines are taken up in the order they    *)
(* were written, at most Limit at a time, and what a line ended with stays. *)
(* PipelineQueue implements it (RunsFormLedger there).                      *)
(***************************************************************************)
EXTENDS Naturals, FiniteSets

CONSTANTS
    Photo,      \* photos a run can be requested for
    MaxRuns,    \* bound: lines of the ledger
    Limit,      \* runs at work at the same time
    NoPhoto

VARIABLES
    photo,      \* line -> photo it was written for
    state       \* line -> what became of it

LineId == 1..MaxRuns
Outcome == {"interrupted", "completed", "completed-with-errors"}

LedgerInit ==
    /\ photo = [n \in LineId |-> NoPhoto]
    /\ state = [n \in LineId |-> "blank"]

In(st) == {n \in LineId : state[n] = st}
Open == In("waiting") \cup In("working")
First(S, n) == n \in S /\ \A k \in S : n <= k

\* A photo without an open line gets the first blank one.
Request(p) ==
    /\ \A n \in Open : photo[n] # p
    /\ \E n \in LineId :
          /\ First(In("blank"), n)
          /\ photo' = [photo EXCEPT ![n] = p]
          /\ state' = [state EXCEPT ![n] = "waiting"]

\* A line is spent on a run that was never admitted to the queue.
Void ==
    /\ \E n \in LineId : First(In("blank"), n) /\ state' = [state EXCEPT ![n] = "void"]
    /\ UNCHANGED photo

\* The oldest waiting line is taken up.
Start ==
    /\ Cardinality(In("working")) < Limit
    /\ \E n \in LineId : First(In("waiting"), n) /\ state' = [state EXCEPT ![n] = "working"]
    /\ UNCHANGED photo

\* A line at work gets its outcome.
End ==
    /\ \E n \in In("working"), o \in Outcome : state' = [state EXCEPT ![n] = o]
    /\ UNCHANGED photo

\* A restart interrupts all that is open, at once.
Interrupt ==
    /\ state' = [n \in LineId |-> IF n \in Open THEN "interrupted" ELSE state[n]]
    /\ UNCHANGED photo

LedgerNext == (\E p \in Photo : Request(p)) \/ Void \/ Start \/ End \/ Interrupt

LedgerSpec == LedgerInit /\ [][LedgerNext]_<<photo, state>>

================================================================================
