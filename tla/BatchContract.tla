---------------------------- MODULE BatchContract ----------------------------
(***************************************************************************)
(* What exec_util.h promises of exec_batch: commands are taken in order,   *)
(* at most Limit run at once, an outcome is final, and when the call       *)
(* returns whatever did not succeed is reported as failed.                 *)
(***************************************************************************)
EXTENDS Integers, FiniteSets

CONSTANTS Commands, Limit

VARIABLES outcome, returned

Init ==
    /\ outcome = [c \in Commands |-> "waiting"]
    /\ returned = FALSE

Running == {c \in Commands : outcome[c] = "running"}

\* The next command in order, not before.
IsNext(c) == outcome[c] = "waiting" /\ \A d \in Commands : d < c => outcome[d] # "waiting"

Launch(c) ==
    /\ ~returned /\ IsNext(c) /\ Cardinality(Running) < Limit
    /\ outcome' = [outcome EXCEPT ![c] = "running"]
    /\ UNCHANGED returned

Refuse(c) ==
    /\ ~returned /\ IsNext(c)
    /\ outcome' = [outcome EXCEPT ![c] = "failed"]
    /\ UNCHANGED returned

Finish(c) ==
    /\ ~returned /\ outcome[c] = "running"
    /\ \E r \in {"ok", "failed"} : outcome' = [outcome EXCEPT ![c] = r]
    /\ UNCHANGED returned

Return ==
    /\ ~returned /\ returned' = TRUE
    /\ outcome' = [c \in Commands |-> IF outcome[c] = "ok" THEN "ok" ELSE "failed"]

Next == (\E c \in Commands : Launch(c) \/ Refuse(c) \/ Finish(c)) \/ Return

Spec == Init /\ [][Next]_<<outcome, returned>>
=============================================================================
